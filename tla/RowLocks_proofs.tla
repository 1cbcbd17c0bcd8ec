--------------------------- MODULE RowLocks_proofs ---------------------------
(***************************************************************************)
(* RowLocks implements AuctionHouse: the transactions, with their          *)
(* statements interleaved, do to the committed rows what whole handlers    *)
(* would have done one after the other; for every value of the constants   *)
(* and any number of transactions at once.                                 *)
(***************************************************************************)
EXTENDS RowLocks, AuctionHouseSteps_proofs

----------------------------------------------------------------------------
(* The inductive invariant.                                                *)

Ops   == {"place", "cancel", "close", "pay", "expire"}
Steps == {"hold", "refund", "orders", "close", "force", "forfeit", "lapse", "offer",
          "debit", "credit", "sell"}

(* The rows a transaction on a has to do with.                             *)
RowIds(a) == {AuctionId(a)} \cup {OrderId(a, r) : r \in Ranks}
               \cup {WalletId(u) : u \in Users} \cup {DepositId(a, u) : u \in Users}

Lock   == [row: UNION {RowIds(a) : a \in Auctions}, mode: {"update", "nokey", "share"}]

OpenTx == [op: Ops, pc: Steps, held: SUBSET Lock, a: Auctions, who: Users \cup {NoOne},
           n: Nat, seen: AuctionRow, open: SUBSET Ranks, back: SUBSET Users, left: SUBSET Users]

TxTypes == tx \in [Txns -> OpenTx \cup {NoTx}]

(* Locks of different transactions do not conflict.                        *)
Exclusive ==
  \A s, t \in Txns : s # t => \A l \in tx[s].held, m \in tx[t].held : ~Conflicts(l, m)

HasAuction(t) == ForUpdate(AuctionId(tx[t].a)) \in tx[t].held
HasOrder(t)   == ForUpdate(OrderId(tx[t].a, tx[t].n)) \in tx[t].held
HasWallet(t, u) == Updating(WalletId(u)) \in tx[t].held

(* What a transaction has read and checked is still so.                    *)
Placing(t) ==
  LET x == tx[t]  row == auction[x.a]
  IN /\ HasAuction(t)
     /\ x.seen = row /\ row.status = "LIVE" /\ row.endTime > now
     /\ x.who \in Users /\ Owner[x.a] # x.who /\ row.winner # x.who
     /\ x.n \in BidAmounts /\ x.n >= Floor(x.a)
     /\ x.pc \in {"hold", "refund"}
     /\ x.pc = "refund" =>
          /\ HasWallet(t, x.who) /\ CanHold(x.who, x.a)
          /\ x.back = {} /\ x.left = {row.winner}
          /\ row.winner \in Users /\ Holds(deposit, x.a, row.winner)

Cancelling(t) ==
  LET x == tx[t]
  IN /\ HasAuction(t)
     /\ \E isAdmin \in BOOLEAN : IsCancellable(auction[x.a].status, isAdmin)
     /\ x.open = Awaiting(x.a)
     /\ x.pc \in {"orders", "refund"}
     /\ x.pc = "orders" => x.held = {ForUpdate(AuctionId(x.a))}
     /\ x.pc = "refund" =>
          /\ \A r \in x.open : Updating(OrderId(x.a, r)) \in x.held
          /\ x.left # {} /\ x.back \cup x.left = {u \in Users : Holds(deposit, x.a, u)}
          /\ \A u \in x.back : HasWallet(t, u)

Closing(t) ==
  LET x == tx[t]
  IN /\ HasAuction(t)
     /\ x.pc \in {"close", "force"}
     /\ x.seen = auction[x.a] /\ x.seen.status = "LIVE"
     /\ x.pc = "close" => x.a \in listed /\ Closable(x.a)

Paying(t) ==
  LET x == tx[t]  o == order[x.a][x.n]
  IN /\ x.n \in Ranks /\ HasOrder(t)
     /\ o.status = "AWAITING_PAYMENT" /\ o.deadline > now /\ x.who = o.buyer
     /\ x.pc \in {"debit", "credit", "sell"}
     /\ x.pc \in {"credit", "sell"} => HasWallet(t, x.who) /\ wallet[x.who].balance >= o.due
     /\ x.pc = "sell" => HasWallet(t, Owner[x.a])

Expiring(t) ==
  LET x == tx[t]
  IN /\ x.n \in Ranks /\ HasOrder(t)
     /\ Expirable(x.a, x.n) /\ x.who = order[x.a][x.n].buyer
     /\ x.pc \in (IF x.n = 1 THEN {"forfeit", "offer"} ELSE {"lapse"})
     /\ x.pc = "offer" /\ Holds(deposit, x.a, x.who) => HasWallet(t, x.who)

Stands(t) ==
  /\ tx[t].op = "place"  => Placing(t)
  /\ tx[t].op = "cancel" => Cancelling(t)
  /\ tx[t].op = "close"  => Closing(t)
  /\ tx[t].op = "pay"    => Paying(t)
  /\ tx[t].op = "expire" => Expiring(t)

OwnRows(t) == tx[t].op \in Ops => \A l \in tx[t].held : l.row \in RowIds(tx[t].a)

LInv == TxTypes /\ Exclusive /\ \A t \in Txns : Stands(t) /\ OwnRows(t)

RInv == IInv /\ LInv
----------------------------------------------------------------------------
(* Rows and locks.                                                         *)

(* Different rows have different names.                                    *)
LEMMA RowNames ==
  /\ \A a, b : AuctionId(a) = AuctionId(b) => a = b
  /\ \A a, b, r, k : OrderId(a, r) = OrderId(b, k) => a = b /\ r = k
  /\ \A u, v : WalletId(u) = WalletId(v) => u = v
  /\ \A a, b, u, v : DepositId(a, u) = DepositId(b, v) => a = b /\ u = v
  /\ \A a, b, r, u, v : /\ AuctionId(a) # OrderId(b, r) /\ AuctionId(a) # WalletId(u)
                         /\ AuctionId(a) # DepositId(b, v)
                         /\ OrderId(b, r) # WalletId(u) /\ OrderId(b, r) # DepositId(a, v)
                         /\ WalletId(u) # DepositId(a, v)
  BY DEF AuctionId, OrderId, WalletId, DepositId

(* Two locks on one row conflict unless both are weak.                     *)
LEMMA LockConflicts ==
  /\ \A i : /\ Conflicts(ForUpdate(i), ForUpdate(i)) /\ Conflicts(Updating(i), Updating(i))
            /\ Conflicts(Updating(i), ForUpdate(i)) /\ Conflicts(KeyShare(i), ForUpdate(i))
  /\ \A i : /\ ForUpdate(i).row = i /\ Updating(i).row = i /\ KeyShare(i).row = i
  /\ \A l, m : Conflicts(l, m) => l.row = m.row /\ Conflicts(m, l)
  BY DEF Conflicts, ForUpdate, Updating, KeyShare

(* What is open has the fields of a transaction.                           *)
LEMMA OpenIsTyped ==
  ASSUME TxTypes, NEW t \in Txns
  PROVE  /\ tx[t].op \in Ops => tx[t] \in OpenTx
         /\ tx[t].op \notin Ops => tx[t] = NoTx
         /\ ~Idle(t) => tx[t].op \in Ops
         /\ \A s : tx[t].pc = s /\ s \in Steps => tx[t].op \in Ops
  BY DEF TxTypes, OpenTx, NoTx, Ops, Steps, Idle

(* The fields, one by one.                                                 *)
LEMMA TxFields ==
  ASSUME NEW x \in OpenTx
  PROVE  /\ x.op \in Ops /\ x.pc \in Steps /\ x.held \in SUBSET Lock /\ x.a \in Auctions
         /\ x.who \in Users \cup {NoOne} /\ x.n \in Nat /\ x.seen \in AuctionRow
         /\ x.open \in SUBSET Ranks /\ x.back \in SUBSET Users /\ x.left \in SUBSET Users
  BY DEF OpenTx

(* A payment or an expiry has an open order; a live auction has none, and  *)
(* no auction has two.                                                     *)
LEMMA OrderIsOpen ==
  ASSUME RInv, NEW t \in Txns, tx[t].op \in {"pay", "expire"}
  PROVE  /\ tx[t].a \in Auctions /\ tx[t].n \in Awaiting(tx[t].a)
         /\ HasOrder(t) /\ auction[tx[t].a].status = "ENDED"
         /\ \A r \in Awaiting(tx[t].a) : r = tx[t].n
  <1> DEFINE a == tx[t].a
  <1>1. tx[t] \in OpenTx
    BY OpenIsTyped DEF RInv, LInv, Ops
  <1>2. a \in Auctions
    BY <1>1, TxFields
  <1>3. /\ tx[t].n \in Ranks /\ HasOrder(t)
        /\ order[a][tx[t].n].status = "AWAITING_PAYMENT"
    BY DEF RInv, LInv, Stands, Paying, Expiring, Expirable
  <1>4. tx[t].n \in Awaiting(a)
    BY <1>3 DEF Awaiting
  <1>5. Phase(a)
    BY <1>2 DEF RInv, IInv, Rows
  <1>6. auction[a].status = "ENDED" /\ \A r \in Awaiting(a) : r = tx[t].n
    <2> HIDE DEF a
    <2> QED
      BY <1>3, <1>5 DEF Phase, Awaiting, Ranks
  <1> QED
    BY <1>2, <1>3, <1>4, <1>6

(* A bid, a cancel and a close hold the row of their auction.              *)
LEMMA AuctionIsLocked ==
  ASSUME RInv, NEW t \in Txns, tx[t].op \in {"place", "cancel", "close"}
  PROVE  /\ HasAuction(t)
         /\ tx[t].op # "cancel" => auction[tx[t].a].status = "LIVE"
  BY DEF RInv, LInv, Stands, Placing, Cancelling, Closing

(* What the locks leave possible on one auction: nothing but a cancel that *)
(* has not yet got to the orders, with a payment or an expiry.             *)
LEMMA SameAuction ==
  ASSUME RInv, NEW s \in Txns, NEW t \in Txns, s # t,
         tx[s].op \in Ops, tx[t].op \in Ops, tx[s].a = tx[t].a
  PROVE  \/ tx[s].op = "cancel" /\ tx[s].pc = "orders" /\ tx[t].op \in {"pay", "expire"}
         \/ tx[t].op = "cancel" /\ tx[t].pc = "orders" /\ tx[s].op \in {"pay", "expire"}
  <1> DEFINE Front == {"place", "cancel", "close"}
             Back  == {"pay", "expire"}
  <1>1. \A l \in tx[s].held, m \in tx[t].held : ~Conflicts(l, m) /\ ~Conflicts(m, l)
    BY LockConflicts DEF RInv, LInv, Exclusive
  <1>2. ~(tx[s].op \in Front /\ tx[t].op \in Front)
    BY <1>1, AuctionIsLocked, LockConflicts DEF HasAuction
  <1>3. ~(tx[s].op \in Back /\ tx[t].op \in Back)
    BY <1>1, OrderIsOpen, LockConflicts DEF HasOrder
  <1>4. ASSUME NEW f \in {s, t}, NEW b \in {s, t}, f # b,
               tx[f].op \in Front, tx[b].op \in Back
        PROVE  tx[f].op = "cancel" /\ tx[f].pc = "orders"
    <2>1. tx[f].op = "cancel"
      BY <1>4, AuctionIsLocked, OrderIsOpen
    <2>2. Cancelling(f)
      BY <2>1 DEF RInv, LInv, Stands
    <2>3. tx[b].n \in tx[f].open
      BY <1>4, <2>2, OrderIsOpen DEF Cancelling
    <2>4. CASE tx[f].pc = "refund"
      <3>1. /\ Updating(OrderId(tx[f].a, tx[b].n)) \in tx[f].held
            /\ ForUpdate(OrderId(tx[f].a, tx[b].n)) \in tx[b].held
        BY <1>4, <2>2, <2>3, <2>4, OrderIsOpen DEF Cancelling, HasOrder
      <3> QED
        BY <1>1, <1>4, <3>1, LockConflicts
    <2> QED
      BY <2>1, <2>2, <2>4 DEF Cancelling
  <1> QED
    BY <1>2, <1>3, <1>4 DEF Ops

(* The rows that the next statement asks for.                              *)
LEMMA NeedTypes ==
  ASSUME RInv, NEW t \in Txns, tx[t].op \in Ops
  PROVE  /\ Need(t) \subseteq Lock
         /\ \A l \in Need(t) : l.row \in RowIds(tx[t].a)
  <1> DEFINE x == tx[t]
  <1>1. x \in OpenTx
    BY OpenIsTyped DEF RInv, LInv
  <1>2. x.a \in Auctions /\ Owner[x.a] \in Users /\ x.open \in SUBSET Ranks
    BY <1>1, TxFields, UsersAssumption
  <1>3. ASSUME NEW i \in RowIds(x.a), NEW m \in {"update", "nokey", "share"}
        PROVE  [row |-> i, mode |-> m] \in Lock /\ [row |-> i, mode |-> m].row = i
    BY <1>2 DEF Lock
  <1>4. ASSUME NEW u \in Users PROVE {WalletId(u), DepositId(x.a, u)} \subseteq RowIds(x.a)
    BY DEF RowIds
  <1>5. AuctionId(x.a) \in RowIds(x.a) /\ \A r \in Ranks : OrderId(x.a, r) \in RowIds(x.a)
    BY DEF RowIds
  <1>6. x.pc \in {"hold", "debit", "forfeit"} => x.who \in Users
    <2>1. \A r \in Ranks : order[x.a][r].status = "AWAITING_PAYMENT" => order[x.a][r].buyer \in Users
      BY <1>2 DEF RInv, IInv, Rows, Claims, Ranks
    <2> QED
      BY <2>1 DEF RInv, LInv, Stands, Placing, Cancelling, Closing, Paying, Expiring, Expirable, Ops
  <1>7. x.pc = "refund" => NextLeft(t) \in Users
    <2>1. x.pc = "refund" => x.left # {}
      BY DEF RInv, LInv, Stands, Placing, Cancelling, Closing, Paying, Expiring, Ops
    <2> QED
      BY <1>1, <2>1, TxFields DEF NextLeft
  <1>8. \A l \in Need(t) :
          \E i \in RowIds(x.a), m \in {"update", "nokey", "share"} : l = [row |-> i, mode |-> m]
    BY <1>2, <1>4, <1>5, <1>6, <1>7 DEF Need, StakeLocks, Updating, KeyShare
  <1> HIDE DEF x
  <1>9. ASSUME NEW l \in Need(t) PROVE l \in Lock /\ l.row \in RowIds(x.a)
    BY <1>3, <1>8
  <1> QED
    BY <1>9 DEF x

----------------------------------------------------------------------------
(* What a step leaves standing.                                            *)

(* The buyer of an open order is a user.                                   *)
LEMMA BuyerIsUser ==
  ASSUME RInv, NEW t \in Txns, tx[t].op \in {"pay", "expire"}
  PROVE  tx[t].who \in Users /\ tx[t].who = order[tx[t].a][tx[t].n].buyer
  <1>1. /\ tx[t].a \in Auctions /\ tx[t].n \in Ranks
        /\ order[tx[t].a][tx[t].n].status = "AWAITING_PAYMENT"
    BY OrderIsOpen DEF Awaiting
  <1>2. tx[t].who = order[tx[t].a][tx[t].n].buyer
    BY DEF RInv, LInv, Stands, Paying, Expiring
  <1>3. Claims(tx[t].a)
    BY <1>1 DEF RInv, IInv, Rows
  <1> QED
    BY <1>1, <1>2, <1>3 DEF Claims, Ranks

(* A transaction's checks stand as long as the rows of its auction and the *)
(* wallets it has locked are as they were; a close's, as long as it is on  *)
(* the closing job's list.                                                 *)
LEMMA StandsFrame ==
  ASSUME RInv, NEW s \in Txns, tx'[s] = tx[s], now' = now,
         tx[s].op \in Ops => /\ auction'[tx[s].a] = auction[tx[s].a]
                             /\ order'[tx[s].a] = order[tx[s].a]
                             /\ deposit'[tx[s].a] = deposit[tx[s].a],
         tx[s].op = "close" /\ tx[s].a \in listed => tx[s].a \in listed',
         \A u \in Users : HasWallet(s, u) => wallet'[u] = wallet[u]
  PROVE  Stands(s)' /\ OwnRows(s)'
  <1> USE DEF HasAuction, HasOrder, HasWallet
  <1>0. Stands(s) /\ OwnRows(s)
    BY DEF RInv, LInv
  <1>1. OwnRows(s)'
    BY <1>0 DEF OwnRows, RowIds
  <1>2. tx[s].op = "place" => Placing(s)'
    BY <1>0 DEF Stands, Placing, Floor, CanHold, Holds, Ops
  <1>3. tx[s].op = "cancel" => Cancelling(s)'
    BY <1>0 DEF Stands, Cancelling, Awaiting, Holds, Ops
  <1>4. tx[s].op = "close" => Closing(s)'
    BY <1>0 DEF Stands, Closing, Closable, Ops
  <1>5. tx[s].op = "pay" => Paying(s)'
    BY <1>0, BuyerIsUser DEF Stands, Paying, Ops
  <1>6. tx[s].op = "expire" => Expiring(s)'
    BY <1>0 DEF Stands, Expiring, Expirable, Holds, Ops
  <1> QED
    BY <1>1, <1>2, <1>3, <1>4, <1>5, <1>6 DEF Stands

(* Only t's entry changes, to y.                                           *)
LEMMA OnlyTx ==
  ASSUME TxTypes, NEW t \in Txns, NEW y \in OpenTx \cup {NoTx}, tx' = [tx EXCEPT ![t] = y]
  PROVE  TxTypes' /\ tx'[t] = y /\ \A s \in Txns \ {t} : tx'[s] = tx[s]
  BY DEF TxTypes

(* Locks granted to t do not conflict with what the others hold.           *)
LEMMA GrantedAreExclusive ==
  ASSUME Exclusive, NEW t \in Txns, NEW L, Grantable(t, L),
         \A s \in Txns \ {t} : tx'[s].held = tx[s].held,
         tx'[t].held \subseteq tx[t].held \cup L
  PROVE  Exclusive'
  <1> SUFFICES ASSUME NEW p \in Txns, NEW q \in Txns, p # q,
                      NEW l \in tx'[p].held, NEW m \in tx'[q].held
               PROVE  ~Conflicts(l, m)
    BY DEF Exclusive, Conflicts
  <1>1. CASE p # t /\ q # t
    BY <1>1 DEF Exclusive
  <1>2. CASE p = t
    BY <1>2 DEF Exclusive, Grantable, HasConflict
  <1>3. CASE q = t
    BY <1>3, LockConflicts DEF Exclusive, Grantable, HasConflict
  <1> QED
    BY <1>1, <1>2, <1>3

(* t ends, by rollback or by a commit: the others' checks stand if the     *)
(* rows of their auctions and the wallets they hold are as they were.      *)
LEMMA EndKeeps ==
  ASSUME RInv, NEW t \in Txns, Commit(t),
         \A s \in Txns \ {t} : Stands(s)' /\ OwnRows(s)'
  PROVE  LInv'
  <1>1. TxTypes' /\ tx'[t] = NoTx /\ \A s \in Txns \ {t} : tx'[s] = tx[s]
    BY OnlyTx DEF RInv, LInv, Commit
  <1>2. Exclusive'
    BY <1>1, GrantedAreExclusive DEF RInv, LInv, NoTx, Grantable
  <1>3. Stands(t)' /\ OwnRows(t)'
    BY <1>1 DEF Stands, OwnRows, NoTx, Ops
  <1> QED
    BY <1>1, <1>2, <1>3 DEF LInv

(* t goes on to statement st.                                              *)
LEMMA GoOnKeeps ==
  ASSUME RInv, NEW t \in Txns, tx[t].op \in Ops, NEW st \in Steps,
         NEW left \in SUBSET Users, NEW back \in SUBSET Users,
         Grantable(t, Need(t)), GoOn(t, st, left, back),
         Stands(t)'
  PROVE  LInv'
  <1> DEFINE y == [tx[t] EXCEPT !.pc = st, !.held = @ \cup Need(t), !.left = left, !.back = back]
  <1>0. tx[t] \in OpenTx
    BY OpenIsTyped DEF RInv, LInv
  <1>1. Need(t) \subseteq Lock /\ \A l \in Need(t) : l.row \in RowIds(tx[t].a)
    BY NeedTypes
  <1>2. y \in OpenTx /\ y.held = tx[t].held \cup Need(t) /\ y.a = tx[t].a
    BY <1>0, <1>1 DEF OpenTx
  <1>3. tx' = [tx EXCEPT ![t] = y]
    BY DEF GoOn
  <1> HIDE DEF y
  <1>4. TxTypes' /\ tx'[t] = y /\ \A s \in Txns \ {t} : tx'[s] = tx[s]
    BY <1>2, <1>3, OnlyTx DEF RInv, LInv
  <1>5. Exclusive'
    BY <1>2, <1>4, GrantedAreExclusive DEF RInv, LInv
  <1>6. OwnRows(t)'
    BY <1>1, <1>2, <1>4 DEF RInv, LInv, OwnRows, RowIds
  <1>7. ASSUME NEW s \in Txns \ {t} PROVE Stands(s)' /\ OwnRows(s)'
    BY <1>4, StandsFrame DEF GoOn, vars
  <1> QED
    BY <1>4, <1>5, <1>6, <1>7 DEF LInv

----------------------------------------------------------------------------
(* Transactions start, and go on.                                          *)

LEMMA StartKeeps ==
  ASSUME RInv, NEW t \in Txns, NEW op \in Ops, NEW pc \in Steps, NEW a \in Auctions,
         NEW who \in Users \cup {NoOne}, NEW n \in Nat, NEW open \in SUBSET Ranks,
         op \in {"pay", "expire"} => n \in Ranks,
         Start(t, op, pc, a, who, n, open), Stands(t)'
  PROVE  LInv'
  <1> DEFINE L == FirstLocks(op, a, n)
             y == [op |-> op, pc |-> pc, held |-> L, a |-> a, who |-> who,
                   n |-> n, seen |-> auction[a], open |-> open, back |-> {}, left |-> {}]
  <1>1. L \subseteq Lock /\ \A l \in L : l.row \in RowIds(a)
    <2>1. AuctionId(a) \in RowIds(a) /\ (n \in Ranks => OrderId(a, n) \in RowIds(a))
      BY DEF RowIds
    <2>2. L = {ForUpdate(AuctionId(a))} \/ (n \in Ranks /\ L = {ForUpdate(OrderId(a, n))})
      BY DEF FirstLocks, Ops
    <2> HIDE DEF L
    <2>3. \A i \in RowIds(a) : ForUpdate(i) \in Lock /\ ForUpdate(i).row = i
      BY DEF ForUpdate, Lock
    <2> QED
      BY <2>1, <2>2, <2>3
  <1>2. auction[a] \in AuctionRow
    BY DEF RInv, IInv, TypeOK
  <1> HIDE DEF L
  <1>3. y \in OpenTx /\ y.held = L /\ y.a = a
    BY <1>1, <1>2 DEF OpenTx
  <1>4. tx' = [tx EXCEPT ![t] = y] /\ Grantable(t, L) /\ UNCHANGED vars
    BY DEF Start, L
  <1> HIDE DEF y
  <1>5. TxTypes' /\ tx'[t] = y /\ \A s \in Txns \ {t} : tx'[s] = tx[s]
    BY <1>3, <1>4, OnlyTx DEF RInv, LInv
  <1>6. Exclusive'
    BY <1>3, <1>4, <1>5, GrantedAreExclusive DEF RInv, LInv
  <1>7. OwnRows(t)'
    BY <1>1, <1>3, <1>5 DEF OwnRows, RowIds
  <1>8. ASSUME NEW s \in Txns \ {t} PROVE Stands(s)' /\ OwnRows(s)'
    BY <1>4, <1>5, StandsFrame DEF vars
  <1> QED
    BY <1>5, <1>6, <1>7, <1>8 DEF LInv

(* The transaction that started.                                           *)
LEMMA Started ==
  ASSUME RInv, NEW t \in Txns, NEW op, NEW pc, NEW a, NEW who, NEW n, NEW open,
         Start(t, op, pc, a, who, n, open)
  PROVE  /\ tx'[t].op = op /\ tx'[t].pc = pc /\ tx'[t].held = FirstLocks(op, a, n)
         /\ tx'[t].a = a /\ tx'[t].who = who /\ tx'[t].n = n /\ tx'[t].seen = auction[a]
         /\ tx'[t].open = open /\ UNCHANGED vars
  BY DEF Start, RInv, LInv, TxTypes

(* What it has locked.                                                     *)
LEMMA FirstRows ==
  /\ \A a, n : /\ FirstLocks("place", a, n) = {ForUpdate(AuctionId(a))}
               /\ FirstLocks("cancel", a, n) = {ForUpdate(AuctionId(a))}
               /\ FirstLocks("close", a, n) = {ForUpdate(AuctionId(a))}
               /\ FirstLocks("pay", a, n) = {ForUpdate(OrderId(a, n))}
               /\ FirstLocks("expire", a, n) = {ForUpdate(OrderId(a, n))}
  BY DEF FirstLocks

LEMMA StartsKeep ==
  ASSUME RInv, NEW t \in Txns, Starts(t)
  PROVE  LInv' /\ UNCHANGED vars
  <1>0. /\ {"place", "cancel", "close", "pay", "expire"} \subseteq Ops
        /\ {"hold", "orders", "close", "force", "forfeit", "lapse", "debit"} \subseteq Steps
    BY DEF Ops, Steps
  <1>1. ASSUME NEW a \in Auctions, NEW u \in Users, NEW x \in BidAmounts, StartPlace(t, u, a, x)
        PROVE  LInv' /\ UNCHANGED vars
    <2>1. Start(t, "place", "hold", a, u, x, {}) /\ x \in Nat
      BY <1>1, MoneyAssumption DEF StartPlace
    <2>2. /\ tx'[t].op = "place" /\ tx'[t].pc = "hold" /\ tx'[t].held = FirstLocks("place", a, x)
          /\ tx'[t].a = a /\ tx'[t].who = u /\ tx'[t].n = x /\ tx'[t].seen = auction[a]
          /\ tx'[t].open = {} /\ UNCHANGED vars
      BY <2>1, Started
    <2>3. Placing(t)'
      BY <1>1, <2>2, FirstRows DEF StartPlace, Placing, Floor, HasAuction, vars
    <2>4. Stands(t)'
      BY <2>2, <2>3 DEF Stands
    <2> QED
      BY <1>0, <2>1, <2>2, <2>4, StartKeeps
  <1>2. ASSUME NEW a \in Auctions, NEW d \in BOOLEAN, StartCancel(t, a, d)
        PROVE  LInv' /\ UNCHANGED vars
    <2>1. Start(t, "cancel", "orders", a, NoOne, 1, Awaiting(a)) /\ Awaiting(a) \in SUBSET Ranks
      BY <1>2 DEF StartCancel, Awaiting
    <2>2. /\ tx'[t].op = "cancel" /\ tx'[t].pc = "orders" /\ tx'[t].held = FirstLocks("cancel", a, 1)
          /\ tx'[t].a = a /\ tx'[t].who = NoOne /\ tx'[t].n = 1 /\ tx'[t].seen = auction[a]
          /\ tx'[t].open = Awaiting(a) /\ UNCHANGED vars
      BY <2>1, Started
    <2>3. Cancelling(t)'
      BY <1>2, <2>2, FirstRows DEF StartCancel, Cancelling, Awaiting, HasAuction, vars
    <2>4. Stands(t)'
      BY <2>2, <2>3 DEF Stands
    <2> QED
      BY <1>0, <2>1, <2>2, <2>4, StartKeeps
  <1>3. ASSUME NEW a \in Auctions, NEW pc \in {"close", "force"},
               Start(t, "close", pc, a, NoOne, 1, {}),
               auction[a].status = "LIVE",
               pc = "close" => a \in listed /\ Closable(a)
        PROVE  LInv' /\ UNCHANGED vars
    <2>1. Start(t, "close", pc, a, NoOne, 1, {}) /\ pc \in Steps
      BY <1>0, <1>3
    <2>2. /\ tx'[t].op = "close" /\ tx'[t].pc = pc /\ tx'[t].held = FirstLocks("close", a, 1)
          /\ tx'[t].a = a /\ tx'[t].who = NoOne /\ tx'[t].n = 1 /\ tx'[t].seen = auction[a]
          /\ tx'[t].open = {} /\ UNCHANGED vars
      BY <2>1, Started
    <2>3. Closing(t)'
      BY <1>3, <2>2, FirstRows DEF Closing, Closable, HasAuction, vars
    <2>4. Stands(t)'
      BY <2>2, <2>3 DEF Stands
    <2> QED
      BY <1>0, <2>1, <2>2, <2>4, StartKeeps
  <1>4. ASSUME NEW a \in Auctions, NEW r \in Ranks
        PROVE  order[a][r].buyer \in Users \cup {NoOne} /\ r \in Nat
    BY OrderFields DEF RInv, IInv, TypeOK, Ranks
  <1>5. ASSUME NEW a \in Auctions, NEW r \in Ranks, StartExpire(t, a, r)
        PROVE  LInv' /\ UNCHANGED vars
    <2> DEFINE pc == IF r = 1 THEN "forfeit" ELSE "lapse"
    <2>1. Start(t, "expire", pc, a, order[a][r].buyer, r, {}) /\ pc \in Steps
      BY <1>0, <1>5 DEF StartExpire
    <2>2. /\ tx'[t].op = "expire" /\ tx'[t].pc = pc /\ tx'[t].held = FirstLocks("expire", a, r)
          /\ tx'[t].a = a /\ tx'[t].who = order[a][r].buyer /\ tx'[t].n = r /\ tx'[t].seen = auction[a]
          /\ tx'[t].open = {} /\ UNCHANGED vars
      BY <2>1, Started
    <2>3. Expiring(t)'
      BY <1>5, <2>2, FirstRows DEF StartExpire, Expiring, Expirable, HasOrder, vars
    <2>4. Stands(t)'
      BY <2>2, <2>3 DEF Stands
    <2> HIDE DEF pc
    <2> QED
      BY <1>0, <1>4, <2>1, <2>2, <2>4, StartKeeps
  <1>6. ASSUME NEW a \in Auctions, NEW r \in Ranks, StartPay(t, a, r)
        PROVE  LInv' /\ UNCHANGED vars
    <2>1. Start(t, "pay", "debit", a, order[a][r].buyer, r, {})
      BY <1>6 DEF StartPay
    <2>2. /\ tx'[t].op = "pay" /\ tx'[t].pc = "debit" /\ tx'[t].held = FirstLocks("pay", a, r)
          /\ tx'[t].a = a /\ tx'[t].who = order[a][r].buyer /\ tx'[t].n = r /\ tx'[t].seen = auction[a]
          /\ tx'[t].open = {} /\ UNCHANGED vars
      BY <2>1, Started
    <2>3. Paying(t)'
      BY <1>6, <2>2, FirstRows DEF StartPay, Paying, HasOrder, vars
    <2>4. Stands(t)'
      BY <2>2, <2>3 DEF Stands
    <2> QED
      BY <1>0, <1>4, <2>1, <2>2, <2>4, StartKeeps
  <1>7. ASSUME NEW a \in Auctions, StartClose(t, a) \/ StartForce(t, a)
        PROVE  LInv' /\ UNCHANGED vars
    BY <1>3, <1>7 DEF StartClose, StartForce, Closable
  <1> QED
    BY <1>1, <1>2, <1>5, <1>6, <1>7 DEF Starts

(* The transaction that has gone on.                                       *)
LEMMA GoneOn ==
  ASSUME RInv, NEW t \in Txns, tx[t].op \in Ops, NEW st, NEW left, NEW back,
         GoOn(t, st, left, back)
  PROVE  /\ tx'[t].pc = st /\ tx'[t].held = tx[t].held \cup Need(t)
         /\ tx'[t].left = left /\ tx'[t].back = back
         /\ tx'[t].op = tx[t].op /\ tx'[t].a = tx[t].a /\ tx'[t].who = tx[t].who
         /\ tx'[t].n = tx[t].n /\ tx'[t].seen = tx[t].seen /\ tx'[t].open = tx[t].open
         /\ UNCHANGED vars
  <1> DEFINE y == [tx[t] EXCEPT !.pc = st, !.held = tx[t].held \cup Need(t),
                                !.left = left, !.back = back]
  <1>1. tx[t] \in OpenTx
    BY OpenIsTyped DEF RInv, LInv
  <1>2. tx' = [tx EXCEPT ![t] = y] /\ UNCHANGED vars
    BY DEF GoOn
  <1>3. /\ y.pc = st /\ y.held = tx[t].held \cup Need(t) /\ y.left = left /\ y.back = back
        /\ y.op = tx[t].op /\ y.a = tx[t].a /\ y.who = tx[t].who
        /\ y.n = tx[t].n /\ y.seen = tx[t].seen /\ y.open = tx[t].open
    BY <1>1 DEF OpenTx
  <1> HIDE DEF y
  <1>4. tx'[t] = y
    BY <1>2 DEF RInv, LInv, TxTypes
  <1> QED
    BY <1>2, <1>3, <1>4

(* The statement that each operation is at.                                *)
LEMMA WhoIsWhere ==
  ASSUME RInv, NEW t \in Txns
  PROVE  /\ tx[t].pc = "hold" => tx[t].op = "place"
         /\ tx[t].pc = "orders" => tx[t].op = "cancel"
         /\ tx[t].pc = "refund" => tx[t].op \in {"place", "cancel"}
         /\ tx[t].pc \in {"close", "force"} => tx[t].op = "close"
         /\ tx[t].pc \in {"forfeit", "offer"} => tx[t].op = "expire" /\ tx[t].n = 1
         /\ tx[t].pc = "lapse" => tx[t].op = "expire" /\ tx[t].n = 2
         /\ tx[t].pc \in {"debit", "credit", "sell"} => tx[t].op = "pay"
  <1>1. tx[t].pc \in Steps => tx[t].op \in Ops
    BY OpenIsTyped DEF RInv, LInv
  <1>2. /\ tx[t].op = "place" => tx[t].pc \in {"hold", "refund"}
        /\ tx[t].op = "cancel" => tx[t].pc \in {"orders", "refund"}
        /\ tx[t].op = "close" => tx[t].pc \in {"close", "force"}
        /\ tx[t].op = "pay" => tx[t].pc \in {"debit", "credit", "sell"}
        /\ tx[t].op = "expire" =>
             /\ tx[t].n \in Ranks
             /\ tx[t].pc \in (IF tx[t].n = 1 THEN {"forfeit", "offer"} ELSE {"lapse"})
    BY DEF RInv, LInv, Stands, Placing, Cancelling, Closing, Paying, Expiring
  <1> QED
    BY <1>1, <1>2 DEF Ops, Steps, Ranks

(* When t commits, nobody else is at work on its auction.                  *)
LEMMA SoleOnAuction ==
  ASSUME RInv, NEW t \in Txns, tx[t].op \in Ops, Grantable(t, Need(t)),
         \/ tx[t].op \in {"place", "cancel", "close"}
         \/ Updating(AuctionId(tx[t].a)) \in Need(t)
         \/ KeyShare(AuctionId(tx[t].a)) \in Need(t),
         NEW s \in Txns, s # t, tx[s].op \in Ops
  PROVE  tx[s].a # tx[t].a
  <1> SUFFICES ASSUME tx[s].a = tx[t].a PROVE FALSE
    OBVIOUS
  <1>1. \A l \in Need(t), m \in tx[s].held : ~Conflicts(l, m)
    BY DEF Grantable, HasConflict
  <1>2. CASE tx[t].op = "cancel" /\ tx[t].pc = "orders" /\ tx[s].op \in {"pay", "expire"}
    <2>1. Need(t) = {Updating(OrderId(tx[t].a, r)) : r \in tx[t].open}
      BY <1>2 DEF Need
    <2>2. tx[s].n \in tx[t].open
      BY <1>2, OrderIsOpen DEF RInv, LInv, Stands, Cancelling
    <2>3. ForUpdate(OrderId(tx[t].a, tx[s].n)) \in tx[s].held
      BY <1>2, OrderIsOpen DEF HasOrder
    <2>4. Updating(OrderId(tx[t].a, tx[s].n)) \in Need(t)
      BY <2>1, <2>2
    <2> QED
      BY <1>1, <2>3, <2>4, LockConflicts
  <1>3. CASE tx[s].op = "cancel" /\ tx[t].op \in {"pay", "expire"}
    <2>1. ForUpdate(AuctionId(tx[t].a)) \in tx[s].held
      BY <1>3, AuctionIsLocked DEF HasAuction
    <2> QED
      BY <1>1, <1>3, <2>1, LockConflicts
  <1> QED
    BY <1>2, <1>3, SameAuction

(* A commit that writes the rows of its own auction, and no wallet that it *)
(* has not locked, leaves what the others have checked standing.           *)
LEMMA CommitKeeps ==
  ASSUME RInv, NEW t \in Txns, tx[t].op \in Ops, Grantable(t, Need(t)), Commit(t),
         \/ tx[t].op \in {"place", "cancel", "close"}
         \/ Updating(AuctionId(tx[t].a)) \in Need(t)
         \/ KeyShare(AuctionId(tx[t].a)) \in Need(t),
         now' = now,
         \A c \in Auctions : c # tx[t].a => /\ auction'[c] = auction[c] /\ order'[c] = order[c]
                                            /\ deposit'[c] = deposit[c],
         \A c \in Auctions : c # tx[t].a /\ c \in listed => c \in listed',
         \A u \in Users : \/ wallet'[u] = wallet[u]
                          \/ Updating(WalletId(u)) \in tx[t].held \cup Need(t)
  PROVE  LInv'
  <1> SUFFICES ASSUME NEW s \in Txns \ {t} PROVE Stands(s)' /\ OwnRows(s)'
    BY EndKeeps
  <1>1. tx'[s] = tx[s]
    BY DEF Commit, RInv, LInv, TxTypes
  <1>2. ASSUME tx[s].op \in Ops PROVE tx[s].a \in Auctions /\ tx[s].a # tx[t].a
    <2>1. tx[s] \in OpenTx
      BY <1>2, OpenIsTyped DEF RInv, LInv
    <2> QED
      BY <1>2, <2>1, SoleOnAuction, TxFields
  <1>3. ASSUME NEW u \in Users, HasWallet(s, u) PROVE wallet'[u] = wallet[u]
    <2>1. Updating(WalletId(u)) \in tx[s].held
      BY <1>3 DEF HasWallet
    <2>2. Updating(WalletId(u)) \notin Need(t)
      BY <2>1, LockConflicts DEF Grantable, HasConflict
    <2>3. Updating(WalletId(u)) \notin tx[t].held
      BY <2>1, LockConflicts DEF RInv, LInv, Exclusive
    <2> QED
      BY <2>2, <2>3
  <1>4. tx[s].op = "close" /\ tx[s].a \in listed => tx[s].a \in listed'
    BY <1>2 DEF Ops
  <1> QED
    BY <1>1, <1>2, <1>3, <1>4, StandsFrame

----------------------------------------------------------------------------
(* Commits: what is written is what the whole handler would have written.  *)

(* Deposits given back one by one, and all at once.                        *)
LEMMA GivenBackIsReleased ==
  ASSUME NEW w \in [Users -> [balance: Int, locked: Int]], NEW d, NEW a, NEW S, NEW st,
         NEW back, \A u \in Users : u \in back <=> u \in S /\ Holds(d, a, u)
  PROVE  /\ GivenBack(w, back) = Release(w, d, a, S)
         /\ MoveHeld(d, a, back, st) = MoveHeld(d, a, S, st)
  <1>1. ASSUME NEW u \in Users
        PROVE  /\ w[u] = [balance |-> w[u].balance + 0, locked |-> w[u].locked - 0]
               /\ w[u] \in [balance: Int, locked: Int]
    BY DEF Holds
  <1>2. GivenBack(w, back) = Release(w, d, a, S)
    BY <1>1 DEF GivenBack, Release
  <1>3. [u \in Users |-> IF u \in back /\ Holds(d, a, u) THEN st ELSE d[a][u]]
          = [u \in Users |-> IF u \in S /\ Holds(d, a, u) THEN st ELSE d[a][u]]
    OBVIOUS
  <1>4. MoveHeld(d, a, back, st) = MoveHeld(d, a, S, st)
    BY <1>3 DEF MoveHeld
  <1> QED
    BY <1>2, <1>4

LEMMA CommitPlaceKeeps ==
  ASSUME RInv, NEW t \in Txns, tx[t].op = "place", Grantable(t, Need(t)),
         NEW back, CommitPlace(t, back), CanHold(tx[t].who, tx[t].a),
         \A u \in Users : u \in back <=>
           u = auction[tx[t].a].winner /\ Holds(deposit, tx[t].a, u),
         \A u \in back \cup {tx[t].who} : Updating(WalletId(u)) \in tx[t].held \cup Need(t)
  PROVE  LInv' /\ Trade
  <1> DEFINE a == tx[t].a  u == tx[t].who  n == tx[t].n
             held == Hold(wallet, deposit, a, u)
             rows == [deposit EXCEPT ![a][u] = "HELD"]
  <1>0. Placing(t) /\ tx[t].op \in Ops
    BY DEF RInv, LInv, Stands, Ops
  <1>1. a \in Auctions /\ u \in Users /\ n \in BidAmounts /\ tx[t].seen = auction[a]
        /\ auction[a].winner # u
    BY <1>0, OpenIsTyped, TxFields DEF Placing, RInv, LInv
  <1>2. TypeOK
    BY DEF RInv, IInv
  <1>3. held \in [Users -> [balance: Int, locked: Int]]
    <2>1. Deposit \in Int
      BY DEF Deposit
    <2> QED
      BY <1>2, <2>1 DEF Hold, TypeOK
  <1>4. \A v \in Users : v # u => (Holds(rows, a, v) <=> Holds(deposit, a, v))
    BY <1>1, <1>2 DEF Holds, TypeOK
  <1>5. \A v \in Users : v \in back <=> v \in Outbid(a) /\ Holds(rows, a, v)
    BY <1>1, <1>4 DEF Outbid
  <1> HIDE DEF held, rows
  <1>6. /\ GivenBack(held, back) = Release(held, rows, a, Outbid(a))
        /\ MoveHeld(rows, a, back, "RELEASED") = MoveHeld(rows, a, Outbid(a), "RELEASED")
    BY <1>3, <1>5, GivenBackIsReleased
  <1>7. Place(u, a, n)
    <2>1. /\ auction[a].status = "LIVE" /\ auction[a].endTime > now /\ Owner[a] # u
          /\ auction[a].winner # u /\ n >= Floor(a) /\ CanHold(u, a)
      BY <1>0 DEF Placing
    <2>2. /\ bids' = [bids EXCEPT ![a] = @ \cup {[bidder |-> u, amount |-> n]}]
          /\ auction' = [auction EXCEPT ![a] =
               [@ EXCEPT !.price = n, !.winner = u, !.endTime = ExtendedEnd(a, now)]]
          /\ UNCHANGED <<now, order, requests, listed, inflow, forfeited>>
      BY <1>1 DEF CommitPlace, ExtendedEnd
    <2>3. wallet' = GivenBack(held, back) /\ deposit' = MoveHeld(rows, a, back, "RELEASED")
      BY DEF CommitPlace, held, rows
    <2>4. now \in BidClocks
      BY <1>2, TimeAssumption DEF BidClocks, TypeOK
    <2> QED
      BY <1>6, <2>1, <2>2, <2>3, <2>4 DEF Place, held, rows
  <1>8. \A c \in Auctions : c # a => /\ auction'[c] = auction[c] /\ order'[c] = order[c]
                                     /\ deposit'[c] = deposit[c]
    BY <1>2 DEF CommitPlace, MoveHeld, TypeOK
  <1>9. ASSUME NEW v \in Users
        PROVE  wallet'[v] = wallet[v] \/ Updating(WalletId(v)) \in tx[t].held \cup Need(t)
    <2>1. CASE v \notin back \cup {u}
      <3>1. wallet[v] = [balance |-> wallet[v].balance - 0, locked |-> wallet[v].locked + 0]
        BY <1>2 DEF TypeOK
      <3>2. wallet'[v] = held[v]
        BY <2>1 DEF CommitPlace, GivenBack, held
      <3> QED
        BY <2>1, <3>1, <3>2 DEF Hold, held
    <2> QED
      BY <2>1
  <1>10. LInv'
    BY <1>0, <1>8, <1>9, CommitKeeps DEF CommitPlace
  <1> QED
    BY <1>1, <1>7, <1>10 DEF Trade

LEMMA CommitCancelKeeps ==
  ASSUME RInv, NEW t \in Txns, tx[t].op = "cancel", Grantable(t, Need(t)),
         NEW back, CommitCancel(t, back),
         \A u \in Users : u \in back <=> Holds(deposit, tx[t].a, u),
         \A u \in back : Updating(WalletId(u)) \in tx[t].held \cup Need(t)
  PROVE  LInv' /\ Trade
  <1> DEFINE a == tx[t].a
  <1>0. Cancelling(t) /\ tx[t].op \in Ops
    BY DEF RInv, LInv, Stands, Ops
  <1>1. a \in Auctions
    BY <1>0, OpenIsTyped, TxFields DEF RInv, LInv
  <1>2. TypeOK
    BY DEF RInv, IInv
  <1>3. /\ GivenBack(wallet, back) = Release(wallet, deposit, a, Users)
        /\ MoveHeld(deposit, a, back, "RELEASED") = MoveHeld(deposit, a, Users, "RELEASED")
    <2>1. wallet \in [Users -> [balance: Int, locked: Int]]
      BY <1>2 DEF TypeOK
    <2>2. \A u \in Users : u \in back <=> u \in Users /\ Holds(deposit, a, u)
      OBVIOUS
    <2> QED
      BY <2>1, <2>2, GivenBackIsReleased
  <1>4. order' = CancelOpenOrders(a)
    <2>1. tx[t].open \cap Awaiting(a) = Awaiting(a)
      BY <1>0 DEF Cancelling
    <2>2. order' = [order EXCEPT ![a] = [r \in Ranks |->
             IF r \in Awaiting(a) THEN Marked(a, r, "CANCELLED") ELSE order[a][r]]]
      BY <2>1 DEF CommitCancel
    <2>3. [r \in Ranks |-> IF r \in Awaiting(a) THEN Marked(a, r, "CANCELLED") ELSE order[a][r]]
            = [r \in Ranks |-> IF order[a][r].status = "AWAITING_PAYMENT"
                               THEN Marked(a, r, "CANCELLED") ELSE order[a][r]]
      BY DEF Awaiting
    <2> QED
      BY <2>2, <2>3 DEF CancelOpenOrders
  <1>5. PICK d \in BOOLEAN : IsCancellable(auction[a].status, d)
    BY <1>0 DEF Cancelling
  <1>6. Cancel(a, d)
    <2>1. /\ wallet' = GivenBack(wallet, back)
          /\ deposit' = MoveHeld(deposit, a, back, "RELEASED")
          /\ auction' = WithStatus(a, "CANCELLED", Returned(auction[a].object))
          /\ UNCHANGED <<now, bids, requests, listed, inflow, forfeited>>
      BY DEF CommitCancel
    <2> QED
      BY <1>3, <1>4, <1>5, <2>1 DEF Cancel
  <1>7. \A c \in Auctions : c # a => /\ auction'[c] = auction[c] /\ order'[c] = order[c]
                                     /\ deposit'[c] = deposit[c]
    BY <1>2 DEF CommitCancel, MoveHeld, WithStatus, TypeOK
  <1>8. \A v \in Users : wallet'[v] = wallet[v] \/ Updating(WalletId(v)) \in tx[t].held \cup Need(t)
    BY DEF CommitCancel, GivenBack
  <1>9. LInv'
    BY <1>0, <1>7, <1>8, CommitKeeps DEF CommitCancel
  <1> QED
    BY <1>1, <1>5, <1>6, <1>9 DEF Trade

LEMMA CommitCloseKeeps ==
  ASSUME RInv, NEW t \in Txns, NEW s \in {"close", "force"}, CommitClose(t, s)
  PROVE  LInv' /\ Trade
  <1> DEFINE a == tx[t].a
  <1>0. tx[t].op = "close" /\ tx[t].op \in Ops /\ TypeOK
    BY WhoIsWhere DEF CommitClose, Runs, At, Ops, RInv, IInv
  <1>1. a \in Auctions /\ Closing(t)
    BY <1>0, OpenIsTyped, TxFields DEF RInv, LInv, Stands
  <1>2. Close(a) \/ ForceEnd(a)
    <2>1. CloseOne(a, s = "force")
      BY <1>1 DEF CommitClose, CloseOne, Closing, Runs, At
    <2>2. CASE s = "close"
      BY <1>1, <2>1, <2>2 DEF CommitClose, Closing, Close, Runs, At
    <2>3. CASE s = "force"
      BY <2>1, <2>3 DEF CommitClose, ForceEnd
    <2> QED
      BY <2>2, <2>3
  <1>3. \A c \in Auctions : c # a => /\ auction'[c] = auction[c] /\ order'[c] = order[c]
                                     /\ deposit'[c] = deposit[c]
    BY <1>0 DEF CommitClose, WithStatus, TypeOK
  <1>4. LInv'
    BY <1>0, <1>3, CommitKeeps DEF CommitClose, Runs
  <1> QED
    BY <1>1, <1>2, <1>4 DEF Trade

LEMMA CommitLapseKeeps ==
  ASSUME RInv, NEW t \in Txns, CommitLapse(t)
  PROVE  LInv' /\ Trade
  <1> DEFINE a == tx[t].a
  <1>0. tx[t].op = "expire" /\ tx[t].n = 2 /\ tx[t].op \in Ops /\ TypeOK
    BY WhoIsWhere DEF CommitLapse, Runs, At, Ops, RInv, IInv
  <1>1. a \in Auctions /\ Expiring(t)
    BY <1>0, OpenIsTyped, TxFields DEF RInv, LInv, Stands
  <1>2. ExpireOffer(a)
    BY <1>0, <1>1 DEF CommitLapse, ExpireOffer, Expiring
  <1>3. \A c \in Auctions : c # a => /\ auction'[c] = auction[c] /\ order'[c] = order[c]
                                     /\ deposit'[c] = deposit[c]
    BY <1>0 DEF CommitLapse, WithStatus, TypeOK
  <1>4. Updating(AuctionId(a)) \in Need(t)
    BY DEF CommitLapse, Runs, At, Need
  <1>5. LInv'
    BY <1>0, <1>3, <1>4, CommitKeeps DEF CommitLapse, Runs
  <1> QED
    BY <1>1, <1>2, <1>5 DEF Trade

LEMMA CommitOfferKeeps ==
  ASSUME RInv, NEW t \in Txns, CommitOffer(t)
  PROVE  LInv' /\ Trade
  <1> DEFINE a == tx[t].a  u == tx[t].who
  <1>0. tx[t].op = "expire" /\ tx[t].n = 1 /\ tx[t].pc = "offer" /\ tx[t].op \in Ops /\ TypeOK
    BY WhoIsWhere DEF CommitOffer, Runs, At, Ops, RInv, IInv
  <1>1. a \in Auctions /\ Expiring(t) /\ u = order[a][1].buyer
    BY <1>0, OpenIsTyped, TxFields, BuyerIsUser DEF RInv, LInv, Stands
  <1>2. ExpireWinner(a)
    <2>1. Expirable(a, 1)
      BY <1>0, <1>1 DEF Expiring
    <2>2. Bidders(a, u) = {} => Highest(OtherBids(a, u)) = {}
      BY DEF Bidders, Highest
    <2> QED
      BY <1>1, <2>1, <2>2 DEF CommitOffer, ExpireWinner, Bidders
  <1>3. ASSUME NEW c \in Auctions, c # a
        PROVE  auction'[c] = auction[c] /\ order'[c] = order[c] /\ deposit'[c] = deposit[c]
    <2>1. deposit'[c] = deposit[c]
      BY <1>0, <1>3 DEF CommitOffer, MoveHeld, TypeOK
    <2>2. auction'[c] = auction[c]
      BY <1>0, <1>3 DEF CommitOffer, WithStatus, TypeOK
    <2>3. order'[c] = order[c]
      <3> DEFINE defaulted == [order EXCEPT ![a][1] = Marked(a, 1, "DEFAULTED")]
      <3>1. defaulted[c] = order[c] /\ c \in DOMAIN defaulted
        BY <1>0, <1>3 DEF TypeOK
      <3>2. order' = defaulted \/ \E y : order' = [defaulted EXCEPT ![a][2] = y]
        BY DEF CommitOffer
      <3> HIDE DEF defaulted
      <3> QED
        BY <1>3, <3>1, <3>2
    <2> QED
      BY <2>1, <2>2, <2>3
  <1>4. Updating(AuctionId(a)) \in Need(t) \/ KeyShare(AuctionId(a)) \in Need(t)
    BY <1>0 DEF Need
  <1>5. ASSUME NEW v \in Users
        PROVE  wallet'[v] = wallet[v] \/ Updating(WalletId(v)) \in tx[t].held \cup Need(t)
    <2>1. CASE v = u /\ Holds(deposit, a, u)
      BY <1>0, <1>1, <2>1 DEF Expiring, HasWallet
    <2>2. CASE ~(v = u /\ Holds(deposit, a, u))
      <3>1. wallet[v] = [balance |-> wallet[v].balance, locked |-> wallet[v].locked - 0]
        BY <1>0 DEF TypeOK
      <3> QED
        BY <2>2, <3>1 DEF CommitOffer, Forfeit
    <2> QED
      BY <2>1, <2>2
  <1>6. LInv'
    BY <1>0, <1>3, <1>4, <1>5, CommitKeeps DEF CommitOffer, Runs
  <1> QED
    BY <1>1, <1>2, <1>6 DEF Trade

LEMMA CommitPayKeeps ==
  ASSUME RInv, NEW t \in Txns, CommitPay(t)
  PROVE  LInv' /\ Trade
  <1> DEFINE a == tx[t].a  u == tx[t].who  r == tx[t].n  o == order[a][r]
  <1>0. tx[t].op = "pay" /\ tx[t].pc = "sell" /\ tx[t].op \in Ops /\ TypeOK
    BY WhoIsWhere DEF CommitPay, Runs, At, Ops, RInv, IInv
  <1>1. a \in Auctions /\ r \in Ranks /\ Paying(t) /\ u = o.buyer
    <2>1. Paying(t)
      BY <1>0 DEF RInv, LInv, Stands
    <2> QED
      BY <1>0, <2>1, OpenIsTyped, TxFields, BuyerIsUser DEF RInv, LInv, Paying
  <1>2. PayOrder(a, r)
    <2>1. Payable(o)
      BY <1>0, <1>1 DEF Paying, Payable
    <2> QED
      BY <1>1, <2>1 DEF CommitPay, PayOrder
  <1>3. ASSUME NEW c \in Auctions, c # a
        PROVE  auction'[c] = auction[c] /\ order'[c] = order[c] /\ deposit'[c] = deposit[c]
    <2>1. deposit'[c] = deposit[c]
      BY <1>0, <1>3 DEF CommitPay, MoveHeld, TypeOK
    <2>2. auction'[c] = auction[c]
      BY <1>0, <1>3 DEF CommitPay, WithStatus, TypeOK
    <2>3. order'[c] = order[c]
      <3>1. \E y : order' = [order EXCEPT ![a][r] = y]
        BY DEF CommitPay
      <3> QED
        BY <1>0, <1>3, <3>1 DEF TypeOK
    <2> QED
      BY <2>1, <2>2, <2>3
  <1>4. Updating(AuctionId(a)) \in Need(t)
    BY <1>0 DEF Need
  <1>5. ASSUME NEW v \in Users
        PROVE  wallet'[v] = wallet[v] \/ Updating(WalletId(v)) \in tx[t].held \cup Need(t)
    <2>1. CASE v = u \/ v = Owner[a]
      BY <1>0, <1>1, <2>1 DEF Paying, HasWallet
    <2>2. CASE v # u /\ v # Owner[a]
      <3>1. wallet[v] = [balance |-> wallet[v].balance + 0 + 0, locked |-> wallet[v].locked - 0]
        BY <1>0 DEF TypeOK
      <3>2. wallet' = Paid(o, Owner[a])
        BY DEF CommitPay
      <3> QED
        BY <1>1, <2>2, <3>1, <3>2 DEF Paid
    <2> QED
      BY <2>1, <2>2
  <1>6. LInv'
    BY <1>0, <1>3, <1>4, <1>5, CommitKeeps DEF CommitPay, Runs
  <1> QED
    BY <1>1, <1>2, <1>6 DEF Trade

(* The deposit and the wallet of the next one to be paid back.             *)
LEMMA RefundNeeds ==
  ASSUME RInv, NEW t \in Txns, At(t, "refund")
  PROVE  /\ NextLeft(t) \in tx[t].left /\ tx[t].left \in SUBSET Users
         /\ tx[t].back \in SUBSET Users
         /\ Updating(WalletId(NextLeft(t))) \in Need(t)
  <1>1. tx[t].op \in {"place", "cancel"} /\ tx[t].op \in Ops
    BY WhoIsWhere DEF At, Ops
  <1>2. tx[t] \in OpenTx
    BY <1>1, OpenIsTyped DEF RInv, LInv
  <1>3. tx[t].left # {}
    BY <1>1 DEF At, RInv, LInv, Stands, Placing, Cancelling
  <1>4. Need(t) = StakeLocks(tx[t].a, NextLeft(t))
    BY DEF At, Need
  <1> QED
    BY <1>2, <1>3, <1>4, TxFields DEF NextLeft, StakeLocks

LEMMA PlaceHoldsKeeps ==
  ASSUME RInv, NEW t \in Txns, PlaceHolds(t)
  PROVE  LInv' /\ (Trade \/ UNCHANGED vars)
  <1> DEFINE a == tx[t].a  w == auction[tx[t].a].winner
             outbid == {u \in {tx[t].seen.winner} \ {NoOne} : Holds(deposit, tx[t].a, u)}
  <1>0. tx[t].op = "place" /\ tx[t].pc = "hold" /\ tx[t].op \in Ops
    BY WhoIsWhere DEF PlaceHolds, Runs, At, Ops
  <1>1. Placing(t) /\ a \in Auctions
    BY <1>0, OpenIsTyped, TxFields DEF RInv, LInv, Stands
  <1>2. w \in Users \cup {NoOne} /\ tx[t].seen.winner = w /\ NoOne \notin Users
    BY <1>1, AuctionFields, UsersAssumption DEF Placing, RInv, IInv, TypeOK
  <1>3. Updating(WalletId(tx[t].who)) \in Need(t)
    BY <1>0 DEF Need, StakeLocks
  <1>4. Grantable(t, Need(t)) /\ CanHold(tx[t].who, a)
    BY DEF PlaceHolds, Runs
  <1>5. CASE outbid = {}
    <2>1. CommitPlace(t, {})
      BY <1>5 DEF PlaceHolds
    <2>2. \A u \in Users : ~(u = w /\ Holds(deposit, a, u))
      BY <1>2, <1>5
    <2> QED
      BY <1>0, <1>3, <1>4, <2>1, <2>2, CommitPlaceKeeps
  <1>6. CASE outbid # {}
    <2>1. outbid = {w} /\ w \in Users /\ Holds(deposit, a, w)
      BY <1>2, <1>6
    <2>2. GoOn(t, "refund", {w}, {})
      BY <1>6, <2>1 DEF PlaceHolds
    <2>3. /\ tx'[t].pc = "refund" /\ tx'[t].held = tx[t].held \cup Need(t)
          /\ tx'[t].left = {w} /\ tx'[t].back = {}
          /\ tx'[t].op = tx[t].op /\ tx'[t].a = tx[t].a /\ tx'[t].who = tx[t].who
          /\ tx'[t].n = tx[t].n /\ tx'[t].seen = tx[t].seen
          /\ UNCHANGED vars
      BY <1>0, <2>2, GoneOn
    <2>4. Placing(t)'
      BY <1>1, <1>3, <1>4, <2>1, <2>3
      DEF Placing, HasAuction, HasWallet, Floor, CanHold, Holds, vars
    <2>5. Stands(t)'
      BY <1>0, <2>3, <2>4 DEF Stands
    <2>6. LInv'
      BY <1>0, <1>4, <2>1, <2>2, <2>5, GoOnKeeps DEF Steps
    <2> QED
      BY <2>3, <2>6
  <1> QED
    BY <1>5, <1>6

LEMMA CancelOrdersKeeps ==
  ASSUME RInv, NEW t \in Txns, CancelOrders(t)
  PROVE  LInv' /\ (Trade \/ UNCHANGED vars)
  <1> DEFINE a == tx[t].a
             holders == {u \in Users : Holds(deposit, tx[t].a, u)}
  <1>0. tx[t].op = "cancel" /\ tx[t].pc = "orders" /\ tx[t].op \in Ops
    BY WhoIsWhere DEF CancelOrders, Runs, At, Ops
  <1>1. Cancelling(t) /\ a \in Auctions
    BY <1>0, OpenIsTyped, TxFields DEF RInv, LInv, Stands
  <1>2. Grantable(t, Need(t))
    BY DEF CancelOrders, Runs
  <1>3. CASE holders = {}
    <2>1. CommitCancel(t, {})
      BY <1>3 DEF CancelOrders
    <2> QED
      BY <1>0, <1>2, <1>3, <2>1, CommitCancelKeeps
  <1>4. CASE holders # {}
    <2>1. GoOn(t, "refund", holders, {}) /\ holders \in SUBSET Users
      BY <1>4 DEF CancelOrders
    <2>2. /\ tx'[t].pc = "refund" /\ tx'[t].held = tx[t].held \cup Need(t)
          /\ tx'[t].left = holders /\ tx'[t].back = {}
          /\ tx'[t].op = tx[t].op /\ tx'[t].a = tx[t].a /\ tx'[t].open = tx[t].open
          /\ UNCHANGED vars
      BY <1>0, <2>1, GoneOn
    <2>3. \A r \in tx[t].open : Updating(OrderId(a, r)) \in Need(t)
      BY <1>0 DEF Need
    <2>4. Cancelling(t)'
      BY <1>1, <1>4, <2>2, <2>3 DEF Cancelling, HasAuction, HasWallet, Awaiting, Holds, vars
    <2>5. Stands(t)'
      BY <1>0, <2>2, <2>4 DEF Stands
    <2>6. LInv'
      BY <1>0, <1>2, <2>1, <2>5, GoOnKeeps DEF Steps
    <2> QED
      BY <2>2, <2>6
  <1> QED
    BY <1>3, <1>4

LEMMA RefundKeeps ==
  ASSUME RInv, NEW t \in Txns, Refund(t)
  PROVE  LInv' /\ (Trade \/ UNCHANGED vars)
  <1> DEFINE a == tx[t].a  u == NextLeft(t)
             left == tx[t].left \ {u}  back == tx[t].back \cup {u}
  <1>0. tx[t].op \in {"place", "cancel"} /\ tx[t].pc = "refund" /\ tx[t].op \in Ops
    BY WhoIsWhere DEF Refund, Runs, At, Ops
  <1>1. /\ u \in tx[t].left /\ left \in SUBSET Users /\ back \in SUBSET Users
        /\ Updating(WalletId(u)) \in Need(t)
    BY <1>0, RefundNeeds DEF At
  <1>2. Grantable(t, Need(t))
    BY DEF Refund, Runs
  <1>3. /\ left # {} => GoOn(t, "refund", left, back)
        /\ left = {} => /\ tx[t].op = "place" => CommitPlace(t, back)
                        /\ tx[t].op # "place" => CommitCancel(t, back)
    BY DEF Refund
  <1> HIDE DEF u
  <1>4. CASE tx[t].op = "place"
    <2>1. Placing(t)
      BY <1>4 DEF RInv, LInv, Stands
    <2>2. left = {} /\ back = {auction[a].winner} /\ Holds(deposit, a, auction[a].winner)
      BY <1>0, <1>1, <2>1 DEF Placing
    <2>3. Updating(WalletId(tx[t].who)) \in tx[t].held /\ CanHold(tx[t].who, a)
      BY <1>0, <2>1 DEF Placing, HasWallet
    <2>4. \A v \in Users : v \in back <=> v = auction[a].winner /\ Holds(deposit, a, v)
      BY <2>2
    <2>5. \A v \in back \cup {tx[t].who} : Updating(WalletId(v)) \in tx[t].held \cup Need(t)
      BY <1>1, <2>2, <2>3
    <2>6. CommitPlace(t, back)
      BY <1>3, <1>4, <2>2
    <2> HIDE DEF back
    <2> QED
      BY <1>2, <1>4, <2>3, <2>4, <2>5, <2>6, CommitPlaceKeeps
  <1>5. CASE tx[t].op = "cancel"
    <2>1. Cancelling(t)
      BY <1>5 DEF RInv, LInv, Stands
    <2>2. back \cup left = {v \in Users : Holds(deposit, a, v)}
      BY <1>0, <1>1, <2>1 DEF Cancelling
    <2>3. \A v \in back : Updating(WalletId(v)) \in tx[t].held \cup Need(t)
      BY <1>0, <1>1, <2>1 DEF Cancelling, HasWallet
    <2>4. CASE left = {}
      <3>1. CommitCancel(t, back)
        BY <1>3, <1>5, <2>4
      <3>2. \A v \in Users : v \in back <=> Holds(deposit, a, v)
        BY <2>2, <2>4
      <3> HIDE DEF back
      <3> QED
        BY <1>2, <1>5, <2>3, <3>1, <3>2, CommitCancelKeeps
    <2>5. CASE left # {}
      <3>1. GoOn(t, "refund", left, back)
        BY <1>3, <2>5
      <3> HIDE DEF left, back
      <3>2. /\ tx'[t].pc = "refund" /\ tx'[t].held = tx[t].held \cup Need(t)
            /\ tx'[t].left = left /\ tx'[t].back = back
            /\ tx'[t].op = tx[t].op /\ tx'[t].a = tx[t].a /\ tx'[t].open = tx[t].open
            /\ UNCHANGED vars
        BY <1>0, <3>1, GoneOn
      <3>3. Cancelling(t)'
        BY <1>0, <2>1, <2>2, <2>3, <2>5, <3>2
        DEF Cancelling, HasAuction, HasWallet, Awaiting, Holds, vars
      <3>4. Stands(t)'
        BY <1>5, <3>2, <3>3 DEF Stands
      <3>5. LInv'
        BY <1>0, <1>1, <1>2, <3>1, <3>4, GoOnKeeps DEF Steps
      <3> QED
        BY <3>2, <3>5
    <2> QED
      BY <2>4, <2>5
  <1> QED
    BY <1>0, <1>4, <1>5

LEMMA ForfeitStakeKeeps ==
  ASSUME RInv, NEW t \in Txns, ForfeitStake(t)
  PROVE  LInv' /\ UNCHANGED vars
  <1>0. tx[t].op = "expire" /\ tx[t].n = 1 /\ tx[t].pc = "forfeit" /\ tx[t].op \in Ops
    BY WhoIsWhere DEF ForfeitStake, Runs, At, Ops
  <1>1. Expiring(t) /\ Grantable(t, Need(t)) /\ GoOn(t, "offer", {}, {})
    BY <1>0 DEF RInv, LInv, Stands, ForfeitStake, Runs
  <1>2. /\ tx'[t].pc = "offer" /\ tx'[t].held = tx[t].held \cup Need(t)
        /\ tx'[t].op = tx[t].op /\ tx'[t].a = tx[t].a /\ tx'[t].who = tx[t].who
        /\ tx'[t].n = tx[t].n /\ UNCHANGED vars
    BY <1>0, <1>1, GoneOn
  <1>3. Holds(deposit, tx[t].a, tx[t].who) => Updating(WalletId(tx[t].who)) \in Need(t)
    BY <1>0 DEF Need, StakeLocks
  <1>4. Expiring(t)'
    BY <1>0, <1>1, <1>2, <1>3 DEF Expiring, HasOrder, HasWallet, Expirable, Holds, vars
  <1>5. Stands(t)'
    BY <1>0, <1>2, <1>4 DEF Stands
  <1> QED
    BY <1>0, <1>1, <1>2, <1>5, GoOnKeeps DEF Steps

LEMMA PayGoesOn ==
  ASSUME RInv, NEW t \in Txns, PayDebits(t) \/ PayCredits(t)
  PROVE  LInv' /\ UNCHANGED vars
  <1> DEFINE next == IF tx[t].pc = "debit" THEN "credit" ELSE "sell"
  <1>0. tx[t].op = "pay" /\ tx[t].pc \in {"debit", "credit"} /\ tx[t].op \in Ops
    BY WhoIsWhere DEF PayDebits, PayCredits, Runs, At, Ops
  <1>1. /\ Paying(t) /\ Grantable(t, Need(t)) /\ GoOn(t, next, {}, {})
        /\ tx[t].pc = "debit" => wallet[tx[t].who].balance >= order[tx[t].a][tx[t].n].due
    BY <1>0 DEF RInv, LInv, Stands, PayDebits, PayCredits, Runs, At
  <1>2. next \in {"credit", "sell"} /\ (next = "sell" <=> tx[t].pc = "credit")
    BY <1>0
  <1> HIDE DEF next
  <1>3. /\ tx'[t].pc = next /\ tx'[t].held = tx[t].held \cup Need(t)
        /\ tx'[t].op = tx[t].op /\ tx'[t].a = tx[t].a /\ tx'[t].who = tx[t].who
        /\ tx'[t].n = tx[t].n /\ UNCHANGED vars
    BY <1>0, <1>1, GoneOn
  <1>4. /\ tx[t].pc = "debit" => Updating(WalletId(tx[t].who)) \in Need(t)
        /\ tx[t].pc = "credit" => Updating(WalletId(Owner[tx[t].a])) \in Need(t)
    BY <1>0 DEF Need, StakeLocks
  <1>5. Paying(t)'
    BY <1>0, <1>1, <1>2, <1>3, <1>4 DEF Paying, HasOrder, HasWallet, vars
  <1>6. Stands(t)'
    BY <1>0, <1>3, <1>5 DEF Stands
  <1> QED
    BY <1>0, <1>1, <1>2, <1>3, <1>6, GoOnKeeps DEF Steps

(* Every statement of a transaction.                                       *)
LEMMA StatementKeeps ==
  ASSUME RInv, NEW t \in Txns, Statement(t)
  PROVE  LInv' /\ (Trade \/ UNCHANGED vars)
  BY PlaceHoldsKeeps, CancelOrdersKeeps, RefundKeeps, CommitCloseKeeps, CommitLapseKeeps,
     ForfeitStakeKeeps, CommitOfferKeeps, PayGoesOn, CommitPayKeeps DEF Statement

----------------------------------------------------------------------------
(* The seller's and the reviewer's statements.                             *)

(* They write auctions that nobody has bid on, and no other rows.          *)
LEMMA SellerFrame ==
  ASSUME IInv, Seller, NEW c \in Auctions
  PROVE  /\ UNCHANGED <<now, order, wallet>>
         /\ auction'[c] = auction[c] => deposit'[c] = deposit[c]
         /\ auction'[c] # auction[c] => bids[c] = {}
  <1> USE DEF IInv, TypeOK
  <1>0. ASSUME NEW r \in requests PROVE r.auction \in Auctions
    BY DEF Request
  <1>1. ASSUME NEW a \in Auctions, NEW d \in BOOLEAN, NEW p \in StartingPrices, Create(a, d, p)
        PROVE  /\ UNCHANGED <<now, order, wallet, deposit>>
               /\ auction'[c] # auction[c] => bids[c] = {}
    <2>1. UNCHANGED <<now, order, wallet, deposit>> /\ auction[a].status = "NONE"
          /\ (c # a => auction'[c] = auction[c])
      BY <1>1 DEF Create
    <2>2. Leader(a)
      BY DEF Rows
    <2> QED
      BY <2>1, <2>2 DEF Leader
  <1>2. ASSUME NEW q \in Requests, NEW h \in Handlers, NEW a \in Auctions, Check(q, h, a)
        PROVE  UNCHANGED <<now, order, wallet, deposit, auction>>
    BY <1>2 DEF Check
  <1>3. ASSUME NEW r \in requests, PromptReview(r), Approve(r) \/ Reject(r) \/ Submit(r)
        PROVE  /\ UNCHANGED <<now, order, wallet, deposit>>
               /\ auction'[c] # auction[c] => bids[c] = {}
    BY <1>0, <1>3 DEF PromptReview, Approve, Reject, Submit, Writing, WithStatus
  <1>4. ASSUME NEW r \in requests, NEW p \in StartingPrices, PromptReview(r), Update(r, p)
        PROVE  /\ UNCHANGED <<now, order, wallet, deposit>>
               /\ auction'[c] # auction[c] => bids[c] = {}
    BY <1>0, <1>4 DEF PromptReview, Update, Writing
  <1>5. ASSUME NEW r \in requests, PromptReview(r), Remove(r)
        PROVE  /\ UNCHANGED <<now, order, wallet>>
               /\ auction'[c] = auction[c] => deposit'[c] = deposit[c]
               /\ auction'[c] # auction[c] => bids[c] = {}
    <2>1. /\ UNCHANGED <<now, order, wallet>> /\ auction[r.auction].status # "REMOVED"
          /\ bids[r.auction] = {}
          /\ c # r.auction => auction'[c] = auction[c] /\ deposit'[c] = deposit[c]
      BY <1>0, <1>5 DEF PromptReview, Remove, Writing
    <2>2. auction'[r.auction].status = "REMOVED"
      BY <1>0, <1>5 DEF Remove, NoAuction
    <2> QED
      BY <2>1, <2>2
  <1>6. ASSUME NEW r \in requests, Abandon(r)
        PROVE  UNCHANGED <<now, order, wallet, deposit, auction>>
    BY <1>6 DEF Abandon
  <1> QED
    BY <1>1, <1>2, <1>3, <1>4, <1>5, <1>6 DEF Seller

LEMMA SellerStatementKeeps ==
  ASSUME RInv, SellerStatement
  PROVE  LInv'
  <1>0. Seller /\ tx' = tx /\ IInv
    BY DEF SellerStatement, RInv
  <1>1. TxTypes' /\ Exclusive'
    BY <1>0 DEF RInv, LInv, TxTypes, Exclusive
  <1>2. ASSUME NEW s \in Txns PROVE Stands(s)' /\ OwnRows(s)'
    <2>1. ASSUME tx[s].op \in Ops
          PROVE  /\ auction'[tx[s].a] = auction[tx[s].a] /\ order'[tx[s].a] = order[tx[s].a]
                 /\ deposit'[tx[s].a] = deposit[tx[s].a]
      <3>1. tx[s].a \in Auctions
        BY <2>1, OpenIsTyped, TxFields DEF RInv, LInv
      <3>2. auction'[tx[s].a] = auction[tx[s].a]
        <4>1. CASE tx[s].op \in {"pay", "expire"}
          <5>1. /\ order[tx[s].a][tx[s].n].status = "AWAITING_PAYMENT" /\ tx[s].n \in {1, 2}
            BY <4>1, OrderIsOpen DEF Awaiting, Ranks
          <5>2. Leader(tx[s].a)
            BY <1>0, <3>1 DEF IInv, Rows
          <5>3. bids[tx[s].a] # {}
            BY <5>1, <5>2 DEF Leader
          <5> QED
            BY <1>0, <3>1, <5>3, SellerFrame
        <4>2. CASE tx[s].op \in {"place", "cancel", "close"}
          <5>1. HasConflict(Updating(AuctionId(tx[s].a)), s)
            BY <4>2, AuctionIsLocked, LockConflicts DEF HasAuction, HasConflict
          <5> QED
            BY <3>1, <5>1 DEF SellerStatement
        <4> QED
          BY <2>1, <4>1, <4>2 DEF Ops
      <3> QED
        BY <1>0, <3>1, <3>2, SellerFrame
    <2>2. now' = now /\ wallet' = wallet /\ listed' = listed
      BY <1>0
      DEF Seller, Create, Check, Approve, Reject, Submit, Update, Remove, Abandon, Writing
    <2> QED
      BY <1>0, <2>1, <2>2, StandsFrame
  <1> QED
    BY <1>1, <1>2 DEF LInv

----------------------------------------------------------------------------
(* The theorems.                                                           *)

(* The closing job's reads: what has been read of a locked row stands, and *)
(* no close in progress loses its place on the list.                       *)
LEMMA ListStatementKeeps ==
  ASSUME RInv, ListStatement
  PROVE  LInv' /\ Next
  <1>1. PICK a \in Auctions :
          \/ List(a)
          \/ Skip(a) /\ \A s \in Txns : ~HasConflict(ForUpdate(AuctionId(a)), s)
    BY DEF ListStatement
  <1>2. /\ tx' = tx /\ Next
        /\ UNCHANGED <<now, auction, bids, deposit, order, wallet, requests, inflow, forfeited>>
    BY <1>1 DEF ListStatement, List, Skip, Next, Listing
  <1>3. TxTypes' /\ Exclusive'
    BY <1>2 DEF RInv, LInv, TxTypes, Exclusive
  <1>4. ASSUME NEW s \in Txns PROVE Stands(s)' /\ OwnRows(s)'
    <2>1. tx[s].op = "close" /\ tx[s].a \in listed => tx[s].a \in listed'
      <3>1. SUFFICES ASSUME tx[s].op = "close", Skip(a),
                            \A p \in Txns : ~HasConflict(ForUpdate(AuctionId(a)), p)
                     PROVE  tx[s].a # a
        BY <1>1 DEF List, Skip
      <3>2. ForUpdate(AuctionId(tx[s].a)) \in tx[s].held
        BY <3>1, AuctionIsLocked DEF HasAuction
      <3> QED
        BY <3>1, <3>2, LockConflicts DEF HasConflict
    <2> QED
      BY <1>2, <2>1, StandsFrame
  <1> QED
    BY <1>2, <1>3, <1>4 DEF LInv

LEMMA RInvInit == RowInit => RInv
  <1> SUFFICES ASSUME RowInit PROVE LInv
    BY IInvInit DEF RowInit, RInv
  <1>1. \A t \in Txns : tx[t] = NoTx
    BY DEF RowInit
  <1>2. TxTypes
    BY DEF RowInit, TxTypes
  <1>3. Exclusive
    BY <1>1 DEF Exclusive, NoTx
  <1>4. \A t \in Txns : Stands(t) /\ OwnRows(t)
    BY <1>1 DEF Stands, OwnRows, NoTx, Ops
  <1> QED
    BY <1>2, <1>3, <1>4 DEF LInv

(* Every step keeps the invariant and is a step of AuctionHouse, or none.  *)
LEMMA RInvNext == RInv /\ [RowNext]_rowVars => RInv' /\ [Next]_vars
  <1> SUFFICES ASSUME RInv, [RowNext]_rowVars PROVE LInv' /\ [Next]_vars
    BY IInvNext DEF RInv
  <1>1. ASSUME NEW t \in Txns, Starts(t) PROVE LInv' /\ [Next]_vars
    BY <1>1, StartsKeep
  <1>2. ASSUME NEW t \in Txns, Statement(t) PROVE LInv' /\ [Next]_vars
    BY <1>2, StatementKeeps DEF Next
  <1>3. ASSUME NEW t \in Txns, Abort(t) PROVE LInv' /\ [Next]_vars
    <2>1. Commit(t) /\ UNCHANGED vars
      BY <1>3 DEF Abort, Commit
    <2>2. \A s \in Txns \ {t} : tx'[s] = tx[s]
      BY <2>1 DEF Commit, RInv, LInv, TxTypes
    <2>3. \A s \in Txns \ {t} : Stands(s)' /\ OwnRows(s)'
      BY <2>1, <2>2, StandsFrame DEF vars
    <2> QED
      BY <2>1, <2>3, EndKeeps
  <1>4. CASE SellerStatement
    BY <1>4, SellerStatementKeeps DEF SellerStatement, Next
  <1>5. CASE TimePasses
    <2>1. tx' = tx /\ \A t \in Txns : tx[t] = NoTx
      BY <1>5 DEF TimePasses, Idle
    <2>2. TxTypes' /\ Exclusive'
      BY <2>1 DEF RInv, LInv, TxTypes, Exclusive
    <2>3. \A t \in Txns : Stands(t)' /\ OwnRows(t)'
      BY <2>1 DEF Stands, OwnRows, NoTx, Ops
    <2> QED
      BY <1>5, <2>2, <2>3 DEF LInv, TimePasses, Next
  <1>6. CASE UNCHANGED rowVars
    <2>1. tx' = tx /\ UNCHANGED vars
      BY <1>6 DEF rowVars
    <2>2. TxTypes' /\ Exclusive'
      BY <2>1 DEF RInv, LInv, TxTypes, Exclusive
    <2>3. \A t \in Txns : Stands(t)' /\ OwnRows(t)'
      BY <2>1, StandsFrame DEF vars
    <2> QED
      BY <2>1, <2>2, <2>3 DEF LInv
  <1>7. CASE ListStatement
    BY <1>7, ListStatementKeeps
  <1> QED
    BY <1>1, <1>2, <1>3, <1>4, <1>5, <1>6, <1>7 DEF RowNext

(* What an open transaction has read and checked stays true until it       *)
(* commits: no lock that the code takes is missing.                        *)
THEOREM ChecksStand == RowSpec => []RInv
  <1>1. RInv /\ [RowNext]_rowVars => RInv'
    BY RInvNext
  <1> QED
    BY RInvInit, <1>1, PTL DEF RowSpec

(* The transactions, interleaved statement by statement, rolled back        *)
(* anywhere, implement the atomic handlers of AuctionHouse.                *)
THEOREM TransactionsAreAtomic == RowSpec => ActsAtomically
  <1>1. RInv /\ [RowNext]_rowVars => [Next]_vars
    BY RInvNext
  <1>2. RowInit => Init
    BY DEF RowInit
  <1> QED
    BY <1>1, <1>2, ChecksStand, PTL DEF RowSpec, ActsAtomically, Spec

(* So the balances and the books of AuctionHouse hold of what is committed, *)
(* at every moment between two statements.                                  *)
THEOREM InterleavedMoneyIsSafe ==
  RowSpec => [](LockedBacksDeposits /\ NoOverdraft /\ MoneyConserved)
  BY TransactionsAreAtomic, LockedMoneyIsDeposits, NeverOverdrawn, NoMoneyIsMadeOrLost, PTL
  DEF ActsAtomically

(* The handlers of bids, orders and settlement keep the promise of Escrow  *)
(* as they are written, statement by statement: the two refinements, one   *)
(* after the other.                                                        *)
THEOREM InterleavedPromiseIsKept == RowSpec => KeepsPromise
  BY TransactionsAreAtomic, HouseKeepsPromise, PTL DEF ActsAtomically

(* Nor does any interleaving undo a sale, lower a price or take a deposit  *)
(* in a fourth way.                                                        *)
THEOREM InterleavedStepsAreSafe == RowSpec => SaleIsFinal /\ DepositFate /\ PriceAndEndOnlyRise
  BY TransactionsAreAtomic, SalesAreFinal, DepositsEndInOneOfThreeWays, PricesOnlyRise, PTL
  DEF ActsAtomically

(* What t asks for and s holds, by kind of row.                            *)
LEMMA WaitsAreExpected == RInv => NoSurpriseWaits
  <1> SUFFICES ASSUME RInv, NEW t \in Txns, NEW s \in Txns, NEW l \in Need(t), WaitsFor(t, s, l)
               PROVE  LET ops == <<tx[t].op, tx[s].op>>
                      IN CASE l.row[1] = "Wallet"  -> tx[t].a # tx[s].a
                           [] l.row[1] = "Auction" -> ops \in {"pay", "expire"} \X {"cancel"}
                           [] l.row[1] = "Order"   -> ops \in {"cancel"} \X {"pay", "expire"}
                           [] OTHER                -> FALSE
    BY DEF NoSurpriseWaits
  <1> DEFINE a == tx[t].a  b == tx[s].a
  <1>1. PICK m \in tx[s].held : Conflicts(l, m)
    BY DEF WaitsFor, HasConflict
  <1>2. s # t /\ l.row = m.row
    BY <1>1, LockConflicts DEF WaitsFor
  <1>3. tx[t].op \in Ops /\ tx[s].op \in Ops
    <2>1. tx[t] # NoTx
      BY DEF Need, NoTx
    <2>2. tx[s] # NoTx
      BY <1>1 DEF NoTx
    <2> QED
      BY <2>1, <2>2, OpenIsTyped DEF RInv, LInv
  <1>4. l.row \in RowIds(a) /\ l.row \in RowIds(b)
    BY <1>1, <1>2, <1>3, NeedTypes DEF RInv, LInv, OwnRows
  <1>5. \/ l.row = AuctionId(a) /\ a = b
        \/ \E r \in Ranks : l.row = OrderId(a, r) /\ a = b
        \/ \E u \in Users : l.row = WalletId(u)
        \/ \E u \in Users : l.row = DepositId(a, u) /\ a = b
    BY <1>4, RowNames DEF RowIds
  (* On one auction, one of the two is a cancel that has read the auction  *)
  (* and is about to ask for the orders.                                   *)
  <1>6. CASE a = b
    <2>1. CASE tx[t].op = "cancel" /\ tx[t].pc = "orders" /\ tx[s].op \in {"pay", "expire"}
      <3>1. \E r \in Ranks : l = Updating(OrderId(a, r))
        <4>1. tx[t].open \in SUBSET Ranks
          BY <1>3, OpenIsTyped, TxFields DEF RInv, LInv
        <4>2. Need(t) = {Updating(OrderId(a, r)) : r \in tx[t].open}
          BY <2>1 DEF Need
        <4> QED
          BY <4>1, <4>2
      <3>2. l.row[1] = "Order"
        BY <3>1 DEF Updating, OrderId
      <3> QED
        BY <2>1, <3>2
    <2>2. CASE tx[s].op = "cancel" /\ tx[s].pc = "orders" /\ tx[t].op \in {"pay", "expire"}
      <3>1. m = ForUpdate(AuctionId(b))
        BY <1>1, <2>2 DEF RInv, LInv, Stands, Cancelling
      <3>2. l.row[1] = "Auction"
        BY <1>2, <3>1 DEF ForUpdate, AuctionId
      <3> QED
        BY <2>2, <3>2
    <2> QED
      BY <1>2, <1>3, <1>6, <2>1, <2>2, SameAuction
  <1>7. CASE a # b
    <2>1. PICK u \in Users : l.row = WalletId(u)
      BY <1>5, <1>7
    <2>2. l.row[1] = "Wallet"
      BY <2>1 DEF WalletId
    <2> QED
      BY <1>7, <2>2
  <1> QED
    BY <1>6, <1>7

(* The only waits, and so the only deadlocks, are those between auctions   *)
(* on a shared wallet and those of a cancel with a payment or an expiry.   *)
THEOREM OnlyExpectedWaits == RowSpec => []NoSurpriseWaits
  BY ChecksStand, WaitsAreExpected, PTL
=============================================================================
