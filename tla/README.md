# A verification of the Galarique auction backend

The repository is a NestJS/Prisma backend on PostgreSQL: sellers put objects up
for auction, bidders stake a $50 deposit from a wallet, a scheduler closes
auctions and expires unpaid orders, and Stripe moves money in and out. These
TLA+ modules model its transactional core, TLC checks them on small instances,
and TLAPS proves the properties that matter most for every instance. Paths
below are relative to `src/src/modules/` unless they say otherwise.

## The system

| Component | State it keeps | Operations | What makes it correct |
|---|---|---|---|
| Auctions (`auctions/`) | `Auction`, `Object` rows and their statuses | create, update, submit, remove, approve, reject, cancel | statuses follow the life cycle; a cancel undoes the open order and every deposit |
| Bids (`bids/`) | `Bid` rows, `currentPrice`, `currentWinnerId`, `endTime` | place | bids clear the opening price and the increment; price and end only rise once there is a bid; the leader is the highest bidder |
| Bid deposits (`wallet/`) | `AuctionDeposit` rows, `lockedBalance` | holdBidDeposit, releaseBidDeposit (in the caller's transaction) | `lockedBalance` is the sum of the held deposits; who holds one and how it ends |
| Orders (`orders/orders.service.ts`) | `Order` rows | payOrder | paid once, in full, by the right buyer, before the deadline |
| Settlement (`orders/settlement.service.ts`) | - | closeDueAuctions, forceEndAuction, expirePaymentDeadlines, retryWinnerPayments | every auction comes to one outcome; forfeits and second chances are fair |
| Scheduler (`scheduler/`) | two `DeadlineTimer` objects in memory | rearm, fire, sweep, bootstrap, stop | never sleeps past a deadline, never spins |
| Wallet and Stripe (`wallet/`) | `Wallet`, `WalletTransaction`, `Withdrawal` rows, `User.stripeConnectId` | webhook credit, withdrawal, Connect onboarding | no money lost or made by a repeated event, a lost answer or a crash; none sent to an account that is not ready |
| Seller verification (`seller-verification/`) | `PhoneVerification`, `SellerProfile` rows | requestVerification, verifyPhone, resend | the number granted is the one the code was sent to, and only one seller has it |
| Registration (`auth/`) | `EmailVerification`, `PasswordReset`, `User` rows | register, verifyEmail, resend, forgot, reset and change password, Google | one account a mail; codes are counted and used up |
| Realtime (`realtime/`) | channels and subscriber counts in memory | publish, subscribe, teardown | a channel lives as long as it has subscribers; a screen that stays open ends up with the committed price and end |
| Favorites, follows, users, categories, uploads, mail, WhatsApp, guards | rows nothing else depends on, or none | | |

The components meet in the database. A bid, a cancel, a payment and an expiry
each change auction, deposit, wallet and order rows in one transaction;
`WalletService` moves deposits inside the transactions of its callers;
`SettlementService` calls `OrdersService.payOrder` after it has closed an
auction, in a second transaction. Whoever commits a new deadline calls
`SchedulerService.reschedule` afterwards, and whoever commits a bid or a closing
publishes it to `RealtimeService`.

The hard behaviours are the interleavings of these transactions; the handlers
of `AuctionsService` that check a row and write it later without a lock; the
order in which transactions take their row locks; the
memory of the timers, which is stale between the query and the timeout and gone
after a restart; Stripe, which repeats events and whose answers may be lost;
and the one-time codes, whose handlers use no transaction at all.
`PROJECT.json` lists the hazards, each at its line with the properties that
watch it.

## The modules

| Module | Models | Variables and the code they stand for |
|---|---|---|
| `Pricing` | increment steps, deposit, shipping, what is due, the excess | none: operators, amounts in cents |
| `AuctionHouse` | auctions, bids, deposits, orders, settlement | `auction`, `bids`, `deposit`, `order`, `wallet`: the rows; `requests`: unlocked handlers between their two database calls; `listed`: auctions on a closing job's list; `now`; `inflow`, `forfeited`: history |
| `RowLocks` | the transactions of `AuctionHouse` statement by statement, with their locks | those of `AuctionHouse`, which are the committed rows; `tx`: what runs on each connection |
| `Escrow` | the abstract promise about money | `purse`, `holder`, `kept`, `sold` |
| `DeadlineTimer` | one timer, its runs and the writers of deadlines | `timer`: the object's fields; `deadline`: the rows; `runs`: calls of `onDue`; `owed`: commits whose writer has not called `reschedule` yet; `untold`: a writer that failed before it did; `up` |
| `Payments` | top-ups, payout account and withdrawals of one user | `balance`, `topups`, `row`, `account`: the rows; `pc`, `attempts`, `payee`, `onboarding`, `connectId`: the handlers; `checkout`, `owes`, `moved`, `created`, `links`, `completed`: Stripe |
| `Verification` | the one-time codes of three flows | `rows`: the three tables; `call`: requests in flight; `granted`: account, profile or password; `issued`, `proof`: history |
| `Realtime` | channels, streams and what screens show | `row`: what is committed; `committed`: handlers that have still to publish; `channel`: the maps of `RealtimeService`; `stream`, `answer`, `shown`: the clients; `got`, `owed`: history |
| `MC...` | instances for TLC | |
| `..._proofs` | theorems | |
| `FiniteSums` | lemmas about sums, for the theorems about money | |

**Grain of `AuctionHouse`.** `place`, `closeOne`, `expireOne`, `payOrder` and
`cancel` are one action each: each runs in one transaction that locks its row
and reads it again before it decides. `payOrder` locks the `Order` row and
`cancel` the `Auction` row, but both write both rows, so that they exclude each
other; the second-chance order that `expireOne` inserts takes a key-share lock
on the `Auction` row through its foreign key, which a cancel's `FOR UPDATE`
excludes. Wallets are changed by guarded increments. `approve`, `reject`,
`submit`, `update` and `remove` are two actions (`Check`, then the write by id),
and any other action may come between them. The automatic payment after a
close, the retry of the sweep and `POST /orders/:id/pay` are the same
`PayOrder`. A payment that is never made, because the process has died, is
`PayOrder` not happening.

Two readings of the clock are kept apart from what follows them. The closing job
queries the due auctions (`List`) and comes to each of them later (`Close`, or
`Skip` if it finds nothing to close any more): a bid in between may have moved
the end, which `closeOne` looks at again under the lock. And a bid looks at the
clock once, early in its transaction, and commits up to `CommitLag` ticks later
(`BidClocks`), when the end it was in time for may be past and the auction on
the job's list. Without the second reading in `closeOne` such a bid would have
its extension taken away, which `PriceAndEndOnlyRise` forbids: what leaves the
list by a close has an end that has come. `AuctionHouse` lets every bid within
`CommitLag` use an old reading, also one older than the bid before it on the same
auction, which the row lock excludes; that only adds behaviours.

*An assumption on the environment.* `Spec` says that no **first bid** arrives between
the two database calls of one unlocked handler (`PromptReview`): for that, a
submit, an approval and a bid would have to fit between two consecutive
queries of, say, a delete. `SlowSpec` drops it, and the run `auction_slow`
shows what the code then does. It is not a guard of the code.

Not modelled in `AuctionHouse`: `minBidIncrement`, a copy of what
`minIncrementFor` gives; title, images and other columns nothing depends on;
`WalletTransaction` rows, a log; mails and events. One object has one auction,
and every auction of an instance the same `durationDays`.

**Grain of `RowLocks`.** The atomic transactions of `AuctionHouse` are an
assumption there and a property here. A transaction is a sequence of statements;
each takes row locks in PostgreSQL's modes (`FOR UPDATE`, an update that leaves
the keys alone, the key share of a foreign key) and waits while they conflict
with those of another. Other statements and transactions come in between, and a
transaction may be rolled back wherever it stands. What a transaction writes
becomes visible at its commit, so the writes are made in its last step; what it
has *read* stays as it was when it read it. `ActsAtomically` says that the
committed rows still behave as `AuctionHouse`, and `NoSurpriseWaits` which
transactions can wait for which, and so where deadlocks can arise: two
transactions on different auctions that touch the same wallets, and a cancel
against a payment or an expiry of the same auction. PostgreSQL aborts one of
them, which is `Abort`. Because nobody else waits, taking the wallet and the
deposit row in one step loses no interleaving that matters. The closing job's query waits for
nobody (`ListStatement`); `StartClose` is a `closeOne` for an auction on its
list, `StartForce` the administrator's. Two things are
simpler than the code: `SellerStatement` takes the write of `submit` or
`update` as one statement (they write `Object` before `Auction` and can
deadlock with a cancel), and no time passes while a transaction is open
(deadlines are days, transactions seconds; what a late commit does to an end is in
`AuctionHouse`, by `CommitLag`).

**Grain of `DeadlineTimer`.** What JavaScript does between two awaits is one
step. The two timers of `SchedulerService` are alike; what the other timer's
run and the sweep do to the rows of this one is `Change` and `Sweep`. A sweep
whose query fails ends without `rearm`. `Forget` is the writer that commits a
deadline and fails before it calls `reschedule` (`runAll` when its second query
fails, `forceEnd` after the close); the job of every six hours (`Cron`) makes up
for it.

**Grain of `Payments`.** A transaction is a step, and so is one exchange with
Stripe; the process may die between any two. Stripe is external: it repeats an
event until it is acknowledged, makes a transfer once per idempotency key, and
may carry out a request whose answer is lost. Onboarding requests come from
several pages at once: one finds no account, has Stripe make one, stores it and
gives a link; another may do the same in between, so that the account stored is
not the one whose form the user fills in. A withdrawal reads the account once
and sends to that one.

**Grain of `Realtime`.** A publication with its deliveries, a subscription and
a teardown are steps; a handler publishes some time after its commit, so that
events of different handlers leave in any order. The wire keeps the order of
one stream. What the clients do is external and an assumption: a page asks
`GET /auctions/:id` once its stream is open, and keeps the higher of the prices
it is told. A cancel is published to nobody, and no property claims that a
screen learns of one.

**Grain of `Verification`.** One database call is one step. A code stands for
the row it was made for: two random codes never coincide. A password set by
`changePassword` is `Elsewhere`, one that no code stands for; it may undo a reset
that came between its check and its write, and no property forbids that. `createdAt` follows
the order of insertion; rows may expire in any order.

`Escrow` is the abstract specification: at most one person has a deposit at
stake on an auction, it goes back, into the payment or to the house, and a sale
pays its owner in full and is final. `AuctionHouse` implements it under the
mapping in `Promise` (whose deposit is at stake is read off the statuses of the
auction and its first order).

## The runs

| Run | Question | Result |
|---|---|---|
| `auction_one` | one auction, three bidders, every way a sale can go; refinement of `Escrow` | holds (1.2 M states) |
| `auction_locks` | two auctions of owners who also bid, two transactions statement by statement; refinement of `AuctionHouse` | holds (2.2 M) |
| `auction_review` | two overlapping unlocked handlers with bids, cancel and settlement; liveness | holds (0.97 M) |
| `auction_approve` | does only a pending auction go live? | no: a cancelled one may |
| `auction_slow` | the same sum of deposits without `PromptReview` | no: a late delete takes the deposit row along |
| `timer_work` | a timer under writers, some of which fail, failing queries, restarts and a stuck row; liveness | holds (1.0 M) |
| `timer_stale` | does `staleRuns` count runs? | no: it counts rearms |
| `payments_wallet` | duplicates, lost answers, crashes, racing onboarding requests; liveness | holds (1.1 M) |
| `payments_refund` | is refunded money still here? | no: the answer of the last attempt may be lost after the transfer |
| `verification_codes` | codes, with two requests interleaving, beside changes of password | holds (3.0 M) |
| `verification_pending` | does a new code replace the pending ones? | no: two requests delete first and insert second |
| `realtime_streams` | do channels and screens stay right while streams come and go and events overtake each other? liveness | holds (0.23 M) |

The five violations are disagreements between the code and its own comments or
messages; `PROJECT.json` quotes them under `findings`.

**Bounds.** *Auctions*: three bidders are the least for a leader, an outbid
bidder and a second chance to a third. With an opening price of $10, bids of $9,
$24, $25, $26, $27 and $60 have one below it, and the others around the first
increment tier: over $24 a bid of $25 is enough, over $25 it takes $27, and $26
is not. (The other two tiers are left to the theorem.) They also meet the deposit
in different ways: up to $27 the total is less than the $50 already held, and the
rest is given back; at $60 the buyer still pays. `CommitLag` is one tick in `auction_one`, so
that a bid may commit at the end it was in time for; elsewhere 0. Balances of $90
cover one deposit and not two, or a deposit and not the rest, so that guarded
debits fail. `Duration`, `AntiSnipe`, `ExtendBy` and `PaymentWindow` of one or
two ticks put a bid before, in and at the end of the window. `MaxTime` lets the
longest life end: creation, extensions, the winner's and the second bidder's
deadline. `LastReview` limits when unlocked handlers start, `MaxLag` how long
due work waits, `MaxFunding` that no more money comes in than has gone out.
Symmetry exchanges the bidders, and in `auction_locks` the connections, that the
constants do not tell apart; the runs with liveness properties use none.
*Locks*: two transactions are the least for a wait and a cycle, and every pair
of the five kinds occurs; two auctions, because the waits for wallets are
between auctions; prices that the deposit covers and does not. Cycles of three
transactions are made of the same waits.
*Timer*: `Rows` has one row that can be closed and one that cannot; two runs,
because a timer run and a sweep can overlap; `MaxTimeout` shorter than the
longest delay, so that a wake-up without work occurs; `MaxChanges` and
`MaxFailures` of two. New trouble ends at `LastChange`; until `BusyUntil` time
passes whatever is under way, later only when it is done. `MaxTime` leaves room
for the last deadline, its backoffs and a sweep.
*Payments*: a session that makes a second withdrawal possible; two attempts for
a transfer; two onboarding pages; one failure anywhere in `payments_wallet`, two
in `payments_refund`. `MaxAccounts` is the number of pages and failures, so that
it never stops a request. *Verification*: `MaxCodes = 2` is enough for a replaced
or doubled row; `MaxAttempts = 1` for the limit. *Realtime*: two pages on the
channels of one auction and two users; three bids, so that two events may be
overtaken by a third and a closing. The proved theorems have no such bounds.

**Fairness.** `AuctionHouse`: time passes, and due auctions are listed and closed and due orders
expired - the two timers and the six-hourly sweep bring them to their
handler, which is what `DeadlineTimer` shows (`DueIsServed`). No fairness for
bids, payments or cancels. `DeadlineTimer`: the event loop and the database
answer, timeouts call back, the job of every six hours comes and time passes;
failures and writers are not owed. `Payments`: Stripe delivers an event until it
is acknowledged, while failures are bounded; a handler that is not broken off
goes on; the user fills in the forms behind the links and, while not payable,
asks again. `Realtime`: a handler publishes what it has committed, and the
request of a page is made and answered. Streams that stay open are not assumed:
`SeesTheEnd` is for those that do.

`CHECK_DEADLOCK FALSE`: the systems may come to rest (everything sold and
the clock at its bound).

Every property has a mutant: an operator beside the one it replaces, with a
plausible mistake, under which the property fails.

## The proofs

Eight modules hold them; every safety invariant and every action property that
a passing run checks is a theorem for all values of the constants.

`FiniteSums`: what `SumFunction` of the community modules is. Money is a sum
over all users, sessions or withdrawals, and the library adds a function up by
recursion on the subsets of its domain. Induction is out of reach here, but a
*smallest* subset for which something fails is not (proper inclusion is
well-founded on the subsets of a finite set): so the recursive function exists,
the order of adding does not matter, and a sum changes by what one argument
changes (`SumChange`) or not at all when two arguments change by opposite
amounts (`SumMove`).

`AuctionHouseSafety_proofs`: first the types (`TypeCorrect`); the interesting
part is that amounts stay natural numbers: `WinnerDue` is clamped. Then one
inductive invariant `IInv` for the six safety properties, proved for any users,
auctions, prices and times. `DepositHolders` alone is not inductive: that nobody
holds a deposit twice over, or keeps one after the sale, depends on which orders
there can be. `IInv` says for each auction

- `Leader`: no bid, no winner and no order; an auction with a bid has been live;
- `Phase`: which orders each status goes with, the second one only after the
  first has defaulted, and the object is sold exactly when the auction is;
- `Claims`: what an open order asks and applies (the winner's the deposit, the
  second chance nothing) and what a completed one has paid;
- `Holders`: who holds a deposit;

and of the wallets `LockedBacksDeposits` and that no balance is negative
(`Solvent`). `LockedBacksDeposits` counts auctions; its steps rest on lemmas about
the cardinality of a set that gains or loses one auction. `MoneyConserved`
(`NoMoneyIsMadeOrLost`) goes handler by handler: a bid and a cancel move money
between a user's two balances, a payment from the buyer (locked deposit
included) to the owner, a default to what the house has kept; all it needs of
`IInv` is that whoever an order charges is a user, and the types.

`AuctionHouseSteps_proofs`: what a step may never do. A step changes the rows of
one auction at most (`RowsAreIts`), and `IInv` leaves no handler anything to do
on a sold one: `SaleIsFinal`. `DepositFate` goes handler by handler. Two more
invariants stand on top of `IInv`. `Book`, for the bids of an auction, says that
the winner and the price are the highest bid, that the price is 0 before the
first one, and that no bid is below the opening price. That `minIncrementFor` is
the table of the docs (`IncrementIsTiered`), at its bounds too, and that
`p + minIncrementFor(p)` never falls, give `BidsAreOrdered` and the price's half
of `PriceAndEndOnlyRise`. The end's half is that a bid extends it or leaves it,
and that `closeOne` on an auction of the list asks for its end (`UnlistedIsDue`). `Offer`, for the second order, gives
`SecondChanceIsFair`: bids are frozen by then and only the status of the offer
moves. Last, `Spec => Escrow` (`HouseKeepsPromise`), action by action: every
handler maps to a step of `Escrow` or to none.

`RowLocks_proofs`: `RowSpec => ActsAtomically`, the refinement that justifies
the grain of `AuctionHouse`, for any number of transactions at once. Its
invariant (`RInv`) is `IInv` of the committed rows and, of the transactions,

- `Exclusive`: no two of them hold conflicting locks;
- `Stands`: what each has read and checked by the statement it is at is still so
  (`Placing`, `Cancelling`, `Closing`, ... one for each kind of transaction; a
  close of the job's is still due and on the list), and it holds the locks that keep it so;
- `OwnRows`: the rows it has locked are its auction's, their orders, deposits
  and wallets.

A statement only takes locks, so the rows do not move and `[Next]_vars`
stutters; a commit is the handler's action because everything its guard asks has
been checked and stands. What remains is that a commit of one transaction spoils
nothing that another has read. On different auctions they share only wallets,
and only whoever has locked a wallet relies on it. On the same one two open
transactions exclude each other (`SameAuction`): a bid, a close and a cancel lock
the auction's row, a payment and an expiry that of the one open order, which a
live auction does not have. The exception is a cancel, not yet at the orders,
beside a payment or an expiry; and there the latter cannot commit, since it
writes the auction's row, or refers to it, and the cancel has locked that one.
The same lemma gives `NoSurpriseWaits`. Since `RowSpec`
implements `AuctionHouse`, its theorems hold between any two statements: of the
money (`InterleavedMoneyIsSafe`), of the action properties
(`InterleavedStepsAreSafe`) and of `Escrow` (`InterleavedPromiseIsKept`), the two
refinements composed.

`Verification_proofs`: the inductive invariant says that a call past the
comparison carries the code, subject and claim of a row that was issued, that
every row is as it was issued, and that a call about to mark a row has its
effect behind it. From it follow `ProvenClaim`, `OneSellerPerPhone`,
`ConsumedIsGranted` and `GrantedOnce` for any number of calls and codes.
An account always has some password, so for a reset `ConsumedIsGranted` asks for
one that came with a code (`Made`).
`AttemptsBounded` has a second invariant on top: attempts made and calls about
to add one stay together within the limit and the other calls.

`Payments_proofs`: the inductive invariant gives, for each withdrawal, row,
transfers and payee by the step its handler is at: before the debit there is
neither row nor transfer, a handler that may still send has seen a completed
account, one that has its answer knows that the money has left. From it follow
the types (the balance never falls below 0), `TransferredOnce` and
`PaidToCompleted`. `LedgerBalances` (`BooksBalance`) is two sums: each action
changes one summand of one of them and the balance by as much, or neither.

`DeadlineTimer_proofs`: `NeverOversleeps` speaks of quiet states only and is not
inductive. The invariant says when the timer may be trusted: `Calm`, no writer
still owes a `reschedule` and no run is past its query. Then what the timer has
read is no later than any deadline (`Knows`), and what it has set comes by all
of them or within the slack of a retry or a backoff (`Covered`). Everything else
ends in `rearm`, after which a query is still to come (`Asking`), so that
nothing need be known. `Sound` keeps, for a timeout set for the work, its
margin over the deadline or its backoff over the last firing; with it,
`NotTooEarly` and `NoTightLoop` are arithmetic. That 2^n is a natural number and
positive comes from the number of subsets of 1 .. n, and the least deadline from
well-foundedness, since neither can be proved by induction here.

`Realtime_proofs`: one invariant for channels, streams and screens.
`ChannelsMatchStreams` alone is not inductive: a new stream would join another
key's Subject unless different channels had different ones (`Subjects`), which
holds because a new one is not in use (a finite set of numbers leaves one free).
`ToldOnce` needs that a handler has at most one event for a key (`Notes`), that
no two handlers have the same to tell (`Apart`), and that an event tells only
what has happened (`Past`): then a bid or a closing, which tells of a price or an
end that is not yet in the row, is new to every stream. For
`ScreensAreCurrent`, `Views` says that no screen and no answer is ahead of the
row, and that whatever a screen that has asked still lacks is in its answer or
pending for its auction.

The proofs assume what the modules assume of their constants (among it that
users, sessions, withdrawals and screens are finitely many, without which there
is no sum and no count), for `AuctionHouse` and `RowLocks` the environment's
`PromptReview` (it is in both specifications), and for `Realtime` what it
assumes of the clients.

Only model-checked: all liveness (`AuctionsResolve`, `DepositsSettle`,
`DueIsServed`, `PaidIsCredited`, `CanBePaid`, `SeesTheEnd`), which rests on
fairness and `ENABLED`; and, of course, the violations.

## What is not modelled

Favorites and follows (idempotent upserts and deletes of rows nothing depends
on), `updateProfile` (one update), `login` and listings, which only read, mails,
WhatsApp, uploads, guards and validation, and the generated Prisma client, which
is most of the repository's lines.

Within the modelled parts:

- A method of payment that settles later completes its Checkout session unpaid,
  and the event that tells of the payment is ignored: `Payments` has it as a
  session that stays "late", and `PaidIsCredited` speaks of sessions paid at once.
- A withdrawal left `PENDING` by a process that died is never taken up again;
  `Payments` has it ("dead"), and no property claims otherwise.
- Statements on `Object` rows (see the grain of `RowLocks`).
- The keepalive pings of a stream, and the limits of a client's reconnection.

## Plan

Done: `Pricing`, `AuctionHouse` with `Escrow` and `RowLocks`, `DeadlineTimer`,
`Payments`, `Verification`, `Realtime`; the proofs of their invariants and action
properties, and of both refinements, of `Escrow` by `AuctionHouse` and of
`AuctionHouse` by `RowLocks`.

What remains, in this order:

1. `RowLocks`: `submit` and `update` as two statements, with the `Object` row,
   and the deadlock with a cancel; the proof of the refinement goes with it.
2. The safety half of the liveness properties: for `AuctionsResolve` and
   `DueIsServed`, that what is due leaves its handler a step it can take.
3. `DeadlineTimer`: the two timers composed, with the runs of one creating the
   deadlines of the other.
