------------------------------ MODULE Payments ------------------------------
(***************************************************************************)
(* The wallet's Stripe side, for one user: top-ups by Checkout, credited   *)
(* by webhook, the payout account the user sets up at Stripe, and          *)
(* withdrawals by a transfer to that account, with the answers that get    *)
(* lost and the processes that die in between.                             *)
(*                                                                         *)
(* Grain.  A database transaction is one step, and so is one exchange with *)
(* Stripe.  requestWithdrawal and connectOnboard go through them one by    *)
(* one; other requests of the same user, and a crash, may come between any *)
(* two.                                                                    *)
(***************************************************************************)
EXTENDS Integers, Sequences, FiniteSets, Functions

CONSTANTS
  Sessions,      \* Checkout sessions, one completion event each
  Withdrawals,   \* POST /wallet/withdraw requests
  Pages,         \* where the user may ask for onboarding, each time and again
  MaxAccounts,   \* bound: the accounts Stripe may come to make for the user
  Amount,        \* the amount of each session and withdrawal
  Initial,       \* the balance at the start
  MaxAttempts,   \* bound: how often the Stripe client sends one transfer
  MaxFailures    \* bound: lost acknowledgements, crashes, failed commits

ASSUME AmountAssumption == /\ Amount \in [Sessions \cup Withdrawals -> Nat \ {0}]
                           /\ Sessions \cap Withdrawals = {}
                           /\ IsFiniteSet(Sessions) /\ IsFiniteSet(Withdrawals)
                           /\ Initial \in Nat
ASSUME BoundsAssumption == MaxAccounts \in Nat /\ MaxAttempts \in Nat /\ MaxFailures \in Nat

VARIABLES
  balance,    \* Wallet.balance
  topups,     \* WalletTransaction rows with a stripeEventId: by session
  row,        \* Withdrawal row: its status
  pc,         \* where the handler of a withdrawal is
  attempts,   \* transfers.create calls sent for it, under its key
  elsewhere,  \* money held by or spent on auctions
  checkout,   \* Stripe: how a session stands
  owes,       \* Stripe: events not acknowledged yet
  moved,      \* Stripe: the transfers made for a withdrawal, by account
  failures,   \* what MaxFailures counts
  account,    \* User.stripeConnectId
  onboarding, \* where the handler of an onboarding request is
  connectId,  \* its local
  created,    \* Stripe: how many accounts it has made
  links,      \* accounts the user has been given a link to
  completed,  \* Stripe: accounts whose form the user has filled in
  payee       \* the account a withdrawal has read

topUpSide == <<checkout, owes, topups>>
onboardSide == <<account, onboarding, connectId, created, links, completed>>
withdrawSide == <<row, pc, attempts, moved, payee>>
vars == <<balance, elsewhere, failures, topUpSide, onboardSide, withdrawSide>>

\* the accounts, numbered as Stripe makes them
Accounts == 1 .. MaxAccounts
NoAccount == 0

\* the handler of a withdrawal, by the step that comes next
Steps == {"read", "ask", "debit", "transfer", "refund", "record", "over", "dead"}

\* the handler of an onboarding request, likewise
OnboardSteps == {"idle", "create", "save", "link"}

\* "late": complete, but the money comes later, and with it an event of
\* another type, which handleWebhook answers and leaves alone
Checkouts == {"open", "late", "paid"}

TypeOK ==
  /\ balance \in Nat /\ elsewhere \in Nat
  /\ topups \subseteq Sessions
  /\ row \in [Withdrawals -> {"NONE", "PENDING", "PAID", "FAILED"}]
  /\ pc \in [Withdrawals -> Steps]
  /\ attempts \in [Withdrawals -> 0 .. MaxAttempts]
  /\ checkout \in [Sessions -> Checkouts]
  /\ owes \subseteq Sessions
  /\ moved \in [Withdrawals -> Seq(Accounts)]
  /\ failures \in 0 .. MaxFailures
  /\ account \in Accounts \cup {NoAccount}
  /\ onboarding \in [Pages -> OnboardSteps]
  /\ connectId \in [Pages -> Accounts \cup {NoAccount}]
  /\ created \in 0 .. MaxAccounts /\ links \subseteq 1 .. created /\ completed \subseteq links
  /\ payee \in [Withdrawals -> Accounts \cup {NoAccount}]

Init ==
  /\ balance = Initial /\ elsewhere = 0
  /\ topups = {}
  /\ row = [w \in Withdrawals |-> "NONE"]
  /\ pc = [w \in Withdrawals |-> "read"]
  /\ attempts = [w \in Withdrawals |-> 0]
  /\ checkout = [s \in Sessions |-> "open"]
  /\ owes = {}
  /\ moved = [w \in Withdrawals |-> <<>>]
  /\ failures = 0
  /\ account = NoAccount
  /\ onboarding = [p \in Pages |-> "idle"]
  /\ connectId = [p \in Pages |-> NoAccount]
  /\ created = 0 /\ links = {} /\ completed = {}
  /\ payee = [w \in Withdrawals |-> NoAccount]

Fails == failures < MaxFailures /\ failures' = failures + 1

----------------------------------------------------------------------------
(* Top-ups.                                                                *)

(* The user completes a session; a card pays at once, another method may   *)
(* pay later.  Either way checkout.session.completed is on its way.        *)
Complete(s, how) ==
  /\ checkout[s] = "open"
  /\ checkout' = [checkout EXCEPT ![s] = how]
  /\ owes' = owes \cup {s}
  /\ UNCHANGED <<topups, balance, elsewhere, failures, onboardSide, withdrawSide>>

(* Mutant: the event is not looked up. *)
IsNew_Always(s) == TRUE

(* stripeEventId is unique: the insert of a known event fails, and the     *)
(* whole transaction with it.                                              *)
IsNew(s) == s \notin topups

(* creditTopUp; the session in the event says "paid" only if it was when   *)
(* the event was made.                                                     *)
Credit(s) ==
  IF checkout[s] = "paid" /\ IsNew(s)
  THEN topups' = topups \cup {s} /\ balance' = balance + Amount[s]
  ELSE UNCHANGED <<topups, balance>>

(* A delivery is answered; the answer arrives ...                          *)
Webhook(s) ==
  /\ s \in owes
  /\ Credit(s)
  /\ owes' = owes \ {s}
  /\ UNCHANGED <<checkout, elsewhere, failures, onboardSide, withdrawSide>>

(* ... or is lost, so that the event comes again.                          *)
WebhookUnacknowledged(s) ==
  /\ s \in owes
  /\ Fails
  /\ Credit(s)
  /\ UNCHANGED <<checkout, owes, elsewhere, onboardSide, withdrawSide>>

(* Mutant: every error is taken for a known event. *)
AfterError_Swallowed(s) == owes \ {s}

(* The transaction fails for another reason than a known event, or the     *)
(* process dies first: no answer, and the event comes again.               *)
AfterError(s) == owes

WebhookFails(s) ==
  /\ s \in owes
  /\ Fails
  /\ owes' = AfterError(s)
  /\ UNCHANGED <<topups, checkout, balance, elsewhere, onboardSide, withdrawSide>>

----------------------------------------------------------------------------
(* Withdrawals: requestWithdrawal.                                         *)

At(w, here, next) == pc[w] = here /\ pc' = [pc EXCEPT ![w] = next]

(* The user's row: no payout account, or one.                              *)
Read(w) ==
  /\ \/ account = NoAccount /\ At(w, "read", "over") /\ UNCHANGED payee
     \/ account # NoAccount /\ At(w, "read", "ask")
          /\ payee' = [payee EXCEPT ![w] = account]
  /\ UNCHANGED <<row, attempts, moved, balance, elsewhere, failures, topUpSide, onboardSide>>

(* Stripe enables payouts only for a completed account, and may disable    *)
(* them again.                                                             *)
AskStripe(w) ==
  /\ \/ payee[w] \in completed /\ At(w, "ask", "debit")
     \/ At(w, "ask", "over")
  /\ UNCHANGED <<row, attempts, moved, payee, balance, elsewhere, failures, topUpSide, onboardSide>>

(* Mutant: the update does not ask for the balance.                        *)
Covers_Unguarded(w) == TRUE

Covers(w) == balance >= Amount[w]

Debit(w) ==
  /\ \/ Covers(w) /\ At(w, "debit", "transfer")
          /\ balance' = balance - Amount[w] /\ row' = [row EXCEPT ![w] = "PENDING"]
     \/ ~Covers(w) /\ At(w, "debit", "over") /\ UNCHANGED <<balance, row>>
  /\ UNCHANGED <<attempts, moved, payee, elsewhere, failures, topUpSide, onboardSide>>

(* Mutants: the destination is read again when the money is sent; the      *)
(* transfer is sent without a key.                                         *)
Destination_Reread(w) == account
Carried_Keyless(w) == Append(moved[w], payee[w])

(* What Stripe has moved once it has carried a request out: the key makes  *)
(* a repeated request an answer to the first.                              *)
Destination(w) == payee[w]
Carried(w) == IF moved[w] = <<>> THEN <<Destination(w)>> ELSE moved[w]

(* transfers.create: the client repeats a request whose answer did not     *)
(* come, and throws when it gives up or is refused.                        *)
Send(w) == attempts[w] < MaxAttempts /\ attempts' = [attempts EXCEPT ![w] = @ + 1]

Answered(w) ==
  /\ At(w, "transfer", "record") /\ Send(w)
  /\ moved' = [moved EXCEPT ![w] = Carried(w)]
  /\ UNCHANGED <<row, payee, balance, elsewhere, failures, topUpSide, onboardSide>>

NotAnswered(w) ==
  /\ \/ At(w, "transfer", "transfer") /\ attempts[w] + 1 < MaxAttempts
     \/ At(w, "transfer", "refund")
  /\ Send(w) /\ Fails
  /\ moved' = [moved EXCEPT ![w] = Carried(w)] \/ UNCHANGED moved
  /\ UNCHANGED <<row, payee, balance, elsewhere, topUpSide, onboardSide>>

Refused(w) ==
  /\ moved[w] = <<>>
  /\ At(w, "transfer", "refund") /\ Send(w)
  /\ UNCHANGED <<row, moved, payee, balance, elsewhere, failures, topUpSide, onboardSide>>

Refund(w) ==
  /\ At(w, "refund", "over")
  /\ balance' = balance + Amount[w] /\ row' = [row EXCEPT ![w] = "FAILED"]
  /\ UNCHANGED <<attempts, moved, payee, elsewhere, failures, topUpSide, onboardSide>>

Record(w) ==
  /\ At(w, "record", "over")
  /\ row' = [row EXCEPT ![w] = "PAID"]
  /\ UNCHANGED <<attempts, moved, payee, balance, elsewhere, failures, topUpSide, onboardSide>>

(* The last transaction fails, or the process dies at any point: the row   *)
(* stays as it is, and nothing takes it up again.                          *)
Break(w) ==
  /\ pc[w] \notin {"over", "dead"} /\ At(w, pc[w], "dead")
  /\ Fails
  /\ UNCHANGED <<row, attempts, moved, payee, balance, elsewhere, topUpSide, onboardSide>>

----------------------------------------------------------------------------
(* The payout account: connectOnboard.                                     *)

OnPage(p, here, next) ==
  onboarding[p] = here /\ onboarding' = [onboarding EXCEPT ![p] = next]

(* Mutant: a user who has an account is turned away. *)
Onboard_Once(p) ==
  /\ account = NoAccount /\ OnPage(p, "idle", "create")
  /\ connectId' = [connectId EXCEPT ![p] = account]
  /\ UNCHANGED <<account, created, links, completed, balance, elsewhere, failures, topUpSide, withdrawSide>>

Onboard(p) ==
  /\ \/ account = NoAccount /\ OnPage(p, "idle", "create")
     \/ account # NoAccount /\ OnPage(p, "idle", "link")
  /\ connectId' = [connectId EXCEPT ![p] = account]
  /\ UNCHANGED <<account, created, links, completed, balance, elsewhere, failures, topUpSide, withdrawSide>>

CreateAccount(p) ==
  /\ OnPage(p, "create", "save")
  /\ created < MaxAccounts /\ created' = created + 1
  /\ connectId' = [connectId EXCEPT ![p] = created']
  /\ UNCHANGED <<account, links, completed, balance, elsewhere, failures, topUpSide, withdrawSide>>

SaveAccount(p) ==
  /\ OnPage(p, "save", "link")
  /\ account' = connectId[p]
  /\ UNCHANGED <<connectId, created, links, completed, balance, elsewhere, failures, topUpSide, withdrawSide>>

GiveLink(p) ==
  /\ OnPage(p, "link", "idle")
  /\ links' = links \cup {connectId[p]}
  /\ connectId' = [connectId EXCEPT ![p] = NoAccount]
  /\ UNCHANGED <<account, created, completed, balance, elsewhere, failures, topUpSide, withdrawSide>>

(* A call of Stripe fails, or the process dies.                            *)
BreakOnboard(p) ==
  /\ onboarding[p] # "idle" /\ OnPage(p, onboarding[p], "idle")
  /\ Fails
  /\ connectId' = [connectId EXCEPT ![p] = NoAccount]
  /\ UNCHANGED <<account, created, links, completed, balance, elsewhere, topUpSide, withdrawSide>>

(* The user fills in the form behind a link.                               *)
FillIn(a) ==
  /\ a \in links \ completed
  /\ completed' = completed \cup {a}
  /\ UNCHANGED <<account, onboarding, connectId, created, links, balance, elsewhere, failures, topUpSide, withdrawSide>>

----------------------------------------------------------------------------
(* The auction house takes money from the balance, guarded, and gives it   *)
(* back.                                                                   *)
Hold ==
  /\ balance > 0
  /\ balance' = balance - 1 /\ elsewhere' = elsewhere + 1
  /\ UNCHANGED <<failures, topUpSide, onboardSide, withdrawSide>>

GiveBack ==
  /\ elsewhere > 0
  /\ balance' = balance + 1 /\ elsewhere' = elsewhere - 1
  /\ UNCHANGED <<failures, topUpSide, onboardSide, withdrawSide>>

Next ==
  \/ \E s \in Sessions, how \in {"paid", "late"} : Complete(s, how)
  \/ \E s \in Sessions : Webhook(s)
  \/ \E s \in Sessions : WebhookUnacknowledged(s)
  \/ \E s \in Sessions : WebhookFails(s)
  \/ \E w \in Withdrawals : Read(w)
  \/ \E w \in Withdrawals : AskStripe(w)
  \/ \E w \in Withdrawals : Debit(w)
  \/ \E w \in Withdrawals : Answered(w)
  \/ \E w \in Withdrawals : NotAnswered(w)
  \/ \E w \in Withdrawals : Refused(w)
  \/ \E w \in Withdrawals : Refund(w)
  \/ \E w \in Withdrawals : Record(w)
  \/ \E w \in Withdrawals : Break(w)
  \/ \E p \in Pages : Onboard(p)
  \/ \E p \in Pages : CreateAccount(p)
  \/ \E p \in Pages : SaveAccount(p)
  \/ \E p \in Pages : GiveLink(p)
  \/ \E p \in Pages : BreakOnboard(p)
  \/ \E a \in Accounts : FillIn(a)
  \/ Hold
  \/ GiveBack

Spec == Init /\ [][Next]_vars

(* Fairness: Stripe delivers an event until it is acknowledged; a handler  *)
(* goes on; a user who cannot be paid yet fills in the forms he has links  *)
(* for, and asks again.                                                    *)
CannotBePaid == account \notin completed

FairSpec ==
  /\ Spec
  /\ \A s \in Sessions : WF_vars(Webhook(s))
  /\ \A p \in Pages : /\ WF_vars(CreateAccount(p) \/ SaveAccount(p) \/ GiveLink(p))
                       /\ WF_vars(CannotBePaid /\ Onboard(p))
  /\ \A a \in Accounts : WF_vars(FillIn(a))

----------------------------------------------------------------------------
(* The rows explain the balance, whenever the process dies: what was       *)
(* topped up, less what is held or spent, less every withdrawal that has   *)
(* not failed.                                                             *)
LedgerBalances ==
  LET credited(s)  == IF s \in topups THEN Amount[s] ELSE 0
      withdrawn(w) == IF row[w] \in {"PENDING", "PAID"} THEN Amount[w] ELSE 0
  IN balance + elsewhere + SumFunction([w \in Withdrawals |-> withdrawn(w)])
       = Initial + SumFunction([s \in Sessions |-> credited(s)])

(* Stripe moves money at most once for a withdrawal, and only money that   *)
(* was taken from the wallet first; a withdrawal shown as PAID has left.   *)
(* A request that came to its end left nothing pending: only a process     *)
(* that died, or a last transaction that failed, can do that.              *)
TransferredOnce ==
  \A w \in Withdrawals :
    /\ Len(moved[w]) <= 1
    /\ moved[w] # <<>> => row[w] # "NONE"
    /\ row[w] = "PAID" => moved[w] # <<>>
    /\ pc[w] = "over" => row[w] # "PENDING"

(* Money leaves only for an account whose form the user has filled in,     *)
(* though a slow onboarding request may store another one while a          *)
(* withdrawal is under way.                                                *)
PaidToCompleted ==
  \A w \in Withdrawals : \A i \in DOMAIN moved[w] : moved[w][i] \in completed

(* A refund is safe: the money of a failed withdrawal never left.          *)
RefundedMeansNotSent == \A w \in Withdrawals : row[w] = "FAILED" => moved[w] = <<>>

(* What was paid at once is credited, however often the event comes or its *)
(* answer is lost.                                                         *)
PaidIsCredited == \A s \in Sessions : checkout[s] = "paid" ~> s \in topups

(* However many onboarding requests race and die, the account that stays   *)
(* stored becomes one the user has completed: no link leads astray for     *)
(* good.                                                                   *)
CanBePaid == <>[](account \in completed)
=============================================================================
