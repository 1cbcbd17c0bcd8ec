-------------------------- MODULE Payments_proofs --------------------------
(***************************************************************************)
(* The safety invariants of Payments, for any number of top-ups,           *)
(* withdrawals, onboarding requests and failures.                          *)
(***************************************************************************)
EXTENDS Payments, FiniteSums

----------------------------------------------------------------------------
(* The inductive invariant.                                                *)

(* A stored account, and one a request is about to store or to link to,    *)
(* has been made.                                                          *)
AccountsAreMade ==
  /\ account \in 0 .. created
  /\ \A p \in Pages : onboarding[p] \in {"save", "link"} => connectId[p] \in 1 .. created

(* The row and the transfers of a withdrawal, by the step its handler is   *)
(* at.  Before the debit there is neither; a handler that may still send   *)
(* money has seen a completed account; one that has had its answer knows   *)
(* that the money has left.                                                *)
Follows(w) ==
  /\ pc[w] \in {"read", "ask", "debit"} => row[w] = "NONE"
  /\ pc[w] \in {"transfer", "refund", "record"} => row[w] = "PENDING"
  /\ pc[w] \in {"debit", "transfer", "record"} => payee[w] \in completed
  /\ pc[w] = "record" => moved[w] # <<>>
  /\ pc[w] = "over" => row[w] # "PENDING"
  /\ row[w] = "NONE" => moved[w] = <<>>
  /\ row[w] = "PAID" => moved[w] # <<>>
  /\ moved[w] = <<>> \/ \E a \in completed : moved[w] = <<a>>

RowsFollow == \A w \in Withdrawals : Follows(w)

IInv == TypeOK /\ AccountsAreMade /\ RowsFollow

----------------------------------------------------------------------------
(* Initially nothing has been made, debited or moved.                      *)
LEMMA IInvInit == Init => IInv
<1> SUFFICES ASSUME Init PROVE IInv
  OBVIOUS
<1>1. TypeOK
  BY AmountAssumption, BoundsAssumption
  DEF Init, TypeOK, Steps, OnboardSteps, Checkouts, Accounts, NoAccount
<1>2. AccountsAreMade
  BY DEF Init, AccountsAreMade, NoAccount
<1>3. RowsFollow
  BY DEF Init, RowsFollow, Follows
<1> QED BY <1>1, <1>2, <1>3 DEF IInv

(* A step that leaves the withdrawals and the accounts alone keeps both    *)
(* parts of the invariant that are about them.                             *)
LEMMA SidesKept ==
  ASSUME IInv, UNCHANGED <<onboardSide, withdrawSide>>
  PROVE  AccountsAreMade' /\ RowsFollow'
BY DEF IInv, AccountsAreMade, RowsFollow, Follows, onboardSide, withdrawSide

(* Top-ups keep the invariant: a credit only adds to the balance.          *)
LEMMA TopUpKeeps ==
  ASSUME IInv, NEW s \in Sessions,
         \/ \E how \in {"paid", "late"} : Complete(s, how)
         \/ Webhook(s) \/ WebhookUnacknowledged(s) \/ WebhookFails(s)
  PROVE  IInv'
<1>1. Amount[s] \in Nat /\ TypeOK
  BY AmountAssumption DEF IInv
<1>2. UNCHANGED <<onboardSide, withdrawSide>>
  BY DEF Complete, Webhook, WebhookUnacknowledged, WebhookFails
<1>3. AccountsAreMade' /\ RowsFollow'
  BY <1>2, SidesKept
<1>4. TypeOK'
  <2>1. ASSUME NEW how \in {"paid", "late"}, Complete(s, how) PROVE TypeOK'
    BY <1>1, <2>1 DEF TypeOK, Complete, Checkouts, onboardSide, withdrawSide
  <2>2. ASSUME Credit(s) PROVE balance' \in Nat /\ topups' \subseteq Sessions
    BY <1>1, <2>2 DEF TypeOK, Credit
  <2>3. CASE Webhook(s)
    BY <1>1, <2>2, <2>3 DEF TypeOK, Webhook, onboardSide, withdrawSide
  <2>4. CASE WebhookUnacknowledged(s)
    BY <1>1, <2>2, <2>4, BoundsAssumption
    DEF TypeOK, WebhookUnacknowledged, Fails, onboardSide, withdrawSide
  <2>5. CASE WebhookFails(s)
    BY <1>1, <2>5, BoundsAssumption
    DEF TypeOK, WebhookFails, AfterError, Fails, onboardSide, withdrawSide
  <2> QED BY <2>1, <2>3, <2>4, <2>5
<1> QED BY <1>3, <1>4 DEF IInv

(* The auction house keeps it: it takes no more than the balance.          *)
LEMMA AuctionsKeep ==
  ASSUME IInv, Hold \/ GiveBack
  PROVE  IInv'
<1>1. AccountsAreMade' /\ RowsFollow'
  BY SidesKept DEF Hold, GiveBack
<1>2. balance' \in Nat /\ elsewhere' \in Nat
  BY DEF IInv, TypeOK, Hold, GiveBack
<1>3. UNCHANGED <<failures, topUpSide, onboardSide, withdrawSide>>
  BY DEF Hold, GiveBack
<1>4. TypeOK'
  BY <1>2, <1>3 DEF IInv, TypeOK, topUpSide, onboardSide, withdrawSide
<1> QED BY <1>1, <1>4 DEF IInv

----------------------------------------------------------------------------
(* Onboarding keeps it: the account a handler stores or links to is one it *)
(* has read or made, and a completed account stays completed.              *)
LEMMA OnboardKeeps ==
  ASSUME IInv, NEW p \in Pages,
         Onboard(p) \/ CreateAccount(p) \/ SaveAccount(p) \/ GiveLink(p) \/ BreakOnboard(p)
  PROVE  IInv'
<1> USE DEF OnPage, OnboardSteps, Accounts, NoAccount
<1>1. /\ TypeOK /\ AccountsAreMade /\ RowsFollow
      /\ UNCHANGED <<topUpSide, withdrawSide, completed, balance, elsewhere>>
  BY DEF IInv, Onboard, CreateAccount, SaveAccount, GiveLink, BreakOnboard
<1>2. RowsFollow'
  BY <1>1 DEF RowsFollow, Follows, withdrawSide
<1>3. CASE Onboard(p)
  <2>1. TypeOK'
    BY <1>1, <1>3 DEF TypeOK, Onboard, topUpSide, withdrawSide
  <2>2. AccountsAreMade'
    BY <1>1, <1>3 DEF TypeOK, AccountsAreMade, Onboard
  <2> QED BY <1>2, <2>1, <2>2 DEF IInv
<1>4. CASE CreateAccount(p)
  <2>1. created' \in 1 .. MaxAccounts /\ created' > created
    BY <1>1, <1>4, BoundsAssumption DEF TypeOK, CreateAccount
  <2>2. TypeOK'
    BY <1>1, <1>4, <2>1, BoundsAssumption DEF TypeOK, CreateAccount, topUpSide, withdrawSide
  <2>3. AccountsAreMade'
    BY <1>1, <1>4, <2>1 DEF TypeOK, AccountsAreMade, CreateAccount
  <2> QED BY <1>2, <2>2, <2>3 DEF IInv
<1>5. CASE SaveAccount(p)
  <2>1. connectId[p] \in 1 .. created
    BY <1>1, <1>5 DEF AccountsAreMade, SaveAccount
  <2>2. TypeOK'
    BY <1>1, <1>5, <2>1, BoundsAssumption DEF TypeOK, SaveAccount, topUpSide, withdrawSide
  <2>3. AccountsAreMade'
    BY <1>1, <1>5, <2>1 DEF TypeOK, AccountsAreMade, SaveAccount
  <2> QED BY <1>2, <2>2, <2>3 DEF IInv
<1>6. CASE GiveLink(p)
  <2>1. connectId[p] \in 1 .. created
    BY <1>1, <1>6 DEF AccountsAreMade, GiveLink
  <2>2. TypeOK'
    BY <1>1, <1>6, <2>1 DEF TypeOK, GiveLink, topUpSide, withdrawSide
  <2>3. AccountsAreMade'
    BY <1>1, <1>6 DEF TypeOK, AccountsAreMade, GiveLink
  <2> QED BY <1>2, <2>2, <2>3 DEF IInv
<1>7. CASE BreakOnboard(p)
  <2>1. TypeOK'
    BY <1>1, <1>7, BoundsAssumption DEF TypeOK, BreakOnboard, Fails, topUpSide, withdrawSide
  <2>2. AccountsAreMade'
    BY <1>1, <1>7 DEF TypeOK, AccountsAreMade, BreakOnboard
  <2> QED BY <1>2, <2>1, <2>2 DEF IInv
<1> QED BY <1>3, <1>4, <1>5, <1>6, <1>7

(* So does the user at a form.                                             *)
LEMMA FillInKeeps ==
  ASSUME IInv, NEW a \in Accounts, FillIn(a)
  PROVE  IInv'
<1>1. TypeOK'
  BY DEF IInv, TypeOK, FillIn, topUpSide, withdrawSide
<1>2. AccountsAreMade'
  BY DEF IInv, AccountsAreMade, FillIn
<1>3. completed \subseteq completed' /\ UNCHANGED withdrawSide
  BY DEF FillIn
<1>4. RowsFollow'
  BY <1>3 DEF IInv, RowsFollow, Follows, withdrawSide
<1> QED BY <1>1, <1>2, <1>4 DEF IInv

----------------------------------------------------------------------------
(* A step of a withdrawal concerns that withdrawal alone, so that only its *)
(* own row has to be looked at.                                            *)
Others(w) == \A v \in Withdrawals \ {w} :
  /\ pc'[v] = pc[v] /\ row'[v] = row[v] /\ moved'[v] = moved[v] /\ payee'[v] = payee[v]

LEMMA OthersFollow ==
  ASSUME IInv, NEW w \in Withdrawals, Others(w), UNCHANGED onboardSide, Follows(w)'
  PROVE  AccountsAreMade' /\ RowsFollow'
<1>1. AccountsAreMade'
  BY DEF IInv, AccountsAreMade, onboardSide
<1>2. ASSUME NEW v \in Withdrawals, v # w PROVE Follows(v)'
  BY <1>2 DEF IInv, RowsFollow, Follows, Others, onboardSide
<1> QED BY <1>1, <1>2 DEF RowsFollow

(* Before the money is asked for: reading the account, asking Stripe       *)
(* whether it is ready, and the debit with its row.                        *)
LEMMA CheckKeeps ==
  ASSUME IInv, NEW w \in Withdrawals, Read(w) \/ AskStripe(w) \/ Debit(w)
  PROVE  IInv'
<1> USE DEF At, Steps
<1>1. TypeOK /\ Follows(w) /\ Amount[w] \in Nat /\ UNCHANGED <<topUpSide, onboardSide>>
  BY AmountAssumption DEF IInv, RowsFollow, Read, AskStripe, Debit
<1>2. TypeOK'
  <2>1. CASE Read(w)
    BY <1>1, <2>1 DEF TypeOK, Read, topUpSide, onboardSide
  <2>2. CASE AskStripe(w)
    BY <1>1, <2>2 DEF TypeOK, AskStripe, topUpSide, onboardSide
  <2>3. CASE Debit(w)
    <3>1. balance' \in Nat
      BY <1>1, <2>3 DEF TypeOK, Debit, Covers
    <3>2. /\ pc' \in [Withdrawals -> Steps]
          /\ row' \in [Withdrawals -> {"NONE", "PENDING", "PAID", "FAILED"}]
      BY <1>1, <2>3 DEF TypeOK, Debit
    <3> QED BY <1>1, <2>3, <3>1, <3>2 DEF TypeOK, Debit, topUpSide, onboardSide
  <2> QED BY <2>1, <2>2, <2>3
<1>3. Others(w)
  BY <1>1 DEF TypeOK, Others, Read, AskStripe, Debit
<1>4. Follows(w)'
  <2>1. CASE Read(w)
    BY <1>1, <2>1 DEF TypeOK, Follows, Read, onboardSide
  <2>2. CASE AskStripe(w)
    BY <1>1, <2>2 DEF TypeOK, Follows, AskStripe, onboardSide
  <2>3. CASE Debit(w)
    BY <1>1, <2>3 DEF TypeOK, Follows, Debit, onboardSide
  <2> QED BY <2>1, <2>2, <2>3
<1> QED BY <1>1, <1>2, <1>3, <1>4, OthersFollow DEF IInv

(* The key: what Stripe has moved for a withdrawal is one transfer to the  *)
(* account the handler has seen ready, however often it was asked.         *)
LEMMA CarriedOnce ==
  ASSUME TypeOK, NEW w \in Withdrawals, Follows(w), pc[w] = "transfer"
  PROVE  \E a \in completed : a \in Accounts /\ Carried(w) = <<a>>
<1>1. completed \subseteq Accounts
  BY BoundsAssumption DEF TypeOK, Accounts
<1>2. CASE moved[w] = <<>>
  BY <1>1, <1>2 DEF Follows, Carried, Destination
<1>3. CASE moved[w] # <<>>
  BY <1>1, <1>3 DEF Follows, Carried
<1> QED BY <1>2, <1>3

(* The transfer, answered, not answered or refused.                        *)
LEMMA TransferKeeps ==
  ASSUME IInv, NEW w \in Withdrawals, Answered(w) \/ NotAnswered(w) \/ Refused(w)
  PROVE  IInv'
<1> USE DEF At, Steps
<1>1. /\ TypeOK /\ Follows(w) /\ pc[w] = "transfer"
      /\ UNCHANGED <<topUpSide, onboardSide, row, payee, balance, elsewhere>>
  BY DEF IInv, RowsFollow, Answered, NotAnswered, Refused
<1>2. PICK a \in completed : a \in Accounts /\ Carried(w) = <<a>>
  BY <1>1, CarriedOnce
<1>3. <<a>> \in Seq(Accounts) /\ <<a>> # <<>>
  BY <1>2
<1>4. /\ moved' = moved \/ moved' = [moved EXCEPT ![w] = <<a>>]
      /\ pc' \in {[pc EXCEPT ![w] = s] : s \in {"record", "transfer", "refund"}}
      /\ pc'[w] = "record" => moved' = [moved EXCEPT ![w] = <<a>>]
  BY <1>1, <1>2 DEF TypeOK, Answered, NotAnswered, Refused
<1>5. attempts' \in [Withdrawals -> 0 .. MaxAttempts] /\ failures' \in 0 .. MaxFailures
  <2>1. attempts[w] < MaxAttempts /\ attempts' = [attempts EXCEPT ![w] = @ + 1]
    BY DEF Answered, NotAnswered, Refused, Send
  <2>2. attempts[w] + 1 \in 0 .. MaxAttempts
    BY <1>1, <2>1, BoundsAssumption DEF TypeOK
  <2>3. failures' = failures \/ (failures < MaxFailures /\ failures' = failures + 1)
    BY DEF Answered, NotAnswered, Refused, Fails
  <2> QED BY <1>1, <2>1, <2>2, <2>3, BoundsAssumption DEF TypeOK
<1>6. TypeOK'
  <2>1. moved' \in [Withdrawals -> Seq(Accounts)] /\ pc' \in [Withdrawals -> Steps]
    BY <1>1, <1>3, <1>4 DEF TypeOK
  <2> QED BY <1>1, <1>5, <2>1 DEF TypeOK, topUpSide, onboardSide
<1>7. Others(w)
  BY <1>1, <1>4 DEF TypeOK, Others
<1>8. Follows(w)'
  BY <1>1, <1>2, <1>3, <1>4 DEF TypeOK, Follows, onboardSide
<1> QED BY <1>1, <1>6, <1>7, <1>8, OthersFollow DEF IInv

(* After it: the refund, the record, and a handler that dies.              *)
LEMMA EndKeeps ==
  ASSUME IInv, NEW w \in Withdrawals, Refund(w) \/ Record(w) \/ Break(w)
  PROVE  IInv'
<1> USE DEF At, Steps
<1>1. TypeOK /\ Follows(w) /\ Amount[w] \in Nat /\ UNCHANGED <<topUpSide, onboardSide>>
  BY AmountAssumption DEF IInv, RowsFollow, Refund, Record, Break
<1>2. TypeOK'
  <2>1. CASE Refund(w)
    BY <1>1, <2>1 DEF TypeOK, Refund, topUpSide, onboardSide
  <2>2. CASE Record(w)
    BY <1>1, <2>2 DEF TypeOK, Record, topUpSide, onboardSide
  <2>3. CASE Break(w)
    BY <1>1, <2>3, BoundsAssumption DEF TypeOK, Break, Fails, topUpSide, onboardSide
  <2> QED BY <2>1, <2>2, <2>3
<1>3. Others(w)
  BY <1>1 DEF TypeOK, Others, Refund, Record, Break
<1>4. Follows(w)'
  <2>1. CASE Refund(w)
    BY <1>1, <2>1 DEF TypeOK, Follows, Refund, onboardSide
  <2>2. CASE Record(w)
    BY <1>1, <2>2 DEF TypeOK, Follows, Record, onboardSide
  <2>3. CASE Break(w)
    BY <1>1, <2>3 DEF TypeOK, Follows, Break, onboardSide
  <2> QED BY <2>1, <2>2, <2>3
<1> QED BY <1>1, <1>2, <1>3, <1>4, OthersFollow DEF IInv

----------------------------------------------------------------------------
(* Every step keeps the invariant.                                         *)
LEMMA IInvNext == IInv /\ [Next]_vars => IInv'
<1> SUFFICES ASSUME IInv, [Next]_vars PROVE IInv'
  OBVIOUS
<1>1. ASSUME UNCHANGED vars PROVE IInv'
  <2>1. UNCHANGED <<onboardSide, withdrawSide, topUpSide, balance, elsewhere, failures>>
    BY <1>1 DEF vars
  <2>2. AccountsAreMade' /\ RowsFollow'
    BY <2>1, SidesKept
  <2>3. TypeOK'
    BY <2>1 DEF IInv, TypeOK, onboardSide, withdrawSide, topUpSide
  <2> QED BY <2>2, <2>3 DEF IInv
<1>2. ASSUME Next PROVE IInv'
  BY <1>2, TopUpKeeps, AuctionsKeep, OnboardKeeps, FillInKeeps, CheckKeeps, TransferKeeps, EndKeeps
  DEF Next
<1> QED BY <1>1, <1>2

(* requestWithdrawal, connectOnboard and the webhook keep the inductive    *)
(* invariant.                                                              *)
THEOREM Inductive == Spec => []IInv
BY IInvInit, IInvNext, PTL DEF Spec

(* The wallet's balance and what the auctions hold never go below zero,    *)
(* and every row, handler and account stays within its type.               *)
THEOREM Types == Spec => []TypeOK
<1>1. IInv => TypeOK
  BY DEF IInv
<1> QED BY <1>1, Inductive, PTL

(* createTransfer moves the money of a withdrawal at most once, and only   *)
(* after the debit; a withdrawal shown as PAID has left, and a request     *)
(* that comes to its end leaves no row pending.                            *)
THEOREM Transfers == Spec => []TransferredOnce
<1>1. IInv => TransferredOnce
  <2> SUFFICES ASSUME IInv, NEW w \in Withdrawals
               PROVE  /\ Len(moved[w]) <= 1
                      /\ moved[w] # <<>> => row[w] # "NONE"
                      /\ row[w] = "PAID" => moved[w] # <<>>
                      /\ pc[w] = "over" => row[w] # "PENDING"
    BY DEF TransferredOnce
  <2>1. Follows(w)
    BY DEF IInv, RowsFollow
  <2>2. Len(moved[w]) <= 1
    <3>1. CASE moved[w] = <<>>
      BY <3>1
    <3>2. CASE \E a \in completed : moved[w] = <<a>>
      BY <3>2
    <3> QED BY <2>1, <3>1, <3>2 DEF Follows
  <2> QED BY <2>1, <2>2 DEF Follows
<1> QED BY <1>1, Inductive, PTL

(* The money goes only to an account the user has completed, whatever the  *)
(* onboarding requests store meanwhile.                                    *)
THEOREM Payees == Spec => []PaidToCompleted
<1>1. IInv => PaidToCompleted
  <2> SUFFICES ASSUME IInv, NEW w \in Withdrawals, NEW i \in DOMAIN moved[w]
               PROVE  moved[w][i] \in completed
    BY DEF PaidToCompleted
  <2>1. Follows(w)
    BY DEF IInv, RowsFollow
  <2>2. PICK a \in completed : moved[w] = <<a>>
    BY <2>1 DEF Follows
  <2> QED BY <2>2
<1> QED BY <1>1, Inductive, PTL

----------------------------------------------------------------------------
(* The ledger: both sums, and how a step can change them.                  *)

Credited  == [s \in Sessions |-> IF s \in topups THEN Amount[s] ELSE 0]
Withdrawn == [w \in Withdrawals |-> IF row[w] \in {"PENDING", "PAID"} THEN Amount[w] ELSE 0]

LEMMA LedgerSums ==
  LedgerBalances <=>
    balance + elsewhere + SumFunction(Withdrawn) = Initial + SumFunction(Credited)
BY DEF LedgerBalances, Withdrawn, Credited

LEMMA LedgerSumsNext ==
  LedgerBalances' <=>
    balance' + elsewhere' + SumFunction(Withdrawn') = Initial + SumFunction(Credited')
BY DEF LedgerBalances, Withdrawn, Credited

LEMMA LedgerTypes ==
  /\ Credited \in [Sessions -> Int] /\ Withdrawn \in [Withdrawals -> Int]
  /\ SumFunction(Credited) \in Int /\ SumFunction(Withdrawn) \in Int
<1>1. Credited \in [Sessions -> Int] /\ Withdrawn \in [Withdrawals -> Int]
  BY AmountAssumption DEF Credited, Withdrawn
<1> QED BY <1>1, AmountAssumption, SumType

LEMMA LedgerTypesNext ==
  /\ Credited' \in [Sessions -> Int] /\ Withdrawn' \in [Withdrawals -> Int]
BY AmountAssumption DEF Credited, Withdrawn

(* At the start nothing is credited or withdrawn.                          *)
LEMMA LedgerInit == Init => LedgerBalances
<1> SUFFICES ASSUME Init PROVE LedgerBalances
  OBVIOUS
<1>1. Credited = [s \in Sessions |-> 0] /\ Withdrawn = [w \in Withdrawals |-> 0]
  BY DEF Init, Credited, Withdrawn
<1>2. SumFunction(Credited) = 0 /\ SumFunction(Withdrawn) = 0
  BY <1>1, SumZero, AmountAssumption
<1> QED BY <1>2, LedgerSums, AmountAssumption DEF Init

(* A new event adds its amount to the top-ups and to the balance.          *)
LEMMA CreditBalances ==
  ASSUME IInv, LedgerBalances, NEW s \in Sessions, Credit(s), UNCHANGED <<row, elsewhere>>
  PROVE  LedgerBalances'
<1>1. Withdrawn' = Withdrawn
  BY DEF Withdrawn
<1>2. CASE UNCHANGED <<topups, balance>>
  <2>1. Credited' = Credited
    BY <1>2 DEF Credited
  <2> QED BY <1>1, <1>2, <2>1, LedgerSums, LedgerSumsNext
<1>3. CASE s \notin topups /\ topups' = topups \cup {s} /\ balance' = balance + Amount[s]
  <2>1. /\ Credited[s] = 0 /\ Credited'[s] = Amount[s]
        /\ \A x \in Sessions \ {s} : Credited'[x] = Credited[x]
    BY <1>3 DEF Credited
  <2>2. SumFunction(Credited') = SumFunction(Credited) + Credited'[s] - Credited[s]
    BY <2>1, LedgerTypes, LedgerTypesNext, AmountAssumption, SumChange
  <2>3. SumFunction(Credited') = SumFunction(Credited) + Amount[s]
    BY <2>1, <2>2, LedgerTypes, AmountAssumption
  <2>4. balance \in Int /\ elsewhere \in Int /\ Amount[s] \in Int /\ Initial \in Int
    BY AmountAssumption DEF IInv, TypeOK
  <2>5. balance' + elsewhere' + SumFunction(Withdrawn') = Initial + SumFunction(Credited')
    BY <1>1, <1>3, <2>3, <2>4, LedgerTypes, LedgerSums
  <2> QED BY <2>5, LedgerSumsNext
<1> QED BY <1>2, <1>3 DEF Credit, IsNew

(* A row that comes to count, or no longer counts, as withdrawn goes with  *)
(* the money taken from the balance or given back.                         *)
LEMMA WithdrawalBalances ==
  ASSUME IInv, LedgerBalances, NEW w \in Withdrawals,
         \A v \in Withdrawals \ {w} : row'[v] = row[v],
         balance' - balance = Withdrawn[w] - Withdrawn'[w], balance' \in Int,
         UNCHANGED <<topups, elsewhere>>
  PROVE  LedgerBalances'
<1>1. Credited' = Credited
  BY DEF Credited
<1>2. \A v \in Withdrawals \ {w} : Withdrawn'[v] = Withdrawn[v]
  BY DEF Withdrawn
<1>3. SumFunction(Withdrawn') = SumFunction(Withdrawn) + Withdrawn'[w] - Withdrawn[w]
  BY <1>2, LedgerTypes, LedgerTypesNext, AmountAssumption, SumChange
<1>4. /\ balance \in Int /\ elsewhere \in Int /\ Initial \in Int
      /\ Withdrawn[w] \in Int /\ Withdrawn'[w] \in Int
  BY AmountAssumption, LedgerTypes, LedgerTypesNext DEF IInv, TypeOK
<1>5. balance + elsewhere + SumFunction(Withdrawn) = Initial + SumFunction(Credited)
  BY LedgerSums
<1>6. balance' = balance + Withdrawn[w] - Withdrawn'[w] /\ elsewhere' = elsewhere
  BY <1>4
<1>7. balance' + elsewhere' + SumFunction(Withdrawn') = Initial + SumFunction(Credited')
  BY <1>1, <1>3, <1>4, <1>5, <1>6, LedgerTypes
<1> QED BY <1>7, LedgerSumsNext

(* Every step keeps the two sides equal.                                   *)
LEMMA LedgerNext == IInv /\ LedgerBalances /\ [Next]_vars => LedgerBalances'
<1> SUFFICES ASSUME IInv, LedgerBalances, [Next]_vars PROVE LedgerBalances'
  OBVIOUS
<1>1. ASSUME UNCHANGED <<topups, row, balance, elsewhere>> PROVE LedgerBalances'
  <2>1. Withdrawn' = Withdrawn /\ Credited' = Credited
    BY <1>1 DEF Withdrawn, Credited
  <2> QED BY <1>1, <2>1, LedgerSums, LedgerSumsNext
<1>2. ASSUME NEW s \in Sessions, Webhook(s) \/ WebhookUnacknowledged(s) PROVE LedgerBalances'
  BY <1>2, CreditBalances DEF Webhook, WebhookUnacknowledged, withdrawSide
<1>3. ASSUME NEW w \in Withdrawals, Debit(w) \/ Refund(w) \/ Record(w) PROVE LedgerBalances'
  <2>1. /\ balance \in Int /\ Amount[w] \in Int /\ Follows(w)
        /\ row \in [Withdrawals -> {"NONE", "PENDING", "PAID", "FAILED"}]
    BY AmountAssumption DEF IInv, TypeOK, RowsFollow
  <2>2. UNCHANGED <<topups, elsewhere>>
    BY <1>3 DEF Debit, Refund, Record, topUpSide
  <2>3. CASE Debit(w)
    BY <2>1, <2>2, <2>3, <1>1, WithdrawalBalances DEF Debit, At, Follows, Withdrawn
  <2>4. CASE Refund(w)
    BY <2>1, <2>2, <2>4, WithdrawalBalances DEF Refund, At, Follows, Withdrawn
  <2>5. CASE Record(w)
    BY <2>1, <2>2, <2>5, WithdrawalBalances DEF Record, At, Follows, Withdrawn
  <2> QED BY <1>3, <2>3, <2>4, <2>5
<1>4. ASSUME Hold \/ GiveBack PROVE LedgerBalances'
  <2>1. /\ balance \in Int /\ elsewhere \in Int
        /\ balance' \in Int /\ elsewhere' \in Int
        /\ balance' + elsewhere' = balance + elsewhere
        /\ UNCHANGED <<topups, row>>
    BY <1>4 DEF Hold, GiveBack, IInv, TypeOK, topUpSide, withdrawSide
  <2>2. Withdrawn' = Withdrawn /\ Credited' = Credited
    BY <2>1 DEF Withdrawn, Credited
  <2>3. balance' + elsewhere' + SumFunction(Withdrawn') = Initial + SumFunction(Credited')
    BY <2>1, <2>2, LedgerSums
  <2> QED BY <2>3, LedgerSumsNext
<1>5. ASSUME NEW s \in Sessions, WebhookFails(s) \/ \E how \in {"paid", "late"} : Complete(s, how)
      PROVE  LedgerBalances'
  BY <1>1, <1>5 DEF WebhookFails, Complete, withdrawSide
<1>6. ASSUME NEW w \in Withdrawals,
             \/ Read(w) \/ AskStripe(w) \/ Answered(w) \/ NotAnswered(w) \/ Refused(w) \/ Break(w)
      PROVE  LedgerBalances'
  BY <1>1, <1>6 DEF Read, AskStripe, Answered, NotAnswered, Refused, Break, topUpSide
<1>7. ASSUME NEW p \in Pages,
             Onboard(p) \/ CreateAccount(p) \/ SaveAccount(p) \/ GiveLink(p) \/ BreakOnboard(p)
      PROVE  LedgerBalances'
  BY <1>1, <1>7
  DEF Onboard, CreateAccount, SaveAccount, GiveLink, BreakOnboard, topUpSide, withdrawSide
<1>8. ASSUME NEW a \in Accounts, FillIn(a) PROVE LedgerBalances'
  BY <1>1, <1>8 DEF FillIn, topUpSide, withdrawSide
<1>9. CASE UNCHANGED vars
  BY <1>1, <1>9 DEF vars, topUpSide, withdrawSide
<1> QED BY <1>2, <1>3, <1>4, <1>5, <1>6, <1>7, <1>8, <1>9 DEF Next

(* The rows always explain the balance: webhook, withdrawal and refund     *)
(* each write the row and the balance together, and a process that dies    *)
(* between two of them loses no money from the books.                      *)
THEOREM BooksBalance == Spec => []LedgerBalances
BY LedgerInit, LedgerNext, Inductive, PTL DEF Spec
=============================================================================
