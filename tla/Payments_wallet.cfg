\* One session, two withdrawals and two onboarding pages of one user, with a
\* failure anywhere.
CONSTANTS
  s1 = s1
  w1 = w1
  w2 = w2
  Sessions = {s1}
  Withdrawals = {w1, w2}
  p1 = p1
  p2 = p2
  Pages = {p1, p2}
  MaxAccounts = 3
  Amount <- Amounts
  Initial = 2
  MaxAttempts = 2
  MaxFailures = 1
SPECIFICATION FairSpec
INVARIANT TypeOK
INVARIANT LedgerBalances
INVARIANT TransferredOnce
INVARIANT PaidToCompleted
PROPERTY PaidIsCredited
PROPERTY CanBePaid
CHECK_DEADLOCK FALSE
