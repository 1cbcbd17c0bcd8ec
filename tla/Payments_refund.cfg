\* Whether money that was refunded may have left.
CONSTANTS
  s1 = s1
  w1 = w1
  w2 = w2
  Sessions = {s1}
  Withdrawals = {w1, w2}
  p1 = p1
  p2 = p2
  Pages = {p1}
  MaxAccounts = 2
  Amount <- Amounts
  Initial = 2
  MaxAttempts = 2
  MaxFailures = 2
SPECIFICATION Spec
INVARIANT RefundedMeansNotSent
CHECK_DEADLOCK FALSE
