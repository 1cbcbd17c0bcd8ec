\* Two auctions of different owners who also bid; two transactions at a time.
CONSTANTS
  seller = seller
  ann = ann
  bob = bob
  cam = cam
  a1 = a1
  a2 = a2
  t1 = t1
  t2 = t2
  NoOne = NoOne
  Users = {seller, ann, bob, cam}
  Auctions = {a1, a2}
  Txns = {t1, t2}
  Requests = {1}
  Owner <- CrossOwner
  StartingPrices = {1000}
  BidAmounts = {1000, 6000}
  FundAmounts = {}
  InitialBalance <- OneDeposit
  Duration = 1
  AntiSnipe = 0
  ExtendBy = 0
  PaymentWindow = 1
  CommitLag = 0
  MaxTime = 3
  LastReview = 0
  MaxLag = 1
  MaxFunding = 0
SPECIFICATION RowSpec
INVARIANT LockedBacksDeposits
INVARIANT NoOverdraft
INVARIANT MoneyConserved
INVARIANT NoSurpriseWaits
PROPERTY ActsAtomically
SYMMETRY Alike
CHECK_DEADLOCK FALSE
