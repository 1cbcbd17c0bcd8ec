\* The same instance: which statuses an approval may overwrite.
CONSTANTS
  seller = seller
  ann = ann
  bob = bob
  cam = cam
  a1 = a1
  a2 = a2
  NoOne = NoOne
  Users = {seller, ann, bob}
  Auctions = {a1}
  Requests = {1, 2}
  Owner <- OneOwner
  StartingPrices = {1000, 3000}
  BidAmounts = {1000, 3000}
  FundAmounts = {5000}
  InitialBalance <- OneDeposit
  Duration = 1
  AntiSnipe = 1
  ExtendBy = 1
  PaymentWindow = 1
  CommitLag = 0
  MaxTime = 8
  LastReview = 1
  MaxLag = 1
  MaxFunding = 0
SPECIFICATION Spec
PROPERTY OnlyPendingGoesLive
CHECK_DEADLOCK FALSE
