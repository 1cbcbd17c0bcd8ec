\* One auction, three bidders: the whole life of a sale.
CONSTANTS
  seller = seller
  ann = ann
  bob = bob
  cam = cam
  a1 = a1
  a2 = a2
  NoOne = NoOne
  Users = {seller, ann, bob, cam}
  Auctions = {a1}
  Requests = {1}
  Owner <- OneOwner
  StartingPrices = {1000}
  BidAmounts = {900, 2400, 2500, 2600, 2700, 6000}
  FundAmounts = {5000}
  InitialBalance <- OneDeposit
  Duration = 2
  AntiSnipe = 1
  ExtendBy = 1
  PaymentWindow = 2
  CommitLag = 1
  MaxTime = 14
  LastReview = 0
  MaxLag = 1
  MaxFunding = 0
SPECIFICATION Spec
INVARIANT TypeOK
INVARIANT BidsAreOrdered
INVARIANT SecondChanceIsFair
INVARIANT PaidInFull
INVARIANT OneOpenOrder
PROPERTY PriceAndEndOnlyRise
PROPERTY DepositFate
PROPERTY SaleIsFinal
PROPERTY KeepsPromise
SYMMETRY BiddersAlike
CHECK_DEADLOCK FALSE
