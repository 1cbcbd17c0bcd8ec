\* One auction, two bidders, two open pages that come and go.
CONSTANTS
  a1 = a1
  ann = ann
  bob = bob
  s1 = s1
  s2 = s2
  Nobody = Nobody
  Auctions = {a1}
  Users = {ann, bob}
  Screens = {s1, s2}
  MaxBids = 3
SPECIFICATION Spec
INVARIANT TypeOK
INVARIANT ChannelsMatchStreams
INVARIANT ToldOnce
INVARIANT ScreensAreCurrent
PROPERTY SeesTheEnd
CHECK_DEADLOCK FALSE
