SPECIFICATION Spec
CONSTANTS
  L = L
  p1 = p1
  p2 = p2
  Peers <- PeerOrder
  Nil = Nil
  Starts <- TwoTerms
  MaxKnown = 2
  MaxConflict = 2
  MaxEntries = 0
  MaxInFlight = 1
  MaxDrops = 1
PROPERTIES VoteIsKept
