SPECIFICATION Spec
CONSTANTS
  L = L
  p1 = p1
  p2 = p2
  Peers <- PeerOrder
  Nil = Nil
  Starts <- TwoTerms
  MaxKnown = 2
  MaxConflict = 0
  MaxEntries = 1
  MaxInFlight = 2
  MaxDrops = 0
INVARIANTS HeldUntilThen
