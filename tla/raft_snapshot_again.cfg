SPECIFICATION Spec
CONSTANTS
  L = L
  p1 = p1
  p2 = p2
  Peers <- PeerOrder
  Nil = Nil
  Starts <- NoEntries
  MaxKnown = 0
  MaxConflict = 0
  MaxEntries = 3
  MaxInFlight = 2
  MaxDrops = 1
INVARIANTS HeldUnlessLate
