SPECIFICATION BoundedSpec
CONSTANTS
  L = L
  p1 = p1
  p2 = p2
  Peers <- PeerOrder
  Nil = Nil
  Starts <- FewEntries
  MaxKnown = 0
  MaxConflict = 2
  MaxEntries = 2
  MaxInFlight = 1
  MaxDrops = 1
INVARIANTS AppliedAgreement CommittedCanBeApplied MatchIsHeldInOneTerm
PROPERTIES EverybodyCatchesUp
CHECK_DEADLOCK FALSE
