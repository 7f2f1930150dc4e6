SPECIFICATION ScenarioSpec
CONSTANTS
  Server = {s1, s2, s3}
  Value = {v1}
  Nil = Nil
  MaxElections = 2
  MaxLogLen = 2
  MaxHeartbeats = 1
  MaxRestarts = 1
  MaxFaults = 1
SYMMETRY Symmetry
INVARIANTS TypeOK ElectionSafety VotesAreSound LeaderHint LogMatching DecidedIsDurable LeaderCompleteness MatchIsReplicated AssertsHold
PROPERTIES VoteOncePerTerm ImplementsReplicatedLog
