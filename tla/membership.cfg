SPECIFICATION ScenarioSpec
CONSTANTS
  Server = {a, b, c, d}
  Foundings = {{a, b}}
  Joining = {c}
  Removable = {a, b}
  Nil = Nil
  MaxTerm = 3
  MaxLogLen = 3
INVARIANTS NodesFollowLog ElectionSafety CommitAgreement
SYMMETRY Symmetry
CHECK_DEADLOCK FALSE
