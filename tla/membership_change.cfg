SPECIFICATION Spec
CONSTANTS
  Server = {a, b, c, d}
  Foundings = {{a, b, c, d}}
  Joining = {}
  Removable = {a, b}
  Nil = Nil
  MaxTerm = 3
  MaxLogLen = 1
INVARIANTS CommittedIsKept
CHECK_DEADLOCK FALSE
