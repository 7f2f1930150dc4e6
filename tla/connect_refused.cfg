SPECIFICATION Spec
CONSTANTS
  Thread = {t1, t2}
  NumDescriptors = 2
  MaxAddresses = 2
  MaxSockets = 3
INVARIANTS ConnectedIsOpen
CHECK_DEADLOCK FALSE
