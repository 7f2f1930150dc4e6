SPECIFICATION PartSpec
CONSTANTS
  RaftEntry = {a, b}
  NULL = NULL
  InitialSize = 2
  MaxIdx = 6
  NumBlocks = 14
  Names = {"a"}
  Literals = {"A"}
  Kinds = {"Number", "String", "StringReference", "Array", "Object"}
  MaxCalls = 3
  FromArray = 2
  FromObjects = 2
  MaxCount = 2
  MaxRefs = 1
  MaxAllocations = 5
  MaxDropped = 1
  Thread = {t1, t2, t3}
  Nobody = Nobody
  SocketThread = {t1, t2}
  NumDescriptors = 2
  MaxAddresses = 2
  MaxSockets = 3
  NumFiles = 3
  Limit = 2
  MaxMessages = 12
  MaxFailures = 1
INVARIANTS Shape BatchIsRun StoredIsLog TreesAreSound CompareIsEquality ParserIsRight PrinterIsRight NoOtherLeaks DescriptorsAreHeld EveryHandlerServed LatestAreKept
PROPERTIES DeleteKeepsOlder ImplementsIndexedLog SoleVoterImplementsReplicatedLog DuplicateIsIdentical ImplementsForest
CHECK_DEADLOCK FALSE
