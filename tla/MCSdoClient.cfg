SPECIFICATION FairSpec
CONSTANTS
  Objects = {"a", "b"}
  Dicts <- KindsOfObjects
  Versions = {1, 2}
  Byte = 4
  MaxRequests = 2
  MaxReplies = 1
INVARIANTS ReadIsRight WrittenIsWhole WriteHasArrived
PROPERTY CallsReturn
