SPECIFICATION Spec
CONSTANTS
  Objects = {"a", "b"}
  Dicts <- KindsOfObjects
  Versions = {1, 2}
  Byte = 4
  MaxRequests = 2
  MaxReplies = 1
INVARIANT TimeoutThrows
