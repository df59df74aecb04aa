SPECIFICATION FairSpec
CONSTANTS
  Docs = 3
  Room = 4
  BufUnits = 3
INVARIANTS WholeLists
PROPERTY ServerKeepsAnswering
