SPECIFICATION ZoneSpec
CONSTANTS
  GridMax = 3
  Size = 4
INVARIANT PublishedIsRight
