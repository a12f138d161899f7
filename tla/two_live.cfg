SPECIFICATION FairSpec
CONSTANTS
  p1 = p1  p2 = p2  p3 = p3
  song1 = song1  song2 = song2
  NoFile = NoFile
  Peers = {p1, p2}
  Files = {song1}
  Owners <- TwoOwners
  Holds <- AllHold
  FileSize <- Sizes
  Missing = {}  Unreadable = {}
  Leavers <- NoLeavers
  Garbage = {0}
  Chunk = 2
  NumSegments = 8
  MaxSessions = 1
  MaxPauses = 0
  MaxOthers = 0
PROPERTY LastSegmentRequested
CHECK_DEADLOCK FALSE
