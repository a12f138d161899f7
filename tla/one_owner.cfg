SPECIFICATION FairSpec
CONSTANTS
  p1 = p1  p2 = p2  p3 = p3
  song1 = song1  song2 = song2
  NoFile = NoFile
  Peers = {p1}
  Files = {song1}
  Owners <- OneOwner
  Holds <- AllHold
  FileSize <- Sizes
  Missing = {}  Unreadable = {}
  Leavers <- NoLeavers
  Garbage = {0}
  Chunk = 2
  NumSegments = 6
  MaxSessions = 1
  MaxPauses = 0
  MaxOthers = 0
INVARIANTS TypeOK QueueBytesExact NothingThrownAway
PROPERTY EventuallyEnds
CHECK_DEADLOCK FALSE
