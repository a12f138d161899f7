SPECIFICATION Spec
CONSTANTS
  p1 = p1  p2 = p2  p3 = p3
  song1 = song1  song2 = song2
  NoFile = NoFile
  Peers = {p1, p2, p3}
  Files = {song1, song2}
  Owners <- OddOwners
  Holds <- P3FindsNone
  FileSize <- OddSizes
  Missing <- Deleted
  Unreadable <- Locked
  Leavers <- P2Leaves
  Garbage = {0, 2}
  Chunk = 2
  NumSegments = 4
  MaxSessions = 1
  MaxPauses = 0
  MaxOthers = 1
PROPERTY DeliversTheSong
CHECK_DEADLOCK FALSE
