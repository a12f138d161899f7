SPECIFICATION Spec
CONSTANTS
  s1 = s1  s2 = s2  s3 = s3
  Empty = Empty  Deleted = Deleted
  Songs = {s1, s2, s3}
  Title <- Titles
  Duration <- Durations
  Album <- Albums
  Artist <- Artists
  FileName <- Files
  Lower <- LowerCase
  Lists <- SomeLists
  MaxRounds = 2
INVARIANTS TypeOK IndexIsRow ShuffledFairly ButtonTells
PROPERTIES MusicGoesOn PastIsKept
CHECK_DEADLOCK FALSE
