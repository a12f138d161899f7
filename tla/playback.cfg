SPECIFICATION Spec
CONSTANTS
  song = song  tune = tune  noise = noise  far = far
  Songs = {song, tune, noise, far}
  Kind <- Kinds
  Readable = {tune}
  Duration <- Durations
  LyricFile <- Files
  NoLyrics = NoLyrics
  Empty = Empty
  Word = 1048576
  Second = 1000
  ByteRate = 4
  MaxBufSize = 3
  Back = 1000
  Ahead = 1500
  Step = 500
  Patient = TRUE
  Scrolls = FALSE
INVARIANTS TypeOK PlayingIsCurrent LyricNotAhead PushedIsWhole
CHECK_DEADLOCK FALSE
