SPECIFICATION Spec
CONSTANTS
  x = x  y = y
  song1 = song1  song2 = song2  song3 = song3
  Hosts = {x, y}
  Songs = {song1, song2, song3}
  Owns <- Libraries
  Local <- Known
  MaxSockets = 3
  OneAtATime = TRUE
INVARIANTS TypeOK TablesAgree EveryPeerAsked OwnersOwn
PROPERTY RemovesNoOther
CHECK_DEADLOCK FALSE
