SPECIFICATION FairSpec
CONSTANTS
  a = a  b = b  c = c
  Nodes = {a, b, c}
  Links <- FanOut
  Fragile <- ToB
  Size <- Sizes
  MaxPushed = 2
  Window = 2
  MaxWrites = 1
  Prompt = TRUE
INVARIANT TypeOK
PROPERTIES DeliversInOrder EventuallyReceived
CHECK_DEADLOCK FALSE
