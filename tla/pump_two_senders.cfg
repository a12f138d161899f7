SPECIFICATION Spec
CONSTANTS
  a = a  b = b  c = c
  Nodes = {a, b, c}
  Links <- FanIn
  Fragile <- Sturdy
  Size <- Sizes
  MaxPushed = 1
  Window = 2
  MaxWrites = 1
  Prompt = TRUE
PROPERTY DeliversInOrder
CHECK_DEADLOCK FALSE
