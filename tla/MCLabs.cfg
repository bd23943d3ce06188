CONSTANTS
  Free = free
  MaxSpurious <- MCMaxSpurious
  SLOTS <- MCSLOTS
  ITEMS <- MCITEMS
  MAX_COUNT <- MCMAX_COUNT
  RatingFiles <- MCRatingFiles
  Inputs <- MCInputs
  QUEUE_MAX <- MCQUEUE_MAX
  NUM_RESOURCES <- MCNUM_RESOURCES
  Requests <- MCRequests
  N <- MCN
  Nodes <- MCNodes
  PUSHES <- MCPUSHES
  WRITES <- MCWRITES
  Numbers <- MCNumbers
  ANS = ANS
  MAX_LINES <- MCMAX_LINES
SPECIFICATION Spec
INVARIANTS
  NothingLost
  ResourcesKept
  UpdatesBounded
PROPERTIES
  ComesToRest
CHECK_DEADLOCK FALSE
