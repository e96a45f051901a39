SPECIFICATION FairSpec
CONSTANTS
  x = x
  y = y
  big = big
  late = late
  other = other
  index = index
  Requests = {big, late, other, index}
  Caller <- CallerOf
  Rank <- RankOf
  Priority <- PriorityOf
  Chunks <- ChunksOf
  Size <- SizeOf
  Bypass = {index}
  Capacity = 2
  BufferSize = 3
CHECK_DEADLOCK FALSE
INVARIANT AccountsBalance
INVARIANT SleepsOnlyWhenBlocked
PROPERTY EveryRequestEnds
