SPECIFICATION Spec
CONSTANTS
  Users = {1}
  MaxOrders = 2
  WriterShards = 2
  Shards = 3
  MaxPending = 5
  MaxFailures = 1
  ReaderShards = 3
  MaxLimit = 1
  Pools <- MCPools
  Methods = {"order.finished_detail", "order.cancel", "order.put_stop"}
  Questions <- MCQuestions
  Asked <- MCAsked
  MaxRequests = 1
  MaxOutages = 1
INVARIANTS TypeOK LostInCompany AnswersHold
PROPERTY PoolsFollow
CHECK_DEADLOCK FALSE
