SPECIFICATION MarketSpec
CONSTANTS
  Prices = {1, 2}
  Amounts = {1}
  Junk = Junk
  Intervals = {1, 2, 4}
  Day = 2
  FirstMonday = 1
  Week = 4
  MonthStarts = {0, 5, 10}
  MaxDeals = 2
  Limit = 1
  StartTime = 5
  None = None
  MaxMessages = 3
  MaxTime = 6
  MaxFaults = 2
INVARIANTS MarketTypeOK NothingLeftOut AnswersFollowTopic
PROPERTY DealListSpec
CHECK_DEADLOCK FALSE
