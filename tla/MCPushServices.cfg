SPECIFICATION Spec
CONSTANTS
  Deals <- MCDeals
  Cap = 2
  Sessions = {s1}
  Workers = 2
  Users = {1, 2}
  Themes <- MCThemes
  MaxRequests <- MCRequests
  MaxEvents = 1
  MaxVersion = 1
  MaxFaults = 1
  NotifyCap = 1
  Nobody = 0
INVARIANTS TypeOK  FeedAgrees
 
CHECK_DEADLOCK FALSE
