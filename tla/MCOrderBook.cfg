SPECIFICATION BookSpec
CONSTANTS
    MaxOrders = 4
    Prices = {1, 2, 3}
    MaxEntries = 4
INVARIANTS BookTypeOK BookOrdersAreQueued
PROPERTIES SidesImplementBag
CHECK_DEADLOCK FALSE
