SPECIFICATION BookSpec
CONSTANTS
    MaxOrders = 3
    Prices = {1, 2, 3}
    MaxEntries = 4
PROPERTIES PriceTimePriority
CHECK_DEADLOCK FALSE
