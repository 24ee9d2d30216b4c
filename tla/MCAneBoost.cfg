SPECIFICATION BoostSpec
CONSTANT MaxIdle = 3
CHECK_DEADLOCK FALSE
PROPERTY BoostDrops
