CONSTANT MaxGen = 2
SPECIFICATION FairSpec
PROPERTY StartupEnds
CHECK_DEADLOCK FALSE
