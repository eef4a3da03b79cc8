CONSTANT MaxGen = 3
SPECIFICATION FairSpec
INVARIANTS TypeOK DoneSafe OwnConnection
PROPERTIES ReconnectCompletes CallEnds
CHECK_DEADLOCK FALSE
