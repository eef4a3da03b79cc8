CONSTANT MaxGen = 2
SPECIFICATION Spec
INVARIANT NotStranded
CHECK_DEADLOCK FALSE
