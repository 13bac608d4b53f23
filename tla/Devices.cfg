SPECIFICATION Spec
INVARIANTS TransfersIntact OpenOnesStay CardsWellAttached
PROPERTIES TimeAndCounts
CHECK_DEADLOCK FALSE
