SPECIFICATION Spec
PROPERTIES LocksHandedOn CallsReturn
\* the components stop when what they were asked for is done
CHECK_DEADLOCK FALSE
