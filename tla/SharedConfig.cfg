SPECIFICATION Spec
PROPERTY ReloadEnds
CHECK_DEADLOCK FALSE
