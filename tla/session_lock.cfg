SPECIFICATION Spec
PROPERTY AccountReturns
CHECK_DEADLOCK FALSE
