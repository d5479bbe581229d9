\* A marker lost with the start client.
SPECIFICATION Spec
INVARIANT ErrorMeansNeverRan
CHECK_DEADLOCK FALSE
