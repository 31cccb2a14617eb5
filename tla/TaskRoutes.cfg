\* Does each route serve the requests it was written for?
SPECIFICATION Spec
CONSTANT Outcome = {"done", "missing", "error"}
INVARIANT RoutesAreReached
CHECK_DEADLOCK FALSE
