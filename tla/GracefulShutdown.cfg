\* The shutdown that the documentation describes.
SPECIFICATION Spec
CONSTANT
    MaxInFlight = 1
INVARIANT
    GracefulShutdown
CHECK_DEADLOCK FALSE
