CONSTANTS
    MaxRetries = 2
    DefaultDelay = 5
    OtherDelay = 1
SPECIFICATION Spec
INVARIANT ArgumentsAreKept
