CONSTANTS
    a = a
    b = b
    t = t
    s1 = s1
    s2 = s2
    s3 = s3
    Calls <- MCCalls
    Tests <- MCTests
    Sessions <- MCSessions
SPECIFICATION SharedSpec
INVARIANTS DeliveredIsDurable
CHECK_DEADLOCK FALSE
