\* The calls are counted, so a behaviour ends when they are used up.
CHECK_DEADLOCK FALSE
SPECIFICATION Spec
CONSTANTS
    p1 = p1
    p2 = p2
    a = a
    b = b
    Processes = {p1, p2}
    Payloads = {a, b}
    LogCap = 5
    MaxCalls = 4
    MaxFaults = 2
INVARIANTS
    AckedIsDurable
PROPERTIES
    ImplementsPort
