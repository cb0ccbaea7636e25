CONSTANTS
    a = a
    b = b
    c = c
    Services = {a, b, c}
    Confs <- MCConfs
    MaxGen = 2
    MaxFaults = 1
SPECIFICATION Spec
CHECK_DEADLOCK FALSE
INVARIANTS
    TypeOK
    BootInOrder
    BooksAreKept
    StopsInReverse
 
