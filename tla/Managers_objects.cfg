SPECIFICATION Spec
CONSTANTS
    t1 = t1  t2 = t2
    a1 = a1  a2 = a2  a3 = a3
    Null = Null
    Threads <- MCThreads
    Addresses <- MCAddresses
    Served <- MCServed
    Scale = 32
    MaxCreates = 5
SYMMETRY Symmetry
INVARIANTS OwnedOnce IdNamesOne
PROPERTY TablesOfObjects
CHECK_DEADLOCK FALSE
