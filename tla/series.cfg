SPECIFICATION Spec
CONSTANTS
    SeriesIds = {1, 2}
    Clients = {c1, c2}
    c1 = c1
    c2 = c2
    Rules <- SomeRules
    Slots <- SomeSlots
    Far = 10
    Near = 6
    MaxOps = 4
INVARIANTS
    TypeOK
    

    
SYMMETRY ClientSymmetry
CHECK_DEADLOCK FALSE
