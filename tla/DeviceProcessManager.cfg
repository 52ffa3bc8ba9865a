SPECIFICATION Spec
CONSTANTS
    c1 = c1
    c2 = c2
    d1 = d1
    d2 = d2
    add = add
    mul = mul
    Clients = {c1, c2}
    Devices = {d1, d2}
    Names = {add, mul}
    KernelNameSet = {add}
    ProfSkipTimes = 1
    ProfMaxTimes = 2
    CounterMod = 4
    MaxLaunches = 5
    MaxRounds = 2
SYMMETRY Symmetry
INVARIANTS
    SelectionExact
    PathsUnique
PROPERTIES
    CompleteWhenTold
\* The bounds on rounds and launches end every behaviour.
CHECK_DEADLOCK FALSE
