SPECIFICATION Spec
CONSTANTS
    Task = {t1, t2, t3}
    Name = {default, other}
    DefaultName = default
    MaxWrites = 2
    MaxRestarts = 1
    MaxOpens = 3
SYMMETRY Symmetry
INVARIANTS
    OneEnginePerDirectory
    ReadsAreCurrent
    WritesAddUp
    ListIsComplete
