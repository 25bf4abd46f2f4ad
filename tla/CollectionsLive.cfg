SPECIFICATION FairSpec
CONSTANTS
    Task = {t1, t2, t3}
    Name = {default, other}
    DefaultName = default
    MaxWrites = 0
    MaxRestarts = 0
    MaxOpens = 3
PROPERTY EveryRequestEnds
