SPECIFICATION Spec
CONSTANTS
    min = 0
    max = 7
    Top = 9
INVARIANTS TypeOK FirstUnused
PROPERTIES PoolSpec
