CONSTANTS
    id1 = id1
    id2 = id2
    Ids <- MCIds
    MaxTime <- MCMaxTime
    Percentiles <- MCPercentiles
    MaxPoints <- MCMaxPoints
    MaxRestarts = 1
SPECIFICATION AccumSpec
SYMMETRY Symmetry
INVARIANTS
    WindowsAddUp
PROPERTIES
    ReportsPercentiles
