SPECIFICATION SpecGraph
CONSTANTS
    RecursionLimit = 25
INVARIANTS FiveToolRounds
