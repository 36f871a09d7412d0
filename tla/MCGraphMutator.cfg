CONSTANTS
    VTypes = {1, 2}
    Nodes <- MCNodes
    Scenarios <- MCScenarios
    MaxRepeat = 2
    MaxSplice = 2
SPECIFICATION Spec
INVARIANTS
    
    
    CopiesKeepTheirLinks
CHECK_DEADLOCK FALSE
