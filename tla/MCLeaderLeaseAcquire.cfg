CONSTANTS
    Nodes <- MCNodes
    Runners <- MCRunners
    NodeOf <- MCNodeOf
    TTL = 2
    MaxFaults = 0
    MaxRestarts = 0
SPECIFICATION Spec
PROPERTY AcquireTellsTheHolder
