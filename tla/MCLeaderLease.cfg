CONSTANTS
    Nodes <- MCNodes
    Runners <- MCPair
    NodeOf <- MCNodeOfPair
    TTL = 2
    MaxFaults = 1
    MaxRestarts = 1
SPECIFICATION FairSpec
INVARIANT
    SoleLeaderWithinTTL
PROPERTIES
    LeadershipRecovers
    DeadLeaderReplaced
    KeepsTheGate
