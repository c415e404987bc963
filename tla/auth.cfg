SPECIFICATION FairSpec
CONSTANTS
    Client = {c1, c2}
    Key = {k1}
    Routes <- SomeRoutes
    Grants <- SplitScopes
    TTL = 2
    MaxLookup = 1
PROPERTIES
    StalenessIsBounded
    KeysOpenTheirRoutes
    CacheFollowsTable
CHECK_DEADLOCK FALSE
