SPECIFICATION FairSpec
CHECK_DEADLOCK FALSE
CONSTANTS
    StableIds <- MCStable
    NumericIds <- MCNumeric
    Addresses <- MCAddresses
    TailscaleIPs <- MCAddresses
    Blank = 0
    DeviceLists <- MCLists
    Objects <- MCObjects
    Content <- MCContent
    Arrives <- MCArrives
    Unreadable = {1}
    MaxObjects = 2
    DeviceCacheRefresh = 1
    Rewrite = 2
    Retention = 3
    MaxTime = 5
    MaxFaults = 1
    MaxCrashes = 1
    PortLimit = 20
    Pseudo <- MCPseudo
    Scopes <- MCScopes
    Views <- MCViews
    MaxListChanges = 1
INVARIANTS CacheNamesResolve AddressReuseIsSafe StoredNamesResolve ScopeShowsItsPart
PROPERTIES WrittenRowsAreKept EveryObjectIsHydrated
