SPECIFICATION Spec
CHECK_DEADLOCK FALSE
CONSTANTS
    StableIds <- MCStable
    NumericIds <- MCNumeric
    Addresses <- MCAddresses
    TailscaleIPs <- MCAddresses
    Blank = 0
    DeviceLists <- MCBusyLists
    Objects <- MCBusyObjects
    Content <- MCBusyContent
    Arrives <- MCBusyArrives
    Unreadable = {}
    MaxObjects = 2
    DeviceCacheRefresh = 1
    Rewrite = 2
    Retention = 4
    MaxTime = 7
    MaxFaults = 0
    MaxCrashes = 0
    PortLimit = 20
    Pseudo <- MCPseudo
    Scopes <- MCScopes
    Views <- MCViews
    MaxListChanges = 0
PROPERTIES ListedRowsAreKept
