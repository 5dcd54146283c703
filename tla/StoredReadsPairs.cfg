SPECIFICATION Spec
CHECK_DEADLOCK FALSE
CONSTANTS
    StableIds <- MCStable
    NumericIds <- MCNumeric
    Addresses <- MCAddresses
    TailscaleIPs <- MCAddresses
    Blank = 0
    PortLimit = 20
    Batches <- MCBatches
    OldBatches <- MCOld
    Logs0 <- MCLogs
    PollEnd <- MCPollEnd
    Needs <- MCNeeds
    Openings <- MCOpenings
    Cutoffs <- MCCutoffs
    Windows <- MCWindows
    TypeLists <- MCTypeLists
    Metadata <- MCMetadata
    Logins <- MCLogins
    Scopes <- MCScopes
    Pseudo <- MCPseudo
INVARIANT PairsAreCountedOnce
