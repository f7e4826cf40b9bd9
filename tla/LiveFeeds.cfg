SPECIFICATION FairFeedsSpec
CONSTANTS
    fanout = fanout
    client = client
    Feed = {"insight_detected", "kpi_pending_review"}
    Reader = {fanout, client}
    Fanout = {fanout}
    Watches <- MCWatches
    RoleOf <- MCRoleOf
    User = {"ana", "max"}
    ReadCount = 2
    MaxMessages = 2
    MaxStarts = 2
    MaxUpdates = 1
    MaxFaults = 1
INVARIANT
    FeedsAreSound
PROPERTIES
    AudienceIsNotified
CHECK_DEADLOCK FALSE
