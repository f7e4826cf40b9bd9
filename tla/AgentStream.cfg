SPECIFICATION FairSpec
CONSTANTS
    w1 = w1
    w2 = w2
    passed = passed
    refreshed = refreshed
    Message = {"m"}
    Stream = {passed, refreshed}
    Group = {"kpi-agent"}
    Worker = {w1, w2}
    GroupOf <- MCGroupOf
    Subscribed <- MCSubscribed
    Count = 2
    MaxEntries = 2
    MaxDeaths = 2
INVARIANT
    DeliveryIsSound
PROPERTY
    EveryEntryHandled
CHECK_DEADLOCK FALSE
