SPECIFICATION Spec
CONSTANTS
    s1 = s1
    r1 = r1
    r2 = r2
    Session = {s1}
    Context = {"kpi", "report"}
    NoContext = NoContext
    Req = {r1, r2}
    NoReq = NoReq
    Window = 3
    Snippet = 2
    MaxStarts = 4
    MaxFaults = 1
INVARIANT
    ConversationsAreSound
PROPERTY
    RequestsEnd
CHECK_DEADLOCK FALSE
