SPECIFICATION ServicesSpec
CONSTANTS
    Report <- MCReport
    Workers = {w1, w2}
    Cap = 2
    Rejected = {"refused"}
    MaxFaults = 3
    NoText = "-"
    PatternCap = 2
    OuiOf <- MCOuiOf
    NamesUnder <- MCNamesUnder
    PerReport = 3
    Total = 2
    Unreadable = unreadable
    Cut = cut
    Pastes <- MCPastes
    NoList = nolist
    Names <- MCNames
    Assignments <- MCAssignments
    Saves = 2
    Agents = {a1}
    DayLength = 7
    TimesOfDay = {1, 5}
    Poll = 2
    Grace = 4
    MaxWork = 1
    MaxTime = 13
    MaxInterruptions = 1
    MaxEdits = 1
INVARIANTS TicketsAreBounded ExportsCarryEveryReport HuntMissesOnlyAtTheCap AuditFollowsTheNewestReport OncePerSlot SlotFires
PROPERTIES TicketsDrain
CHECK_DEADLOCK FALSE
