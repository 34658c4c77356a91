SPECIFICATION Spec
CONSTANTS
    Routes = {r1}
    Hub = Hub
    Claude = {p1}
    Codex = {p2}
    Remote = {p4}
    TTL = 2
    ScanMax = 1
    Timeout = 2
    TermWait = 1
    None = None
INVARIANT LookupBounded
PROPERTY NothingPassedOver
PROPERTY NoHelperLeft
