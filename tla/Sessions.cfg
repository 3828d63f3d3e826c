SPECIFICATION Spec
CONSTANTS
    NULL = NULL
    NoExpiry = NoExpiry
    Calls = {c1, c2}
    Sessions = {s1}
    AccessTTL = 1
    RefreshTTL = 2
    Ops = {"AuthLogin", "Protected", "LogoutREST", "LogoutGRPC"}
SYMMETRY Symmetry
INVARIANTS TypeOK LoggedOutIsRejected OnlyAccessTokensPass SessionUsable
PROPERTIES KeysGoInTime TicketsSpec
