SPECIFICATION FairSpec
CONSTANTS
    NULL = NULL
    NoExpiry = NoExpiry
    Calls = {c1}
    Sessions = {s1, s2}
    AccessTTL = 1
    RefreshTTL = 0
    Ops = {"AuthLogin", "LogoutREST"}
INVARIANTS SessionUsable ForeverKeysAreDead
PROPERTY SessionsEnd
