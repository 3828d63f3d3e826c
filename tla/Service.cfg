SPECIFICATION ServiceSpec
CONSTANTS
    e1 = e1
    d1 = d1
    NULL = NULL
    NoExpiry = NoExpiry
    Calls = {c1, c2}
    Emails = {"ann@"}
    PersonalNumbers = {"7"}
    Passwords = {"default123", ""}
    Unhashable = {}
    Default = "default123"
    Blank = ""
    NoName = ""
    Names = {"", "sales"}
    SeedEmployees <- MCSeedEmployees
    SeedDepartments <- MCSeedDepartments
    EmployeeIds = {e1}
    DepartmentIds = {d1}
    MaxDays = 1
    EmployeeMessages = {}
    DepartmentMessages = {}
    Doors = {"rest"}
    EmployeeForms = {}
    DepartmentForms = {}
    Days = {}
    Ops = {"AuthLogin", "DeleteEmployee"}
    Sessions = {s1}
    AccessTTL = 1
    RefreshTTL = 1
    Presents <- MCPresents
    SessionOps = {"AuthLogin", "Protected", "LogoutREST", "LogoutGRPC"}
SYMMETRY Symmetry
PROPERTIES MintedForOwner DeletedIsLockedOut AdmittedRightly
