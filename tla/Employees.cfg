SPECIFICATION Spec
CONSTANTS
    c1 = c1
    c2 = c2
    e1 = e1
    e2 = e2
    d1 = d1
    d2 = d2
    NULL = NULL
    Calls = {c1, c2}
    Emails = {"ann@", "bob@", "eve@"}
    PersonalNumbers = {"7"}
    Passwords = {"default123", "", "s3cret", "a password of more than 72 bytes"}
    Unhashable = {"a password of more than 72 bytes"}
    Default = "default123"
    Blank = ""
    NoName = ""
    Names <- MCNames
    SeedEmployees <- MCSeedEmployees
    SeedDepartments <- MCSeedDepartments
    EmployeeIds = {e1, e2}
    DepartmentIds = {d1}
    MaxDays = 2
    EmployeeForms <- EmployeesForms
    DepartmentForms = {}
    Days = {0, 1}
    Ops = {"GetEmployees", "GetEmployeeByID", "CreateEmployee", "RequestVacation", "UpdateEmployee", "DeleteEmployee"}
SYMMETRY Symmetry
INVARIANTS TypeOK UniqueKeys NoDanglingReferences ReplyTruthful PasswordsWereGiven
PROPERTIES NoResurrection DirectorySpec
