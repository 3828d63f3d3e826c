SPECIFICATION Spec
CONSTANTS
    c1 = c1
    c2 = c2
    e1 = e1
    e2 = e2
    d1 = d1
    d2 = d2
    NULL = NULL
    Calls = {c1, c2}
    Emails = {"ann@", "eve@"}
    PersonalNumbers = {"7"}
    Passwords = {"default123", ""}
    Unhashable = {}
    Default = "default123"
    Blank = ""
    NoName = ""
    Names <- MCNames
    SeedEmployees <- MCSeedEmployees
    SeedDepartments <- MCSeedDepartments
    EmployeeIds = {e1, e2}
    DepartmentIds = {d1, d2}
    MaxDays = 2
    EmployeeForms <- DepartmentsForms
    DepartmentForms <- MCDepartmentForms
    Days = {1}
    Ops = {"CreateEmployee", "DeleteEmployee", "GetDepartments", "GetDepartmentByID", "AuthLogin", "CreateDepartment", "UpdateDepartment", "DeleteDepartment"}
SYMMETRY Symmetry
INVARIANTS UniqueKeys NoDanglingReferences ReplyTruthful
PROPERTIES NoResurrection DirectorySpec
