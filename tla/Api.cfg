SPECIFICATION ApiSpec
CONSTANTS
    c1 = c1
    c2 = c2
    e1 = e1
    e2 = e2
    d1 = d1
    NULL = NULL
    Calls = {c1, c2}
    Emails = {"ann@", "bob@"}
    PersonalNumbers = {"7"}
    Passwords = {"default123", ""}
    Unhashable = {}
    Default = "default123"
    Blank = ""
    NoName = ""
    Names = {"", "sales"}
    SeedEmployees <- MCSeedEmployees
    SeedDepartments <- MCSeedDepartments
    EmployeeIds = {e1, e2}
    DepartmentIds = {d1}
    MaxDays = 2
    EmployeeMessages <- MCMessages
    DepartmentMessages <- MCDepartmentMessages
    Doors = {"rest", "gateway"}
    EmployeeForms <- MCForms
    DepartmentForms <- MCDepartmentForms
    Days = {1}
    Ops = {"UpdateEmployee", "RequestVacation", "DeleteEmployee", "DeleteDepartment"}
SYMMETRY Symmetry
INVARIANTS ApiTypeOK ReadBackHarmless
PROPERTIES AnswersTruthful RequestsGetOn
