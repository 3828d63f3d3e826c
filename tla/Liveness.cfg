SPECIFICATION FairApiSpec
CONSTANTS
    c1 = c1
    c2 = c2
    e1 = e1
    e2 = e2
    d1 = d1
    NULL = NULL
    Calls = {c1, c2}
    Emails = {"ann@"}
    PersonalNumbers = {"7"}
    Passwords = {"default123", ""}
    Unhashable = {}
    Default = "default123"
    Blank = ""
    NoName = ""
    Names = {"", "sales"}
    SeedEmployees <- MCSeedEmployees
    SeedDepartments <- MCSeedDepartments
    EmployeeIds = {e1}
    DepartmentIds = {d1}
    MaxDays = 2
    EmployeeMessages <- LivenessMessages
    DepartmentMessages <- MCDepartmentMessages
    Doors = {"rest", "grpc"}
    EmployeeForms <- LivenessForms
    DepartmentForms <- MCDepartmentForms
    Days = {1}
    Ops = {"GetEmployees", "GetEmployeeByID", "UpdateEmployee", "AuthLogin"}
PROPERTIES EveryRequestEnds EveryCallReturns
