---- MODULE MCService ----
(***************************************************************************)
(* Small instances of Service for TLC.                                     *)
(***************************************************************************)
EXTENDS Service, TLC

CONSTANTS e1, d1

\* Ann is the only employee.
Ann == [email |-> "ann@", personal_number |-> NULL, password |-> Hash("default123"),
        department_id |-> d1, manager_id |-> NULL, vacation_days |-> 1,
        dates |-> "common"]

MCSeedEmployees == [e \in EmployeeIds |-> IF e = e1 THEN Ann ELSE NULL]

MCSeedDepartments ==
    [d \in DepartmentIds |-> [name |-> "sales", parent_id |-> NULL, head_id |-> NULL]]

\* Her access token, or nothing.
MCPresents ==
    {[bearer |-> TRUE, jwt |-> [session |-> s, kind |-> "access"]] : s \in Sessions}
    \cup {[bearer |-> FALSE, jwt |-> NULL]}

Symmetry == Permutations(Calls)

====
