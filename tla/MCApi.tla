---- MODULE MCApi ----
(***************************************************************************)
(* Small instances of Api for TLC.                                         *)
(***************************************************************************)
EXTENDS Api, TLC

CONSTANTS c1, c2, e1, e2, d1

\* Ann's dates were stored over gRPC: JSON does not write them.
Manager == [email |-> "ann@", personal_number |-> NULL, password |-> Hash("default123"),
            department_id |-> d1, manager_id |-> NULL, vacation_days |-> 1,
            dates |-> "far"]

MCSeedEmployees == [e \in EmployeeIds |-> IF e = e1 THEN Manager ELSE NULL]

MCSeedDepartments ==
    [d \in DepartmentIds |-> [name |-> "sales", parent_id |-> NULL, head_id |-> e1]]

\* Messages with and without vacation days; both make a form.
Message(days) ==
    [named |-> TRUE, dated |-> TRUE, email |-> "bob@", personal_number |-> NULL,
     password |-> NULL, department_id |-> d1, manager_id |-> e1,
     vacation_days |-> days, sick_days |-> 1, dates |-> "common"]

MCMessages == {Message(0), Message(1)}

MCDepartmentMessages ==
    {[name |-> "sales", described |-> TRUE, parent_id |-> d1, head_id |-> NULL]}

MCDepartmentForms == {ProtoToDepartment(message) : message \in MCDepartmentMessages}

\* Over REST zero days are zero days, and the year 0 is a year.
MCForms ==
    {ProtoToEmployee(message) : message \in MCMessages}
    \cup {[ProtoToEmployee(Message(0)) EXCEPT !.vacation_days = 0, !.dates = "zero"]}

\* Ann as she is, sent back: one form, for the liveness run.
LivenessMessages == {[EmployeeToProto(Manager, 1) EXCEPT !.dates = "common"]}

LivenessForms == {ProtoToEmployee(message) : message \in LivenessMessages}

Symmetry == Permutations(Calls)

====
