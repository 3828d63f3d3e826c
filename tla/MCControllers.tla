---- MODULE MCControllers ----
(***************************************************************************)
(* Small instances of Controllers for TLC.                                 *)
(***************************************************************************)
EXTENDS Controllers, TLC

CONSTANTS c1, c2, e1, e2, d1, d2

MCNames == {"", "sales", "legal"}

\* A company of one employee, e1, who heads the one department.
Manager == [email |-> "ann@", personal_number |-> "7", password |-> Hash("default123"),
            department_id |-> d1, manager_id |-> NULL, vacation_days |-> 1,
            dates |-> "common"]

MCSeedEmployees ==
    [e \in EmployeeIds |-> IF e = e1 THEN Manager ELSE NULL]

MCSeedDepartments ==
    [d \in DepartmentIds |->
        IF d = d1 THEN [name |-> "sales", parent_id |-> NULL, head_id |-> e1] ELSE NULL]

Form(email, number, password, manager, days) ==
    [named |-> TRUE, complete |-> TRUE, email |-> email, personal_number |-> number,
     password |-> password, department_id |-> d1, manager_id |-> manager,
     vacation_days |-> days, dates |-> "common"]

\* Ann gives up the number of e1, as long as e1 is Ann; Bob wants it.  Ann
\* has no new password.
Ann == Form("ann@", NULL, NULL, NULL, 1)
Bob == Form("bob@", "7", "s3cret", e1, 0)

\* Employees only: creations and updates that collide, in every order, and
\* those turned down: nameless, or with a password bcrypt refuses.
EmployeesForms ==
    {Ann, Bob, [Ann EXCEPT !.named = FALSE],
     [Bob EXCEPT !.password = "a password of more than 72 bytes"]}

\* Where the departments vary too: an employee without a password.
Eve == Form("eve@", NULL, "", e1, 0)
DepartmentsForms == {Eve, [Eve EXCEPT !.department_id = d2],
                     [Eve EXCEPT !.complete = FALSE]}

MCDepartmentForms ==
    {[name |-> "sales", parent_id |-> d2, head_id |-> NULL],
     [name |-> "legal", parent_id |-> d1, head_id |-> e1],
     [name |-> "", parent_id |-> NULL, head_id |-> NULL]}

\* One update with and one without a new password.
PasswordForms == {Ann, [Ann EXCEPT !.password = "s3cret"]}

Symmetry == Permutations(Calls)

====
