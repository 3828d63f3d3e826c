---- MODULE Tables ----
(***************************************************************************)
(* The two PostgreSQL tables of the employee service, `employees' and      *)
(* `departments', as src/migrations creates them, and what the SQL         *)
(* statements of internal/controllers do to them.  A table is a function   *)
(* from the ids its SERIAL column can hand out to a row, or to NULL where  *)
(* there is no row.  A statement runs alone (PostgreSQL autocommit), so    *)
(* each one is an operator from tables to tables; which call issues it and *)
(* when is the business of Controllers.tla.                                *)
(*                                                                         *)
(* Kept columns: the keys, the references, the password hash, the vacation *)
(* counter and how far its dates lie.  The other NOT NULL columns without  *)
(* a usable default (is_active, hire_date, sick_days) are one flag of the  *)
(* submitted form.                                                         *)
(***************************************************************************)
EXTENDS Naturals

CONSTANTS
    EmployeeIds,      \* ids employees_id_seq can hand out
    DepartmentIds,    \* ids departments_id_seq can hand out
    Emails,
    PersonalNumbers,
    Passwords,        \* plaintext passwords
    Names,            \* department names, the empty one included
    MaxDays,          \* largest value of an INTEGER column
    NULL

(***************************************************************************)
(* A bcrypt hash: it verifies one password and is not that password.       *)
(***************************************************************************)
Hash(p) == [bcrypt |-> p]

Hashes == {Hash(p) : p \in Passwords}

\* What the TIMESTAMP columns hire_date, fire_date and birthday hold: years 1
\* to 9999 only, the year 0 besides, or also a year before or after these.
Dates == {"common", "zero", "far"}

EmployeeRows ==
    [email           : Emails,
     personal_number : PersonalNumbers \cup {NULL},
     password        : Hashes,
     department_id   : DepartmentIds,
     manager_id      : EmployeeIds \cup {NULL},
     vacation_days   : 0..MaxDays,
     dates           : Dates]

DepartmentRows ==
    [name      : Names,
     parent_id : DepartmentIds \cup {NULL},
     head_id   : EmployeeIds \cup {NULL}]

EmployeeTables   == [EmployeeIds -> EmployeeRows \cup {NULL}]
DepartmentTables == [DepartmentIds -> DepartmentRows \cup {NULL}]

ASSUME MaxDaysAssumption == MaxDays \in Nat

\* NULL is no value of any column and no row.
ASSUME NullAssumption ==
    /\ NULL \notin EmployeeIds \cup DepartmentIds \cup Emails
    /\ NULL \notin PersonalNumbers \cup Passwords \cup Names \cup Nat
    /\ NULL \notin Hashes
    /\ NULL \notin EmployeeRows
    /\ NULL \notin DepartmentRows

\* The ids that have a row.
Ids(table) == {i \in DOMAIN table : table[i] # NULL}

(***************************************************************************)
(* The constraints an INSERT or UPDATE of row `id' has to meet: UNIQUE     *)
(* columns against the other rows, NOT NULL, foreign keys.  A row may      *)
(* refer to itself.                                                        *)
(***************************************************************************)
SameKey(a, b) ==
    \/ a.email = b.email
    \/ a.personal_number # NULL /\ a.personal_number = b.personal_number

EmployeeAcceptedWithoutUnique(emps, depts, id, row) ==   \* mutant
    /\ row \in EmployeeRows
    /\ row.department_id \in Ids(depts)
    /\ row.manager_id \in Ids(emps) \cup {NULL, id}

EmployeeAccepted(emps, depts, id, row) ==
    /\ row \in EmployeeRows
    /\ row.department_id \in Ids(depts)
    /\ row.manager_id \in Ids(emps) \cup {NULL, id}
    /\ \A e \in Ids(emps) \ {id} : ~ SameKey(row, emps[e])

DepartmentAcceptedWithoutUnique(emps, depts, id, row) ==   \* mutant
    /\ row \in DepartmentRows
    /\ row.parent_id \in Ids(depts) \cup {NULL, id}
    /\ row.head_id \in Ids(emps) \cup {NULL}

DepartmentAccepted(emps, depts, id, row) ==
    /\ row \in DepartmentRows
    /\ row.parent_id \in Ids(depts) \cup {NULL, id}
    /\ row.head_id \in Ids(emps) \cup {NULL}
    /\ \A d \in Ids(depts) \ {id} : row.name # depts[d].name

(***************************************************************************)
(* DELETE.  Every reference to the deleted row is ON DELETE SET NULL.      *)
(* For employees.department_id, which is NOT NULL as well, setting it      *)
(* fails and the whole DELETE is rejected: a department can only go when   *)
(* nobody works in it.                                                     *)
(***************************************************************************)
SetNull(ref, id) == IF ref = id THEN NULL ELSE ref

WithoutEmployeeNoCascade(emps, id) == [emps EXCEPT ![id] = NULL]   \* mutant

WithoutEmployee(emps, id) ==
    [e \in DOMAIN emps |->
        IF e = id \/ emps[e] = NULL THEN NULL
        ELSE [emps[e] EXCEPT !.manager_id = SetNull(@, id)]]

WithoutHead(depts, id) ==
    [d \in DOMAIN depts |->
        IF depts[d] = NULL THEN NULL
        ELSE [depts[d] EXCEPT !.head_id = SetNull(@, id)]]

DepartmentDeletableAlways(emps, id) == TRUE   \* mutant

DepartmentDeletable(emps, id) ==
    \A e \in Ids(emps) : emps[e].department_id # id

WithoutDepartment(depts, id) ==
    [d \in DOMAIN depts |->
        IF d = id \/ depts[d] = NULL THEN NULL
        ELSE [depts[d] EXCEPT !.parent_id = SetNull(@, id)]]

KnowsIgnoringPassword(emps, email, password) ==   \* mutant
    \E e \in Ids(emps) : emps[e].email = email

\* Somebody has this email and this password.
Knows(emps, email, password) ==
    \E e \in Ids(emps) : emps[e].email = email /\ emps[e].password = Hash(password)

(***************************************************************************)
(* What the constraints together promise of the tables.                    *)
(***************************************************************************)
UniqueKeysOf(emps, depts) ==
    /\ \A e, f \in Ids(emps) : e # f => ~ SameKey(emps[e], emps[f])
    /\ \A d, g \in Ids(depts) : d # g => depts[d].name # depts[g].name

ReferencesOf(emps, depts) ==
    /\ \A e \in Ids(emps) :
         /\ emps[e].department_id \in Ids(depts)
         /\ emps[e].manager_id \in Ids(emps) \cup {NULL}
    /\ \A d \in Ids(depts) :
         /\ depts[d].parent_id \in Ids(depts) \cup {NULL}
         /\ depts[d].head_id \in Ids(emps) \cup {NULL}

====
