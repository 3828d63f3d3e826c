---- MODULE Directory ----
(***************************************************************************)
(* What the controllers promise, whatever statements they are made of and  *)
(* however these interleave: a directory of employees and departments that *)
(* is whole at every moment and carries out each request in one step, or   *)
(* not at all.                                                             *)
(*                                                                         *)
(* A request is pending between its arrival and its answer.  "missing" and *)
(* "duplicate" are answered on what the tables hold at one moment of that  *)
(* time.  An update that submits no password keeps the one it recalls, at  *)
(* some moment of its own.  When the database is lost (up is FALSE) no     *)
(* request has an effect any more until the service is started again.      *)
(***************************************************************************)
EXTENDS Tables

CONSTANTS
    Calls,     \* requests under way
    Requests,  \* what a request may ask for
    Default,   \* the password of an employee created without one
    Blank,     \* the empty password
    NoName     \* the empty department name

VARIABLES
    employees, departments, usedEmployees, usedDepartments,
    phase,     \* "idle", "pending" or "done", for each request
    req,       \* what it asks for
    reply,     \* how it was answered
    kept,      \* the password hash it recalled
    up         \* the database answers

tables  == <<employees, departments, usedEmployees, usedDepartments>>
vars    == <<tables, phase, req, reply, kept, up>>

Whole(emps, depts) ==
    /\ emps \in EmployeeTables /\ depts \in DepartmentTables
    /\ UniqueKeysOf(emps, depts)
    /\ ReferencesOf(emps, depts)

\* The tables change to these, if these are whole.
Store(emps, depts) ==
    /\ Whole(emps, depts)
    /\ employees' = emps
    /\ departments' = depts

Valid(r) ==
    /\ r.op \in {"CreateEmployee", "UpdateEmployee"} => r.form.named
    /\ r.op = "RequestVacation" => r.days > 0
    /\ r.op = "CreateDepartment" => r.form.name # NoName

(***************************************************************************)
(* The effect of a pending request.                                        *)
(***************************************************************************)
\* The hash a creation or an update stores.
Password(c) ==
    LET password == req[c].form.password
    IN  CASE req[c].op = "CreateEmployee" ->
               Hash(IF password \in {NULL, Blank} THEN Default ELSE password)
          [] req[c].op = "UpdateEmployee" ->
               IF password = NULL THEN kept[c] ELSE Hash(password)

Row(c) ==
    LET form == req[c].form
    IN  [email |-> form.email, personal_number |-> form.personal_number,
         password |-> Password(c), department_id |-> form.department_id,
         manager_id |-> form.manager_id, vacation_days |-> form.vacation_days,
         dates |-> form.dates]

Hire(c) ==
    /\ req[c].op = "CreateEmployee"
    /\ \E id \in EmployeeIds \ usedEmployees :
         /\ Store([employees EXCEPT ![id] = Row(c)], departments)
         /\ usedEmployees' = usedEmployees \cup {id}
    /\ UNCHANGED usedDepartments

Change(c) ==
    /\ req[c].op = "UpdateEmployee" /\ req[c].id \in Ids(employees)
    /\ Store([employees EXCEPT ![req[c].id] = Row(c)], departments)
    /\ UNCHANGED <<usedEmployees, usedDepartments>>

Grant(c) ==
    /\ req[c].op = "RequestVacation" /\ req[c].id \in Ids(employees)
    /\ Store([employees EXCEPT ![req[c].id].vacation_days = @ + req[c].days], departments)
    /\ UNCHANGED <<usedEmployees, usedDepartments>>

Dismiss(c) ==
    /\ req[c].op = "DeleteEmployee" /\ req[c].id \in Ids(employees)
    /\ Store(WithoutEmployee(employees, req[c].id), WithoutHead(departments, req[c].id))
    /\ UNCHANGED <<usedEmployees, usedDepartments>>

Establish(c) ==
    /\ req[c].op = "CreateDepartment"
    /\ \E id \in DepartmentIds \ usedDepartments :
         /\ Store(employees, [departments EXCEPT ![id] = req[c].form])
         /\ usedDepartments' = usedDepartments \cup {id}
    /\ UNCHANGED usedEmployees

Reorganise(c) ==
    /\ req[c].op = "UpdateDepartment" /\ req[c].id \in Ids(departments)
    /\ Store(employees, [departments EXCEPT ![req[c].id] = req[c].form])
    /\ UNCHANGED <<usedEmployees, usedDepartments>>

Dissolve(c) ==
    /\ req[c].op = "DeleteDepartment" /\ req[c].id \in Ids(departments)
    /\ Store(employees, WithoutDepartment(departments, req[c].id))
    /\ UNCHANGED <<usedEmployees, usedDepartments>>

Effect(c) ==
    /\ phase[c] = "pending" /\ up
    /\ \/ Hire(c)      \/ Change(c)     \/ Grant(c) \/ Dismiss(c)
       \/ Establish(c) \/ Reorganise(c) \/ Dissolve(c)

(***************************************************************************)
(* What a pending request may find.                                        *)
(***************************************************************************)
\* The row it names, or the login it asks for, is not there.
Absent(c) ==
    CASE req[c].op \in {"GetEmployeeByID", "UpdateEmployee", "RequestVacation",
                        "DeleteEmployee"}   -> req[c].id \notin Ids(employees)
      [] req[c].op \in {"GetDepartmentByID", "UpdateDepartment",
                        "DeleteDepartment"} -> req[c].id \notin Ids(departments)
      [] req[c].op = "AuthLogin" -> ~ Knows(employees, req[c].email, req[c].password)
      [] OTHER -> FALSE

\* Another employee has the email or the personal number of its form.
Clash(c) ==
    /\ req[c].op \in {"CreateEmployee", "UpdateEmployee"}
    /\ \E e \in Ids(employees) :
         /\ SameKey(req[c].form, employees[e])
         /\ req[c].op = "UpdateEmployee" => e # req[c].id

IsRead(c) ==
    req[c].op \in {"GetEmployees", "GetEmployeeByID", "GetDepartments",
                   "GetDepartmentByID", "AuthLogin"}

----
Answer(c, r) ==
    /\ phase' = [phase EXCEPT ![c] = "done"]
    /\ reply' = [reply EXCEPT ![c] = r]

Arrive(c) ==
    /\ phase[c] = "idle"
    /\ phase' = [phase EXCEPT ![c] = "pending"]
    /\ \E r \in Requests : Valid(r) /\ req' = [req EXCEPT ![c] = r]
    /\ UNCHANGED <<tables, reply, kept, up>>

\* Turned down on arrival; a valid request only because its password cannot
\* be hashed.
Reject(c) ==
    /\ phase[c] = "idle"
    /\ \E r \in Requests :
         /\ req' = [req EXCEPT ![c] = r]
         /\ \/ ~ Valid(r) /\ Answer(c, "invalid")
            \/ /\ r.op \in {"CreateEmployee", "UpdateEmployee"}
               /\ Answer(c, "error")
    /\ UNCHANGED <<tables, kept, up>>

Recall(c) ==
    /\ phase[c] = "pending" /\ up /\ kept[c] = NULL
    /\ req[c].op = "UpdateEmployee" /\ req[c].form.password = NULL
    /\ req[c].id \in Ids(employees)
    /\ kept' = [kept EXCEPT ![c] = employees[req[c].id].password]
    /\ UNCHANGED <<tables, phase, req, reply, up>>

\* Carried out, and reported as such.
Succeed(c) ==
    /\ phase[c] = "pending"
    /\ \/ Effect(c)
       \/ up /\ IsRead(c) /\ ~ Absent(c) /\ UNCHANGED tables
    /\ Answer(c, "ok")
    /\ UNCHANGED <<req, kept, up>>

\* Without effect; a DeleteDepartment does not tell.
Fail(c) ==
    /\ phase[c] = "pending"
    /\ \/ req[c].op = "DeleteDepartment" /\ Answer(c, "ok")
       \/ req[c].op # "DeleteDepartment" /\ Answer(c, "error")
       \/ Absent(c) /\ up /\ Answer(c, "missing")
       \/ Clash(c) /\ up /\ Answer(c, "duplicate")
    /\ UNCHANGED <<tables, req, kept, up>>

\* The database is lost under a request, which may have had its effect.
Lose(c) ==
    /\ phase[c] = "pending" /\ up
    /\ up' = FALSE
    /\ Effect(c) \/ UNCHANGED tables
    /\ Answer(c, IF req[c].op = "DeleteDepartment" THEN "ok" ELSE "error")
    /\ UNCHANGED <<req, kept>>

Return(c) ==
    /\ phase[c] = "done"
    /\ phase' = [phase EXCEPT ![c] = "idle"]
    /\ req' = [req EXCEPT ![c] = NULL]
    /\ reply' = [reply EXCEPT ![c] = NULL]
    /\ kept' = [kept EXCEPT ![c] = NULL]
    /\ UNCHANGED <<tables, up>>

\* The service dies and is started again.  One of the pending requests may
\* still have its effect.
Restart ==
    /\ UNCHANGED tables \/ \E c \in Calls : Effect(c)
    /\ phase' = [c \in Calls |-> "idle"]
    /\ req' = [c \in Calls |-> NULL]
    /\ reply' = [c \in Calls |-> NULL]
    /\ kept' = [c \in Calls |-> NULL]
    /\ up' = TRUE

Init ==
    /\ Whole(employees, departments)
    /\ usedEmployees = Ids(employees) /\ usedDepartments = Ids(departments)
    /\ phase = [c \in Calls |-> "idle"]
    /\ req = [c \in Calls |-> NULL]
    /\ reply = [c \in Calls |-> NULL]
    /\ kept = [c \in Calls |-> NULL]
    /\ up = TRUE

Next ==
    \/ \E c \in Calls : \/ Arrive(c) \/ Reject(c) \/ Recall(c) \/ Succeed(c)
                        \/ Fail(c)   \/ Lose(c)   \/ Return(c)
    \/ Restart

Spec == Init /\ [][Next]_vars

====
