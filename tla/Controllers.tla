---- MODULE Controllers ----
(***************************************************************************)
(* internal/controllers/employee.go and departament.go, and the query of   *)
(* auth.go: the calls the REST and gRPC handlers make, running             *)
(* concurrently, each one goroutine, over the tables of Tables.tla.        *)
(*                                                                         *)
(* All calls share the one *pgx.Conn that cmd/main.go puts in Dependens.   *)
(* It carries one statement at a time: a second goroutine that issues one  *)
(* meanwhile gets "conn busy" back.  A broken connection stays closed,     *)
(* nothing reconnects it.  A call of several statements gives the          *)
(* connection up between them, which is where others get in.               *)
(*                                                                         *)
(* A call goes idle -> (the statement it is at) -> done -> idle.  Where it *)
(* is is pc; what it is to do is req; hash is the password hash it holds.  *)
(***************************************************************************)
EXTENDS Tables

CONSTANTS
    Calls,            \* goroutines serving a request
    Ops,              \* operations the clients of a run use
    EmployeeForms,    \* entity.Employee values a client may submit
    DepartmentForms,  \* entity.Department values a client may submit
    Days,             \* vacation days a client may request
    Unhashable,       \* passwords bcrypt refuses (over 72 bytes)
    Default,          \* "default123"
    Blank,            \* the empty password
    NoName,           \* the empty department name
    SeedEmployees,    \* the tables the service starts on
    SeedDepartments

ReadOps  == {"GetEmployees", "GetEmployeeByID", "GetDepartments", "GetDepartmentByID",
             "AuthLogin"}
WriteOps == {"CreateEmployee", "RequestVacation", "UpdateEmployee", "DeleteEmployee",
             "CreateDepartment", "UpdateDepartment", "DeleteDepartment"}

Statements == {"password", "count", "write", "read"}
Replies    == {"ok", "missing", "duplicate", "invalid", "error"}

\* named: first name, last name and email are given; complete: so are
\* is_active, hire_date and sick_days, NOT NULL columns the controllers
\* always write explicitly.
AnyEmployeeForm ==
    [named : BOOLEAN, complete : BOOLEAN, email : Emails,
     personal_number : PersonalNumbers \cup {NULL},
     password        : Passwords \cup {NULL},
     department_id   : DepartmentIds \cup {NULL},
     manager_id      : EmployeeIds \cup {NULL},
     vacation_days   : Nat \cup {NULL},
     dates           : Dates]

ASSUME FormsAssumption ==
    /\ EmployeeForms \subseteq AnyEmployeeForm
    /\ DepartmentForms \subseteq DepartmentRows
    /\ Days \subseteq Nat
    /\ Ops \subseteq ReadOps \cup WriteOps

ASSUME PasswordsAssumption ==
    /\ {Default, Blank} \subseteq Passwords
    /\ Default \notin Unhashable

ASSUME CallsAssumption == Calls \cap {"idle", "closed"} = {}

ASSUME SeedAssumption ==
    /\ SeedEmployees \in EmployeeTables
    /\ SeedDepartments \in DepartmentTables
    /\ UniqueKeysOf(SeedEmployees, SeedDepartments)
    /\ ReferencesOf(SeedEmployees, SeedDepartments)

VARIABLES
    employees,     \* the tables
    departments,
    usedEmployees, \* ids the SERIAL columns have handed out
    usedDepartments,
    conn,          \* the shared connection: "idle", "closed" or the call
                   \* whose statement it carries
    pc,            \* where each call is
    req,           \* what each call is to do
    hash,          \* the password hash each call holds
    reply,         \* what each call returns
    wrote,         \* history: the call's INSERT, UPDATE or DELETE landed
    given          \* history: hashes made for each employee id

tables == <<employees, departments, usedEmployees, usedDepartments, given>>
vars   == <<tables, conn, pc, req, hash, reply, wrote>>

(***************************************************************************)
(* Requests.                                                               *)
(***************************************************************************)
Requests ==
    [op : {"GetEmployees", "GetDepartments"}]
    \cup [op : {"GetEmployeeByID", "DeleteEmployee"}, id : EmployeeIds]
    \cup [op : {"GetDepartmentByID", "DeleteDepartment"}, id : DepartmentIds]
    \cup [op : {"CreateEmployee"}, form : EmployeeForms]
    \cup [op : {"UpdateEmployee"}, id : EmployeeIds, form : EmployeeForms]
    \cup [op : {"RequestVacation"}, id : EmployeeIds, days : Days]
    \cup [op : {"CreateDepartment"}, form : DepartmentForms]
    \cup [op : {"UpdateDepartment"}, id : DepartmentIds, form : DepartmentForms]
    \cup [op : {"AuthLogin"}, email : Emails, password : Passwords]

\* A request arrives; the call goes to its first statement.
Start(c, request, stage) ==
    /\ pc[c] = "idle"
    /\ request.op \in Ops
    /\ req' = [req EXCEPT ![c] = request]
    /\ pc' = [pc EXCEPT ![c] = stage]
    /\ UNCHANGED <<tables, conn, reply, wrote>>

\* A request is turned down before any statement.
TurnDown(c, request, r) ==
    /\ pc[c] = "idle"
    /\ request.op \in Ops
    /\ req' = [req EXCEPT ![c] = request]
    /\ pc' = [pc EXCEPT ![c] = "done"]
    /\ reply' = [reply EXCEPT ![c] = r]
    /\ UNCHANGED <<tables, conn, hash, wrote>>

\* The call has its result.
Finish(c, r) ==
    /\ pc' = [pc EXCEPT ![c] = "done"]
    /\ reply' = [reply EXCEPT ![c] = r]

(***************************************************************************)
(* The calls up to their first statement.                                  *)
(***************************************************************************)
GetEmployees(c) ==
    Start(c, [op |-> "GetEmployees"], "read") /\ UNCHANGED hash

GetEmployeeByID(c) ==
    \E id \in EmployeeIds :
        Start(c, [op |-> "GetEmployeeByID", id |-> id], "read") /\ UNCHANGED hash

CreateEmployee(c) ==
    \E form \in EmployeeForms :
        LET request  == [op |-> "CreateEmployee", form |-> form]
            password == IF form.password \in {NULL, Blank} THEN Default
                                                           ELSE form.password
        IN  \/ ~ form.named /\ TurnDown(c, request, "invalid")
            \/ /\ form.named /\ password \in Unhashable
               /\ TurnDown(c, request, "error")
            \/ /\ form.named /\ password \notin Unhashable
               /\ Start(c, request, "count")
               /\ hash' = [hash EXCEPT ![c] = Hash(password)]

RequestVacation(c) ==
    \E id \in EmployeeIds, days \in Days :
        LET request == [op |-> "RequestVacation", id |-> id, days |-> days]
        IN  \/ days = 0 /\ TurnDown(c, request, "invalid")
            \/ days > 0 /\ Start(c, request, "write") /\ UNCHANGED hash

UpdateEmployeeWithDefault(c) ==   \* mutant: the defaulting of CreateEmployee
    \E id \in EmployeeIds, form \in EmployeeForms :
        /\ form.named /\ form.password = NULL
        /\ Start(c, [op |-> "UpdateEmployee", id |-> id, form |-> form], "count")
        /\ hash' = [hash EXCEPT ![c] = Hash(Default)]

UpdateEmployeeWithoutHash(c) ==   \* mutant: the stored hash is not read
    \E id \in EmployeeIds, form \in EmployeeForms :
        /\ form.named /\ form.password = NULL
        /\ Start(c, [op |-> "UpdateEmployee", id |-> id, form |-> form], "count")
        /\ UNCHANGED hash

\* getPasswordHash runs first: a submitted password is hashed, the empty one
\* too; without one the stored hash is read, to be written back later.
UpdateEmployee(c) ==
    \E id \in EmployeeIds, form \in EmployeeForms :
        LET request == [op |-> "UpdateEmployee", id |-> id, form |-> form]
        IN  \/ ~ form.named /\ TurnDown(c, request, "invalid")
            \/ /\ form.named /\ form.password = NULL
               /\ Start(c, request, "password") /\ UNCHANGED hash
            \/ /\ form.named /\ form.password \in Unhashable
               /\ TurnDown(c, request, "error")
            \/ /\ form.named /\ form.password \in Passwords \ Unhashable
               /\ Start(c, request, "count")
               /\ hash' = [hash EXCEPT ![c] = Hash(form.password)]

DeleteEmployee(c) ==
    \E id \in EmployeeIds :
        Start(c, [op |-> "DeleteEmployee", id |-> id], "write") /\ UNCHANGED hash

GetDepartments(c) ==
    Start(c, [op |-> "GetDepartments"], "read") /\ UNCHANGED hash

GetDepartmentByID(c) ==
    \E id \in DepartmentIds :
        Start(c, [op |-> "GetDepartmentByID", id |-> id], "read") /\ UNCHANGED hash

CreateDepartment(c) ==
    \E form \in DepartmentForms :
        LET request == [op |-> "CreateDepartment", form |-> form]
        IN  \/ form.name = NoName /\ TurnDown(c, request, "invalid")
            \/ form.name # NoName /\ Start(c, request, "write") /\ UNCHANGED hash

UpdateDepartment(c) ==
    \E id \in DepartmentIds, form \in DepartmentForms :
        /\ Start(c, [op |-> "UpdateDepartment", id |-> id, form |-> form], "write")
        /\ UNCHANGED hash

DeleteDepartment(c) ==
    \E id \in DepartmentIds :
        Start(c, [op |-> "DeleteDepartment", id |-> id], "write") /\ UNCHANGED hash

\* The query of AuthLogin; what follows it is in Sessions.tla.
AuthLogin(c) ==
    \E email \in Emails, password \in Passwords :
        /\ Start(c, [op |-> "AuthLogin", email |-> email, password |-> password], "read")
        /\ UNCHANGED hash

(***************************************************************************)
(* The shared connection.                                                  *)
(***************************************************************************)
ErrorReplyOk(c) == "ok"   \* mutant

\* DeleteDepartment logs an error and returns nil, all others return it.
ErrorReply(c) == IF req[c].op = "DeleteDepartment" THEN "ok" ELSE "error"

MissingReplyOk(c) == "ok"   \* mutant

MissingReply(c) == IF req[c].op = "DeleteDepartment" THEN "ok" ELSE "missing"

\* The statement of c goes out on the idle connection.
Acquire(c) ==
    /\ pc[c] \in Statements
    /\ conn = "idle"
    /\ conn' = c
    /\ UNCHANGED <<tables, pc, req, hash, reply, wrote>>

RefuseWhenClosed(c) ==   \* mutant
    /\ pc[c] \in Statements
    /\ conn = "closed"
    /\ Finish(c, ErrorReply(c))
    /\ UNCHANGED <<tables, conn, req, hash, wrote>>

\* "conn busy" while another call's statement is out, "conn closed" after
\* the connection broke.
Refuse(c) ==
    /\ pc[c] \in Statements
    /\ conn \notin {"idle", c}
    /\ Finish(c, ErrorReply(c))
    /\ UNCHANGED <<tables, conn, req, hash, wrote>>

(***************************************************************************)
(* Answers to the statements that only read.  Any statement may fail in    *)
(* the server for reasons outside this model.                              *)
(***************************************************************************)
\* The COUNT query in front of INSERT and UPDATE.
KeyTaken(c) ==
    \E e \in Ids(employees) :
        /\ SameKey(req[c].form, employees[e])
        /\ req[c].op = "UpdateEmployee" => e # req[c].id

AnswerPassword(c) ==
    /\ pc[c] = "password" /\ conn = c
    /\ conn' = "idle"
    /\ \/ /\ req[c].id \in Ids(employees)
          /\ hash' = [hash EXCEPT ![c] = employees[req[c].id].password]
          /\ pc' = [pc EXCEPT ![c] = "count"]
          /\ UNCHANGED reply
       \/ req[c].id \notin Ids(employees) /\ Finish(c, "missing") /\ UNCHANGED hash
       \/ Finish(c, "error") /\ UNCHANGED hash
    /\ UNCHANGED <<tables, req, wrote>>

AnswerCountRetrying(c) ==   \* mutant: a failed COUNT is sent again
    /\ pc[c] = "count" /\ conn = c
    /\ conn' = "idle"
    /\ \/ KeyTaken(c) /\ Finish(c, "duplicate")
       \/ ~ KeyTaken(c) /\ pc' = [pc EXCEPT ![c] = "write"] /\ UNCHANGED reply
       \/ UNCHANGED <<pc, reply>>
    /\ UNCHANGED <<tables, req, hash, wrote>>

AnswerCount(c) ==
    /\ pc[c] = "count" /\ conn = c
    /\ conn' = "idle"
    /\ \/ KeyTaken(c) /\ Finish(c, "duplicate")
       \/ ~ KeyTaken(c) /\ pc' = [pc EXCEPT ![c] = "write"] /\ UNCHANGED reply
       \/ Finish(c, "error")
    /\ UNCHANGED <<tables, req, hash, wrote>>

Found(c) ==
    CASE req[c].op = "GetEmployeeByID"   -> req[c].id \in Ids(employees)
      [] req[c].op = "GetDepartmentByID" -> req[c].id \in Ids(departments)
      [] req[c].op = "AuthLogin" -> Knows(employees, req[c].email, req[c].password)
      [] OTHER -> TRUE

AnswerRead(c) ==
    /\ pc[c] = "read" /\ conn = c
    /\ conn' = "idle"
    /\ \/ Found(c) /\ Finish(c, "ok")
       \/ ~ Found(c) /\ Finish(c, "missing")
       \/ Finish(c, "error")
    /\ UNCHANGED <<tables, req, hash, wrote>>

(***************************************************************************)
(* What an INSERT, UPDATE or DELETE does when the server carries it out.   *)
(***************************************************************************)
EmployeeRow(form, h) ==
    [email |-> form.email, personal_number |-> form.personal_number,
     password |-> h, department_id |-> form.department_id,
     manager_id |-> form.manager_id, vacation_days |-> form.vacation_days,
     dates |-> form.dates]

InsertEmployee(c) ==
    \E id \in EmployeeIds \ usedEmployees :
        LET row == EmployeeRow(req[c].form, hash[c])
        IN  /\ req[c].op = "CreateEmployee"
            /\ req[c].form.complete
            /\ EmployeeAccepted(employees, departments, id, row)
            /\ employees' = [employees EXCEPT ![id] = row]
            /\ usedEmployees' = usedEmployees \cup {id}
            /\ given' = [given EXCEPT ![id] = @ \cup {hash[c]}]
            /\ UNCHANGED <<departments, usedDepartments>>

UpsertEmployeeInDB(c) ==   \* mutant: INSERT ... ON CONFLICT
    LET id  == req[c].id
        row == EmployeeRow(req[c].form, hash[c])
    IN  /\ req[c].op = "UpdateEmployee"
        /\ req[c].form.complete
        /\ EmployeeAccepted(employees, departments, id, row)
        /\ employees' = [employees EXCEPT ![id] = row]
        /\ UNCHANGED <<departments, usedEmployees, usedDepartments, given>>

updateEmployeeInDB(c) ==
    LET id  == req[c].id
        row == EmployeeRow(req[c].form, hash[c])
    IN  /\ req[c].op = "UpdateEmployee"
        /\ req[c].form.complete
        /\ id \in Ids(employees)
        /\ EmployeeAccepted(employees, departments, id, row)
        /\ employees' = [employees EXCEPT ![id] = row]
        /\ given' = [given EXCEPT ![id] =
                       IF req[c].form.password = NULL THEN @ ELSE @ \cup {hash[c]}]
        /\ UNCHANGED <<departments, usedEmployees, usedDepartments>>

AddVacation(c) ==
    LET id   == req[c].id
        days == employees[id].vacation_days + req[c].days
    IN  /\ req[c].op = "RequestVacation"
        /\ id \in Ids(employees)
        /\ days <= MaxDays
        /\ employees' = [employees EXCEPT ![id].vacation_days = days]
        /\ UNCHANGED <<departments, usedEmployees, usedDepartments, given>>

RemoveEmployee(c) ==
    /\ req[c].op = "DeleteEmployee"
    /\ req[c].id \in Ids(employees)
    /\ employees' = WithoutEmployee(employees, req[c].id)
    /\ departments' = WithoutHead(departments, req[c].id)
    /\ UNCHANGED <<usedEmployees, usedDepartments, given>>

InsertDepartment(c) ==
    \E id \in DepartmentIds \ usedDepartments :
        /\ req[c].op = "CreateDepartment"
        /\ DepartmentAccepted(employees, departments, id, req[c].form)
        /\ departments' = [departments EXCEPT ![id] = req[c].form]
        /\ usedDepartments' = usedDepartments \cup {id}
        /\ UNCHANGED <<employees, usedEmployees, given>>

UpsertDepartment(c) ==   \* mutant
    /\ req[c].op = "UpdateDepartment"
    /\ DepartmentAccepted(employees, departments, req[c].id, req[c].form)
    /\ departments' = [departments EXCEPT ![req[c].id] = req[c].form]
    /\ UNCHANGED <<employees, usedEmployees, usedDepartments, given>>

ReplaceDepartment(c) ==
    /\ req[c].op = "UpdateDepartment"
    /\ req[c].id \in Ids(departments)
    /\ DepartmentAccepted(employees, departments, req[c].id, req[c].form)
    /\ departments' = [departments EXCEPT ![req[c].id] = req[c].form]
    /\ UNCHANGED <<employees, usedEmployees, usedDepartments, given>>

RemoveDepartment(c) ==
    /\ req[c].op = "DeleteDepartment"
    /\ req[c].id \in Ids(departments)
    /\ DepartmentDeletable(employees, req[c].id)
    /\ departments' = WithoutDepartment(departments, req[c].id)
    /\ UNCHANGED <<employees, usedEmployees, usedDepartments, given>>

\* The writing statement of c takes effect.
Land(c) ==
    /\ pc[c] = "write"
    /\ \/ InsertEmployee(c)
       \/ updateEmployeeInDB(c)
       \/ AddVacation(c)
       \/ RemoveEmployee(c)
       \/ InsertDepartment(c)
       \/ ReplaceDepartment(c)
       \/ RemoveDepartment(c)

\* The statement names a row that is not there: it succeeds on no row.
Misses(c) ==
    \/ /\ req[c].op \in {"UpdateEmployee", "RequestVacation", "DeleteEmployee"}
       /\ req[c].id \notin Ids(employees)
    \/ /\ req[c].op \in {"UpdateDepartment", "DeleteDepartment"}
       /\ req[c].id \notin Ids(departments)

AnswerWrite(c) ==
    /\ pc[c] = "write" /\ conn = c
    /\ conn' = "idle"
    /\ \/ Land(c) /\ wrote' = [wrote EXCEPT ![c] = TRUE] /\ Finish(c, "ok")
       \/ Misses(c) /\ Finish(c, MissingReply(c)) /\ UNCHANGED <<tables, wrote>>
       \/ Finish(c, ErrorReply(c)) /\ UNCHANGED <<tables, wrote>>
    /\ UNCHANGED <<req, hash>>

(***************************************************************************)
(* Failures.                                                               *)
(***************************************************************************)
\* The connection breaks while it carries the statement of c, before or
\* after the server carried it out; c gets an error either way.
LoseConnection(c) ==
    /\ conn = c
    /\ conn' = "closed"
    /\ Finish(c, ErrorReply(c))
    /\ \/ Land(c) /\ wrote' = [wrote EXCEPT ![c] = TRUE]
       \/ UNCHANGED <<tables, wrote>>
    /\ UNCHANGED <<req, hash>>

\* The process dies and is started again.  A statement that was out may
\* still be carried out; nobody learns of it.
Restart ==
    /\ conn' = "idle"
    /\ pc' = [c \in Calls |-> "idle"]
    /\ req' = [c \in Calls |-> NULL]
    /\ hash' = [c \in Calls |-> NULL]
    /\ reply' = [c \in Calls |-> NULL]
    /\ wrote' = [c \in Calls |-> FALSE]
    /\ \/ \E c \in Calls : conn = c /\ Land(c)
       \/ UNCHANGED tables

\* The handler sends the result off and the goroutine ends.
Return(c) ==
    /\ pc[c] = "done"
    /\ pc' = [pc EXCEPT ![c] = "idle"]
    /\ req' = [req EXCEPT ![c] = NULL]
    /\ hash' = [hash EXCEPT ![c] = NULL]
    /\ reply' = [reply EXCEPT ![c] = NULL]
    /\ wrote' = [wrote EXCEPT ![c] = FALSE]
    /\ UNCHANGED <<tables, conn>>

----
Init ==
    /\ employees = SeedEmployees
    /\ departments = SeedDepartments
    /\ usedEmployees = Ids(SeedEmployees)
    /\ usedDepartments = Ids(SeedDepartments)
    /\ conn = "idle"
    /\ pc = [c \in Calls |-> "idle"]
    /\ req = [c \in Calls |-> NULL]
    /\ hash = [c \in Calls |-> NULL]
    /\ reply = [c \in Calls |-> NULL]
    /\ wrote = [c \in Calls |-> FALSE]
    /\ given = [e \in EmployeeIds |->
                  IF SeedEmployees[e] = NULL THEN {} ELSE {SeedEmployees[e].password}]

Invoke(c) ==
    \/ GetEmployees(c)    \/ GetEmployeeByID(c)   \/ CreateEmployee(c)
    \/ RequestVacation(c) \/ UpdateEmployee(c)    \/ DeleteEmployee(c)
    \/ GetDepartments(c)  \/ GetDepartmentByID(c) \/ CreateDepartment(c)
    \/ UpdateDepartment(c) \/ DeleteDepartment(c) \/ AuthLogin(c)

\* PostgreSQL answers the statement of c.
Answer(c) ==
    AnswerPassword(c) \/ AnswerCount(c) \/ AnswerRead(c) \/ AnswerWrite(c)

\* What a call does once it has been made.
Proceed(c) ==
    Acquire(c) \/ Refuse(c) \/ Answer(c) \/ LoseConnection(c) \/ Return(c)

Next ==
    \/ \E c \in Calls : Invoke(c) \/ Proceed(c)
    \/ Restart

Spec == Init /\ [][Next]_vars

\* Go schedules every goroutine and PostgreSQL answers every statement or
\* the connection breaks.  No request has to arrive, no process to restart.
FairSpec == Spec /\ \A c \in Calls : WF_vars(Proceed(c))

----
(***************************************************************************)
(* Properties.                                                             *)
(***************************************************************************)

\* What a call holds at the statement it is at.
StageOK(c) ==
    /\ pc[c] # "idle" => req[c] \in Requests
    /\ pc[c] = "password" => req[c].op = "UpdateEmployee"
    /\ pc[c] = "count" => /\ req[c].op \in {"CreateEmployee", "UpdateEmployee"}
                          /\ hash[c] \in Hashes
    /\ pc[c] = "write" /\ req[c].op \in {"CreateEmployee", "UpdateEmployee"}
          => hash[c] \in Hashes
    /\ pc[c] = "read" => req[c].op \in ReadOps
    /\ pc[c] = "done" => reply[c] \in Replies
    /\ conn = c => pc[c] \in Statements

\* Every variable holds a value of its kind, stored passwords are bcrypt
\* hashes, vacation counters fit their INTEGER column, and every call has
\* what its next statement needs.
TypeOK ==
    /\ employees \in EmployeeTables
    /\ departments \in DepartmentTables
    /\ usedEmployees \subseteq EmployeeIds
    /\ usedDepartments \subseteq DepartmentIds
    /\ conn \in {"idle", "closed"} \cup Calls
    /\ pc \in [Calls -> Statements \cup {"idle", "done"}]
    /\ req \in [Calls -> Requests \cup {NULL}]
    /\ hash \in [Calls -> Hashes \cup {NULL}]
    /\ reply \in [Calls -> Replies \cup {NULL}]
    /\ wrote \in [Calls -> BOOLEAN]
    /\ given \in [EmployeeIds -> SUBSET Hashes]
    /\ \A c \in Calls : StageOK(c)

\* No two employees share an email or a personal number and no two
\* departments a name, although the COUNT check of CreateEmployee and
\* UpdateEmployee is separated from the write it protects.
UniqueKeys == UniqueKeysOf(employees, departments)

\* Department, manager, parent and head references always lead to a row,
\* whatever is deleted while other calls are half way.
NoDanglingReferences == ReferencesOf(employees, departments)

\* A finished call that reports success did its write, and one that reports
\* failure did not, unless the connection broke under it; DeleteDepartment,
\* which always reports success, is the exception on the first half.
ReplyTruthful ==
    \A c \in Calls : pc[c] = "done" =>
        /\ reply[c] = "ok" /\ req[c].op \in WriteOps \ {"DeleteDepartment"} => wrote[c]
        /\ wrote[c] /\ reply[c] # "ok" => conn = "closed"

\* The password an employee can log in with is one that was submitted, or
\* defaulted at creation, for that very employee: the hash UpdateEmployee
\* carries from its SELECT to its UPDATE never ends up on another row.
PasswordsWereGiven ==
    \A e \in Ids(employees) : employees[e].password \in given[e]

\* A deleted row never comes back under its id, although an UpdateEmployee
\* or UpdateDepartment for it may already be on its way.
NoResurrection ==
    [][/\ \A e \in usedEmployees \ Ids(employees) : e \notin Ids(employees')
       /\ \A d \in usedDepartments \ Ids(departments) : d \notin Ids(departments')]_vars

\* What the calls are to a reader of Directory: pending while at a statement,
\* and keeping the hash they have read, if they are to read one.
PhaseOf(c) == IF pc[c] \in Statements THEN "pending" ELSE pc[c]

Keeps(c)  == pc[c] # "idle" /\ req[c].op = "UpdateEmployee" /\ req[c].form.password = NULL
KeptOf(c) == IF Keeps(c) THEN hash[c] ELSE NULL

Phase == [c \in Calls |-> PhaseOf(c)]
Kept  == [c \in Calls |-> KeptOf(c)]

D == INSTANCE Directory WITH phase <- Phase, kept <- Kept, up <- conn # "closed"

\* The controllers are the Directory: every call takes effect in one step
\* between its arrival and its reply or not at all, is told about missing rows
\* and taken keys on what the tables hold at one moment, and leaves them
\* whole, although it is several statements long and others get in between.
DirectorySpec == D!Spec

\* Every call gets its answer: a busy or broken connection refuses, it never
\* makes a call wait.
EveryCallReturns == \A c \in Calls : pc[c] # "idle" ~> pc[c] = "idle"

\* An UpdateEmployee without a password leaves the password as it is.
PasswordKept ==
    [][\A c \in Calls :
         /\ pc[c] = "write" /\ req[c] # NULL
         /\ req[c].op = "UpdateEmployee" /\ req[c].form.password = NULL
         /\ pc'[c] = "done"
         => \A e \in Ids(employees) \cap Ids(employees') :
               employees'[e].password = employees[e].password]_vars

\* A DeleteDepartment that reported success has deleted the department.
DeletedDepartmentIsGone ==
    \A c \in Calls :
        pc[c] = "done" /\ req[c].op = "DeleteDepartment" /\ reply[c] = "ok"
            => req[c].id \notin Ids(departments)

====
