---- MODULE DirectoryProofs ----
(***************************************************************************)
(* Controllers implements Directory: each step of a call is a step of the  *)
(* directory on its request, or changes nothing the directory shows.       *)
(***************************************************************************)
EXTENDS ControllersProofs

----
(***************************************************************************)
(* What a call holds until it writes.                                      *)
(***************************************************************************)
\* The password a form with one, or the creation of an employee, comes down to.
Submitted(r) ==
    IF r.op = "CreateEmployee" /\ r.form.password \in {NULL, Blank}
    THEN Default ELSE r.form.password

HoldsOf(c) ==
    /\ pc[c] \in {"idle", "password"} => hash[c] = NULL
    /\ pc[c] = "password" => Keeps(c)
    /\ /\ pc[c] \in {"count", "write"} /\ req[c].op \in {"CreateEmployee", "UpdateEmployee"}
       /\ ~ Keeps(c)
       => hash[c] = Hash(Submitted(req[c]))

Holds == \A c \in Calls : HoldsOf(c)

\* A call that begins holds the hash of what was submitted, or none.
LEMMA HoldsInvoke ==
    ASSUME TypeOK, Holds, NEW c \in Calls, Invoke(c)
    PROVE  HoldsOf(c)'
<1> USE DEF HoldsOf, Keeps, Start, TurnDown, TypeOK
<1>0. pc[c] = "idle" => hash[c] = NULL
  BY DEF Holds
<1>1. CASE CreateEmployee(c)
  BY <1>0, <1>1 DEF CreateEmployee, Submitted
<1>2. CASE UpdateEmployee(c)
  BY <1>0, <1>2, FormsAssumption, NullAssumption DEF UpdateEmployee, Submitted
<1>3. CASE Invoke(c) /\ ~ CreateEmployee(c) /\ ~ UpdateEmployee(c)
  BY <1>0, <1>3 DEF Invoke, GetEmployees, GetEmployeeByID, RequestVacation, DeleteEmployee,
     GetDepartments, GetDepartmentByID, CreateDepartment, UpdateDepartment,
     DeleteDepartment, AuthLogin
<1> QED  BY <1>1, <1>2, <1>3

\* A call that moves on keeps what it holds, or reads the stored hash.
LEMMA HoldsProceed ==
    ASSUME TypeOK, Holds, NEW c \in Calls, Proceed(c)
    PROVE  HoldsOf(c)'
<1> USE DEF HoldsOf, Keeps, TypeOK
<1>0. HoldsOf(c) /\ (conn = c => pc[c] # "idle")
  BY DEF Holds, StageOK, Statements
<1>1. CASE AnswerPassword(c)
  BY <1>0, <1>1 DEF AnswerPassword, Finish
<1>2. CASE AnswerCount(c)
  BY <1>0, <1>2 DEF AnswerCount, Finish
<1>3. CASE Acquire(c)
  BY <1>0, <1>3 DEF Acquire
<1>4. CASE Return(c)
  BY <1>0, <1>4 DEF Return
<1>5. CASE pc'[c] = "done"
  BY <1>5
<1>6. Proceed(c) => \/ AnswerPassword(c) \/ AnswerCount(c) \/ Acquire(c) \/ Return(c)
                    \/ pc'[c] = "done"
  BY DEF Proceed, Answer, Refuse, AnswerRead, AnswerWrite, LoseConnection, Finish
<1> QED  BY <1>1, <1>2, <1>3, <1>4, <1>5, <1>6

\* Every step keeps every call holding what it will write.
LEMMA HoldsStep == TypeOK /\ Holds /\ [Next]_vars => Holds'
<1> SUFFICES ASSUME TypeOK, Holds, [Next]_vars  PROVE Holds'
  OBVIOUS
<1>1. ASSUME NEW c \in Calls, Invoke(c) \/ Proceed(c)  PROVE Holds'
  <2>1. HoldsOf(c)'
    BY <1>1, HoldsInvoke, HoldsProceed
  <2>2. ASSUME NEW b \in Calls, b # c  PROVE HoldsOf(b)'
    BY <1>1, <2>2, OthersUntouched DEF Holds, HoldsOf, Keeps
  <2> QED  BY <2>1, <2>2 DEF Holds
<1>2. CASE Restart
  BY <1>2 DEF Restart, Holds, HoldsOf, Keeps
<1>3. CASE UNCHANGED vars
  BY <1>3 DEF vars, Holds, HoldsOf, Keeps
<1> QED  BY <1>1, <1>2, <1>3 DEF Next

----
(***************************************************************************)
(* The same operators, seen through the instance.                          *)
(***************************************************************************)
\* Tables means the same to Directory.
LEMMA SameTables ==
    /\ \A emps, depts : D!Whole(emps, depts) <=>
          /\ emps \in EmployeeTables /\ depts \in DepartmentTables
          /\ UniqueKeysOf(emps, depts) /\ ReferencesOf(emps, depts)
    /\ \A table : D!Ids(table) = Ids(table)
    /\ \A a, b : D!SameKey(a, b) <=> SameKey(a, b)
    /\ \A emps, e, p : D!Knows(emps, e, p) <=> Knows(emps, e, p)
    /\ \A emps, id : D!WithoutEmployee(emps, id) = WithoutEmployee(emps, id)
    /\ \A depts, id : D!WithoutHead(depts, id) = WithoutHead(depts, id)
    /\ \A depts, id : D!WithoutDepartment(depts, id) = WithoutDepartment(depts, id)
    /\ \A p : D!Hash(p) = Hash(p)
<1> USE DEF D!Ids, Ids, D!SameKey, SameKey, D!Hash, Hash, D!SetNull, SetNull
<1>1. D!EmployeeTables = EmployeeTables /\ D!DepartmentTables = DepartmentTables
  BY DEF D!EmployeeTables, EmployeeTables, D!DepartmentTables, DepartmentTables,
     D!EmployeeRows, EmployeeRows, D!DepartmentRows, DepartmentRows, D!Hashes, Hashes,
     D!Dates, Dates
<1>2. ASSUME NEW emps, NEW depts
      PROVE  /\ D!UniqueKeysOf(emps, depts) <=> UniqueKeysOf(emps, depts)
             /\ D!ReferencesOf(emps, depts) <=> ReferencesOf(emps, depts)
  BY DEF D!UniqueKeysOf, UniqueKeysOf, D!ReferencesOf, ReferencesOf
<1>3. \A emps, depts : D!Whole(emps, depts) <=>
        /\ emps \in EmployeeTables /\ depts \in DepartmentTables
        /\ UniqueKeysOf(emps, depts) /\ ReferencesOf(emps, depts)
  BY <1>1, <1>2 DEF D!Whole
<1>4. \A table : D!Ids(table) = Ids(table)
  OBVIOUS
<1>5. \A a, b : D!SameKey(a, b) <=> SameKey(a, b)
  OBVIOUS
<1>6. \A emps, e, p : D!Knows(emps, e, p) <=> Knows(emps, e, p)
  BY DEF D!Knows, Knows
<1>7. \A emps, id : D!WithoutEmployee(emps, id) = WithoutEmployee(emps, id)
  BY DEF D!WithoutEmployee, WithoutEmployee
<1>8. \A depts, id : /\ D!WithoutHead(depts, id) = WithoutHead(depts, id)
                     /\ D!WithoutDepartment(depts, id) = WithoutDepartment(depts, id)
  BY DEF D!WithoutHead, WithoutHead, D!WithoutDepartment, WithoutDepartment
<1> QED  BY <1>3, <1>4, <1>5, <1>6, <1>7, <1>8

\* One call moves, and to Directory too it is the only one.
LEMMA OneMoves ==
    ASSUME TypeOK, NEW c \in Calls, Invoke(c) \/ Proceed(c)
    PROVE  /\ Phase' = [Phase EXCEPT ![c] = PhaseOf(c)']
           /\ Kept' = [Kept EXCEPT ![c] = KeptOf(c)']
           /\ Phase[c] = PhaseOf(c) /\ Kept[c] = KeptOf(c)
<1>1. ASSUME NEW b \in Calls, b # c  PROVE PhaseOf(b)' = PhaseOf(b) /\ KeptOf(b)' = KeptOf(b)
  BY <1>1, OthersUntouched DEF PhaseOf, KeptOf, Keeps
<1>2. Phase' = [b \in Calls |-> PhaseOf(b)'] /\ Kept' = [b \in Calls |-> KeptOf(b)']
  BY DEF Phase, Kept
<1> QED  BY <1>1, <1>2 DEF Phase, Kept

----
(***************************************************************************)
(* The effect of a statement that lands.                                   *)
(***************************************************************************)
\* The row a call writes is the row its request stands for.
LEMMA SameRow ==
    ASSUME TypeOK, Holds, NEW c \in Calls, pc[c] = "write",
           req[c].op \in {"CreateEmployee", "UpdateEmployee"}
    PROVE  D!Row(c) = EmployeeRow(req[c].form, hash[c])
<1>1. HoldsOf(c) /\ Kept[c] = KeptOf(c) /\ (Keeps(c) <=> /\ req[c].op = "UpdateEmployee"
                                                         /\ req[c].form.password = NULL)
  BY DEF Holds, Kept, Keeps
<1>2. D!Password(c) = hash[c]
  <2>1. CASE Keeps(c)
    BY <1>1, <2>1 DEF D!Password, KeptOf
  <2>2. CASE ~ Keeps(c)
    <3>1. hash[c] = Hash(Submitted(req[c]))
      BY <1>1, <2>2 DEF HoldsOf
    <3>2. CASE req[c].op = "CreateEmployee"
      BY <3>1, <3>2 DEF D!Password, Submitted, Hash, D!Hash
    <3>3. CASE req[c].op = "UpdateEmployee"
      BY <1>1, <2>2, <3>1, <3>3 DEF D!Password, Submitted, Hash, D!Hash
    <3> QED  BY <3>2, <3>3
  <2> QED  BY <2>1, <2>2
<1> QED  BY <1>2 DEF D!Row, EmployeeRow

\* A statement that lands has the effect Directory gives the request.
LEMMA LandIsEffect ==
    ASSUME TypeOK, Integrity, Holds, NEW c \in Calls, Land(c), conn = c
    PROVE  D!Effect(c)
<1>1. D!Whole(employees', departments')
  <2>1. TablesOK' /\ Integrity'
    BY LandType, LandIntegrity
  <2> QED  BY <2>1, SameTables DEF TablesOK, Integrity, UniqueKeys, NoDanglingReferences
<1>2. Phase[c] = "pending" /\ conn # "closed" /\ pc[c] = "write"
  BY CallsAssumption DEF Land, Phase, PhaseOf, Statements
<1> USE <1>1, <1>2, SameTables DEF D!Store
<1>3. CASE InsertEmployee(c)
  <2>1. req[c].op = "CreateEmployee" /\ UNCHANGED usedDepartments
    BY <1>3 DEF InsertEmployee
  <2>2. PICK id \in EmployeeIds \ usedEmployees :
          /\ employees' = [employees EXCEPT ![id] = EmployeeRow(req[c].form, hash[c])]
          /\ usedEmployees' = usedEmployees \cup {id} /\ departments' = departments
    BY <1>3 DEF InsertEmployee
  <2>3. D!Hire(c)
    BY <2>1, <2>2, SameRow DEF D!Hire
  <2> QED  BY <2>3 DEF D!Effect
<1>4. CASE updateEmployeeInDB(c)
  <2>1. D!Row(c) = EmployeeRow(req[c].form, hash[c])
    BY <1>4, SameRow DEF updateEmployeeInDB
  <2>2. D!Change(c)
    BY <1>4, <2>1 DEF updateEmployeeInDB, D!Change
  <2> QED  BY <2>2 DEF D!Effect
<1>5. CASE AddVacation(c)
  <2>1. employees' = [employees EXCEPT ![req[c].id].vacation_days = @ + req[c].days]
    BY <1>5 DEF AddVacation
  <2>2. D!Grant(c)
    BY <1>5, <2>1 DEF AddVacation, D!Grant
  <2> QED  BY <2>2 DEF D!Effect
<1>6. CASE RemoveEmployee(c)
  <2>1. D!Dismiss(c)
    BY <1>6 DEF RemoveEmployee, D!Dismiss
  <2> QED  BY <2>1 DEF D!Effect
<1>7. CASE InsertDepartment(c)
  <2>1. req[c].op = "CreateDepartment" /\ UNCHANGED usedEmployees
    BY <1>7 DEF InsertDepartment
  <2>2. PICK id \in DepartmentIds \ usedDepartments :
          /\ departments' = [departments EXCEPT ![id] = req[c].form]
          /\ usedDepartments' = usedDepartments \cup {id} /\ employees' = employees
    BY <1>7 DEF InsertDepartment
  <2>3. D!Establish(c)
    BY <2>1, <2>2 DEF D!Establish
  <2> QED  BY <2>3 DEF D!Effect
<1>8. CASE ReplaceDepartment(c)
  <2>1. D!Reorganise(c)
    BY <1>8 DEF ReplaceDepartment, D!Reorganise
  <2> QED  BY <2>1 DEF D!Effect
<1>9. CASE RemoveDepartment(c)
  <2>1. D!Dissolve(c)
    BY <1>9 DEF RemoveDepartment, D!Dissolve
  <2> QED  BY <2>1 DEF D!Effect
<1> QED  BY <1>3, <1>4, <1>5, <1>6, <1>7, <1>8, <1>9 DEF Land

----
(***************************************************************************)
(* Each step of a call.                                                    *)
(***************************************************************************)
\* A call that goes to its first statement is a request that arrives.
LEMMA StartArrives ==
    ASSUME TypeOK, Holds, NEW c \in Calls, Invoke(c),
           NEW request \in Requests, NEW stage \in Statements, Start(c, request, stage),
           D!Valid(request),
           request.op = "UpdateEmployee" /\ request.form.password = NULL => UNCHANGED hash
    PROVE  D!Arrive(c)
<1>1. /\ Phase[c] = "idle" /\ PhaseOf(c)' = "pending"
      /\ req' = [req EXCEPT ![c] = request] /\ UNCHANGED <<D!tables, reply, conn>>
  BY OneMoves DEF Start, TypeOK, PhaseOf, Statements, D!tables, tables
<1>2. KeptOf(c)' = KeptOf(c)
  BY DEF Start, TypeOK, KeptOf, Keeps, Holds, HoldsOf
<1>3. Phase' = [Phase EXCEPT ![c] = "pending"] /\ UNCHANGED Kept
  BY <1>1, <1>2, OneMoves DEF Kept
<1> QED  BY <1>1, <1>3 DEF D!Arrive

\* A call that is turned down is a request rejected.
LEMMA TurnDownRejects ==
    ASSUME TypeOK, NEW c \in Calls, Invoke(c),
           NEW request \in Requests, NEW r, TurnDown(c, request, r),
           \/ r = "invalid" /\ ~ D!Valid(request)
           \/ r = "error" /\ request.op \in {"CreateEmployee", "UpdateEmployee"},
           request.op = "UpdateEmployee" /\ request.form.password = NULL => hash[c] = NULL
    PROVE  D!Reject(c)
<1>1. /\ Phase[c] = "idle" /\ PhaseOf(c)' = "done"
      /\ req' = [req EXCEPT ![c] = request] /\ reply' = [reply EXCEPT ![c] = r]
      /\ UNCHANGED <<D!tables, conn>>
  BY OneMoves DEF TurnDown, TypeOK, PhaseOf, Statements, D!tables, tables
<1>2. KeptOf(c)' = KeptOf(c)
  BY DEF TurnDown, TypeOK, KeptOf, Keeps
<1>3. Phase' = [Phase EXCEPT ![c] = "done"] /\ UNCHANGED Kept
  BY <1>1, <1>2, OneMoves DEF Kept
<1>4. D!Answer(c, r)
  BY <1>1, <1>3 DEF D!Answer
<1> QED  BY <1>1, <1>3, <1>4 DEF D!Reject

\* Every call that begins does one or the other.
LEMMA InvokeMaps ==
    ASSUME TypeOK, Holds, NEW c \in Calls, Invoke(c)
    PROVE  D!Arrive(c) \/ D!Reject(c)
<1> USE DEF Requests, Statements, D!Valid
<1>0. pc[c] = "idle" => hash[c] = NULL
  BY DEF Holds, HoldsOf
<1>1. ASSUME NEW request \in Requests, NEW stage \in Statements, Start(c, request, stage),
             request.op \notin {"CreateEmployee", "UpdateEmployee", "RequestVacation",
                               "CreateDepartment"}
      PROVE  D!Arrive(c)
  BY <1>1, StartArrives
<1>2. CASE GetEmployees(c) \/ GetDepartments(c)
  BY <1>1, <1>2 DEF GetEmployees, GetDepartments
<1>3. CASE GetEmployeeByID(c) \/ DeleteEmployee(c)
  BY <1>1, <1>3 DEF GetEmployeeByID, DeleteEmployee
<1>4. CASE GetDepartmentByID(c) \/ DeleteDepartment(c)
  BY <1>1, <1>4 DEF GetDepartmentByID, DeleteDepartment
<1>5. CASE UpdateDepartment(c)
  BY <1>1, <1>5 DEF UpdateDepartment
<1>6. CASE AuthLogin(c)
  BY <1>1, <1>6 DEF AuthLogin
<1>7. CASE RequestVacation(c)
  <2>1. PICK id \in EmployeeIds, days \in Days :
          LET request == [op |-> "RequestVacation", id |-> id, days |-> days]
          IN  \/ days = 0 /\ TurnDown(c, request, "invalid")
              \/ days > 0 /\ Start(c, request, "write") /\ UNCHANGED hash
    BY <1>7 DEF RequestVacation
  <2> DEFINE request == [op |-> "RequestVacation", id |-> id, days |-> days]
  <2>2. request \in Requests /\ request.op = "RequestVacation" /\ request.days = days
    OBVIOUS
  <2>3. D!Valid(request) <=> days > 0
    BY <2>2
  <2>4. days = 0 => ~ (days > 0)
    BY FormsAssumption
  <2> QED  BY <2>1, <2>2, <2>3, <2>4, StartArrives, TurnDownRejects
<1>8. CASE CreateDepartment(c)
  <2>1. PICK form \in DepartmentForms :
          LET request == [op |-> "CreateDepartment", form |-> form]
          IN  \/ form.name = NoName /\ TurnDown(c, request, "invalid")
              \/ form.name # NoName /\ Start(c, request, "write") /\ UNCHANGED hash
    BY <1>8 DEF CreateDepartment
  <2> DEFINE request == [op |-> "CreateDepartment", form |-> form]
  <2>2. request \in Requests /\ request.op = "CreateDepartment" /\ request.form = form
    OBVIOUS
  <2>3. D!Valid(request) <=> form.name # NoName
    BY <2>2
  <2> QED  BY <2>1, <2>2, <2>3, StartArrives, TurnDownRejects
<1>9. CASE CreateEmployee(c)
  <2>1. PICK form \in EmployeeForms :
          LET request == [op |-> "CreateEmployee", form |-> form]
          IN  \/ ~ form.named /\ TurnDown(c, request, "invalid")
              \/ form.named /\ TurnDown(c, request, "error")
              \/ form.named /\ Start(c, request, "count")
    BY <1>9 DEF CreateEmployee
  <2> DEFINE request == [op |-> "CreateEmployee", form |-> form]
  <2>2. request \in Requests /\ request.op = "CreateEmployee" /\ request.form = form
    OBVIOUS
  <2>3. D!Valid(request) <=> form.named
    BY <2>2
  <2> QED  BY <2>1, <2>2, <2>3, StartArrives, TurnDownRejects
<1>10. CASE UpdateEmployee(c)
  <2> DEFINE update(id, form) == [op |-> "UpdateEmployee", id |-> id, form |-> form]
  <2>1. PICK id \in EmployeeIds, form \in EmployeeForms :
          \/ ~ form.named /\ TurnDown(c, update(id, form), "invalid")
          \/ form.named /\ TurnDown(c, update(id, form), "error")
          \/ /\ form.named
             /\ form.password = NULL => UNCHANGED hash
             /\ \E stage \in Statements : Start(c, update(id, form), stage)
    BY <1>10, NullAssumption DEF UpdateEmployee
  <2> DEFINE request == update(id, form)
  <2>2. request \in Requests /\ request.op = "UpdateEmployee" /\ request.form = form
    OBVIOUS
  <2>3. D!Valid(request) <=> form.named
    BY <2>2
  <2>4. TurnDown(c, request, "invalid") \/ TurnDown(c, request, "error") => hash[c] = NULL
    BY <1>0 DEF TurnDown
  <2> HIDE DEF request
  <2>5. CASE ~ form.named /\ TurnDown(c, request, "invalid")
    BY <2>2, <2>3, <2>4, <2>5, TurnDownRejects
  <2>6. CASE form.named /\ TurnDown(c, request, "error")
    BY <2>2, <2>4, <2>6, TurnDownRejects
  <2>7. CASE /\ form.named
             /\ form.password = NULL => UNCHANGED hash
             /\ \E stage \in Statements : Start(c, request, stage)
    BY <2>2, <2>3, <2>7, StartArrives
  <2> QED  BY <2>1, <2>5, <2>6, <2>7 DEF request
<1> QED  BY <1>2, <1>3, <1>4, <1>5, <1>6, <1>7, <1>8, <1>9, <1>10 DEF Invoke

\* Every step of a call under way is the request's, or none.
LEMMA ProceedMaps ==
    ASSUME TypeOK, Integrity, Holds, NEW c \in Calls, Proceed(c)
    PROVE  \/ D!Recall(c) \/ D!Succeed(c) \/ D!Fail(c) \/ D!Lose(c) \/ D!Return(c)
           \/ UNCHANGED D!vars
<1> USE SameTables
<1>0. HoldsOf(c) /\ StageOK(c) /\ c \notin {"idle", "closed"}
  BY CallsAssumption DEF Holds, TypeOK
<1>1. ASSUME pc[c] \in Statements
      PROVE  Phase[c] = "pending" /\ KeptOf(c) = Kept[c] /\ req[c] \in Requests
  BY <1>0, <1>1 DEF Phase, PhaseOf, Kept, StageOK, Statements
<1>2. ASSUME NEW r, pc[c] \in Statements, Finish(c, r), UNCHANGED <<req, hash>>
      PROVE  D!Answer(c, r) /\ UNCHANGED Kept
  <2>1. PhaseOf(c)' = "done" /\ KeptOf(c)' = KeptOf(c)
    BY <1>2 DEF Finish, TypeOK, PhaseOf, KeptOf, Keeps, Statements
  <2>2. Phase' = [Phase EXCEPT ![c] = "done"] /\ UNCHANGED Kept
    BY <2>1, OneMoves DEF Kept
  <2> QED  BY <1>2, <2>2 DEF Finish, D!Answer
<1>3. ASSUME pc[c] \in Statements, Finish(c, ErrorReply(c)), UNCHANGED <<req, hash, tables>>,
             UNCHANGED (conn # "closed")
      PROVE  D!Fail(c)
  BY <1>1, <1>2, <1>3 DEF ErrorReply, D!Fail, D!tables, tables
<1>4. CASE Acquire(c)
  <2>1. PhaseOf(c)' = PhaseOf(c) /\ KeptOf(c)' = KeptOf(c)
    BY <1>4 DEF Acquire, PhaseOf, KeptOf, Keeps
  <2>2. UNCHANGED <<Phase, Kept>>
    BY <2>1, OneMoves DEF Phase, Kept
  <2> QED  BY <1>0, <1>4, <2>2 DEF Acquire, D!vars, D!tables, tables
<1>5. CASE Refuse(c)
  BY <1>3, <1>5 DEF Refuse
<1>6. CASE AnswerPassword(c)
  <2>1. pc[c] \in Statements /\ req[c].op = "UpdateEmployee" /\ Keeps(c) /\ hash[c] = NULL
    BY <1>0, <1>6 DEF AnswerPassword, Statements, HoldsOf, StageOK
  <2>2. conn # "closed" /\ conn' # "closed" /\ UNCHANGED <<tables, req>>
    BY <1>0, <1>6 DEF AnswerPassword
  <2>3. CASE /\ req[c].id \in Ids(employees)
             /\ hash' = [hash EXCEPT ![c] = employees[req[c].id].password]
             /\ pc' = [pc EXCEPT ![c] = "count"]
             /\ UNCHANGED reply
    <3>1. PhaseOf(c)' = PhaseOf(c) /\ KeptOf(c)' = employees[req[c].id].password
      BY <2>1, <2>2, <2>3 DEF TypeOK, PhaseOf, KeptOf, Keeps, Statements
    <3>2. UNCHANGED Phase /\ Kept' = [Kept EXCEPT ![c] = employees[req[c].id].password]
      BY <3>1, OneMoves DEF Phase
    <3>3. Kept[c] = NULL
      BY <2>1 DEF Kept, KeptOf
    <3>4. D!Recall(c)
      BY <1>1, <2>1, <2>2, <2>3, <3>2, <3>3 DEF D!Recall, Keeps, D!tables, tables
    <3> QED  BY <3>4
  <2>4. CASE req[c].id \notin Ids(employees) /\ Finish(c, "missing") /\ UNCHANGED hash
    <3>1. D!Absent(c)
      BY <2>1, <2>4 DEF D!Absent
    <3> QED  BY <1>1, <1>2, <2>1, <2>2, <2>4, <3>1 DEF D!Fail, D!tables, tables
  <2>5. CASE Finish(c, "error") /\ UNCHANGED hash
    BY <1>3, <2>1, <2>2, <2>5 DEF ErrorReply
  <2> QED  BY <1>6, <2>3, <2>4, <2>5 DEF AnswerPassword
<1>7. CASE AnswerCount(c)
  <2>1. pc[c] \in Statements /\ req[c].op \in {"CreateEmployee", "UpdateEmployee"}
    BY <1>0, <1>7 DEF AnswerCount, Statements, StageOK
  <2>2. conn # "closed" /\ conn' # "closed" /\ UNCHANGED <<tables, req, hash>>
    BY <1>0, <1>7 DEF AnswerCount
  <2>3. CASE KeyTaken(c) /\ Finish(c, "duplicate")
    <3>1. D!Clash(c)
      BY <2>1, <2>3 DEF D!Clash, KeyTaken
    <3> QED  BY <1>1, <1>2, <2>1, <2>2, <2>3, <3>1 DEF D!Fail, D!tables, tables
  <2>4. CASE pc' = [pc EXCEPT ![c] = "write"] /\ UNCHANGED reply
    <3>1. PhaseOf(c)' = PhaseOf(c) /\ KeptOf(c)' = KeptOf(c)
      BY <2>1, <2>2, <2>4 DEF TypeOK, PhaseOf, KeptOf, Keeps, Statements
    <3>2. UNCHANGED <<Phase, Kept>>
      BY <3>1, OneMoves DEF Phase, Kept
    <3> QED  BY <2>2, <2>4, <3>2 DEF D!vars, D!tables, tables
  <2>5. CASE Finish(c, "error")
    BY <1>3, <2>1, <2>2, <2>5 DEF ErrorReply
  <2> QED  BY <1>7, <2>3, <2>4, <2>5 DEF AnswerCount
<1>8. CASE AnswerRead(c)
  <2>1. pc[c] \in Statements /\ req[c].op \in ReadOps /\ D!IsRead(c)
    BY <1>0, <1>8 DEF AnswerRead, Statements, StageOK, ReadOps, D!IsRead
  <2>2. conn # "closed" /\ conn' # "closed" /\ UNCHANGED <<tables, req, hash>>
    BY <1>0, <1>8 DEF AnswerRead
  <2>3. D!Absent(c) <=> ~ Found(c)
    BY <2>1 DEF D!Absent, Found, ReadOps
  <2>4. CASE Found(c) /\ Finish(c, "ok")
    <3>1. D!Succeed(c)
      BY <1>1, <1>2, <2>1, <2>2, <2>3, <2>4 DEF D!Succeed, D!tables, tables
    <3> QED  BY <3>1
  <2>5. CASE ~ Found(c) /\ Finish(c, "missing")
    BY <1>1, <1>2, <2>1, <2>2, <2>3, <2>5 DEF D!Fail, D!tables, tables
  <2>6. CASE Finish(c, "error")
    BY <1>3, <2>1, <2>2, <2>6 DEF ErrorReply, ReadOps
  <2> QED  BY <1>8, <2>4, <2>5, <2>6 DEF AnswerRead
<1>9. CASE AnswerWrite(c)
  <2>1. pc[c] \in Statements /\ conn = c
    BY <1>9 DEF AnswerWrite, Statements
  <2>2. conn # "closed" /\ conn' # "closed" /\ UNCHANGED <<req, hash>>
    BY <1>0, <1>9 DEF AnswerWrite
  <2>3. CASE Land(c) /\ Finish(c, "ok")
    BY <1>1, <1>2, <2>1, <2>2, <2>3, LandIsEffect DEF D!Succeed
  <2>4. CASE Misses(c) /\ Finish(c, MissingReply(c)) /\ UNCHANGED tables
    <3>1. D!Absent(c)
      BY <2>4 DEF Misses, D!Absent
    <3> QED  BY <1>1, <1>2, <2>1, <2>2, <2>4, <3>1 DEF D!Fail, MissingReply, D!tables, tables
  <2>5. CASE Finish(c, ErrorReply(c)) /\ UNCHANGED tables
    BY <1>3, <2>1, <2>2, <2>5
  <2> QED  BY <1>9, <2>3, <2>4, <2>5 DEF AnswerWrite
<1>10. CASE LoseConnection(c)
  <2>1. pc[c] \in Statements /\ conn # "closed" /\ conn' = "closed" /\ UNCHANGED <<req, hash>>
    BY <1>0, <1>10 DEF LoseConnection, StageOK
  <2>2. D!Effect(c) \/ UNCHANGED D!tables
    BY <1>10, LandIsEffect DEF LoseConnection, D!tables, tables
  <2>3. D!Answer(c, ErrorReply(c)) /\ UNCHANGED Kept
    BY <1>2, <1>10, <2>1 DEF LoseConnection
  <2>4. D!Lose(c)
    BY <1>1, <2>1, <2>2, <2>3 DEF D!Lose, ErrorReply
  <2> QED  BY <2>4
<1>11. CASE Return(c)
  <2>1. Phase[c] = "done" /\ PhaseOf(c)' = "idle" /\ KeptOf(c)' = NULL
    BY <1>11 DEF Return, TypeOK, Phase, PhaseOf, KeptOf, Keeps, Statements
  <2>2. Phase' = [Phase EXCEPT ![c] = "idle"] /\ Kept' = [Kept EXCEPT ![c] = NULL]
    BY <2>1, OneMoves
  <2>3. D!Return(c)
    BY <1>11, <2>1, <2>2 DEF Return, D!Return, D!tables, tables
  <2> QED  BY <2>3
<1> QED  BY <1>4, <1>5, <1>6, <1>7, <1>8, <1>9, <1>10, <1>11 DEF Proceed, Answer

----
(***************************************************************************)
(* The refinement.                                                         *)
(***************************************************************************)
\* A process that is started again: one statement that was out may still land.
LEMMA RestartMaps ==
    ASSUME TypeOK, Integrity, Holds, Restart
    PROVE  D!Restart
<1>1. /\ Phase' = [c \in Calls |-> "idle"] /\ Kept' = [c \in Calls |-> NULL]
      /\ (conn # "closed")' = TRUE
  BY DEF Restart, Phase, PhaseOf, Kept, KeptOf, Keeps, Statements
<1>2. UNCHANGED D!tables \/ \E c \in Calls : D!Effect(c)
  BY LandIsEffect DEF Restart, D!tables, tables
<1> QED  BY <1>1, <1>2 DEF Restart, D!Restart

\* The service starts on a directory.
LEMMA InitMaps == Init => D!Init
<1> SUFFICES ASSUME Init  PROVE D!Init
  OBVIOUS
<1>1. D!Whole(employees, departments)
  BY SeedAssumption, SameTables DEF Init
<1>2. Phase = [c \in Calls |-> "idle"] /\ Kept = [c \in Calls |-> NULL]
  BY DEF Init, Phase, PhaseOf, Kept, KeptOf, Keeps, Statements
<1> QED  BY <1>1, <1>2, SameTables DEF Init, D!Init

\* Every step of the controllers is a step of the directory or changes nothing
\* it shows.
LEMMA StepMaps == TypeOK /\ Integrity /\ Holds /\ [Next]_vars => [D!Next]_(D!vars)
<1> SUFFICES ASSUME TypeOK, Integrity, Holds, [Next]_vars  PROVE [D!Next]_(D!vars)
  OBVIOUS
<1>1. ASSUME NEW c \in Calls, Invoke(c)  PROVE [D!Next]_(D!vars)
  BY <1>1, InvokeMaps DEF D!Next
<1>2. ASSUME NEW c \in Calls, Proceed(c)  PROVE [D!Next]_(D!vars)
  BY <1>2, ProceedMaps DEF D!Next
<1>3. CASE Restart
  BY <1>3, RestartMaps DEF D!Next
<1>4. CASE UNCHANGED vars
  BY <1>4 DEF vars, tables, D!vars, D!tables, Phase, PhaseOf, Kept, KeptOf, Keeps
<1> QED  BY <1>1, <1>2, <1>3, <1>4 DEF Next

\* However many calls run, on whatever tables: each takes effect at one moment
\* between its arrival and its answer or not at all, with the row its request
\* stands for, and what it is told of missing rows and taken keys was so at
\* one moment of that time.
THEOREM ControllersImplementDirectory == Spec => DirectorySpec
<1>1. Init => Integrity /\ Holds
  BY SeedAssumption DEF Init, Integrity, UniqueKeys, NoDanglingReferences, Holds, HoldsOf, Keeps
<1>2. Spec => [](Integrity /\ Holds)
  BY <1>1, TypeCorrect, IntegrityStep, HoldsStep, PTL DEF Spec
<1>3. Spec => D!Init /\ [][D!Next]_(D!vars)
  BY <1>2, TypeCorrect, InitMaps, StepMaps, PTL DEF Spec
<1> QED  BY <1>3 DEF DirectorySpec, D!Spec

====
