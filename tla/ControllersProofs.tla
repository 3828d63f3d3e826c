---- MODULE ControllersProofs ----
(***************************************************************************)
(* Theorems about Controllers, for any number of calls, rows, forms and    *)
(* passwords.                                                              *)
(***************************************************************************)
EXTENDS Controllers, TLAPS

----
(***************************************************************************)
(* What the statements do to the types of the tables.                      *)
(***************************************************************************)

\* Deleting an employee leaves two well-formed tables.
LEMMA WithoutEmployeeType ==
    ASSUME NEW emps \in EmployeeTables, NEW depts \in DepartmentTables,
           NEW id \in EmployeeIds
    PROVE  /\ WithoutEmployee(emps, id) \in EmployeeTables
           /\ WithoutHead(depts, id) \in DepartmentTables
<1>1. ASSUME NEW e \in EmployeeIds, emps[e] # NULL
      PROVE  [emps[e] EXCEPT !.manager_id = SetNull(@, id)] \in EmployeeRows
  BY <1>1 DEF EmployeeTables, EmployeeRows, SetNull
<1>2. ASSUME NEW d \in DepartmentIds, depts[d] # NULL
      PROVE  [depts[d] EXCEPT !.head_id = SetNull(@, id)] \in DepartmentRows
  BY <1>2 DEF DepartmentTables, DepartmentRows, SetNull
<1>3. WithoutEmployee(emps, id) \in EmployeeTables
  BY <1>1 DEF WithoutEmployee, EmployeeTables
<1>4. WithoutHead(depts, id) \in DepartmentTables
  BY <1>2 DEF WithoutHead, DepartmentTables
<1> QED  BY <1>3, <1>4

\* Deleting a department leaves a well-formed table.
LEMMA WithoutDepartmentType ==
    ASSUME NEW depts \in DepartmentTables, NEW id \in DepartmentIds
    PROVE  WithoutDepartment(depts, id) \in DepartmentTables
<1>1. ASSUME NEW d \in DepartmentIds, depts[d] # NULL
      PROVE  [depts[d] EXCEPT !.parent_id = SetNull(@, id)] \in DepartmentRows
  BY <1>1 DEF DepartmentTables, DepartmentRows, SetNull
<1> QED  BY <1>1 DEF WithoutDepartment, DepartmentTables

----
(***************************************************************************)
(* Type correctness.                                                       *)
(***************************************************************************)
TablesOK ==
    /\ employees \in EmployeeTables
    /\ departments \in DepartmentTables
    /\ usedEmployees \subseteq EmployeeIds
    /\ usedDepartments \subseteq DepartmentIds
    /\ given \in [EmployeeIds -> SUBSET Hashes]

CallsOK ==
    /\ conn \in {"idle", "closed"} \cup Calls
    /\ pc \in [Calls -> Statements \cup {"idle", "done"}]
    /\ req \in [Calls -> Requests \cup {NULL}]
    /\ hash \in [Calls -> Hashes \cup {NULL}]
    /\ reply \in [Calls -> Replies \cup {NULL}]
    /\ wrote \in [Calls -> BOOLEAN]
    /\ \A c \in Calls : StageOK(c)

\* TypeOK speaks of the tables and of the calls.
LEMMA TypeOKParts == TypeOK <=> TablesOK /\ CallsOK
  BY DEF TypeOK, TablesOK, CallsOK

\* A statement that lands leaves well-formed tables.
LEMMA LandType ==
    ASSUME TypeOK, NEW c \in Calls, Land(c)
    PROVE  TablesOK'
<1> USE DEF TablesOK
<1>0. /\ req[c] \in Requests
      /\ TablesOK
  BY DEF TypeOK, Land, StageOK
<1>1. CASE InsertEmployee(c)
  BY <1>0, <1>1 DEF TypeOK, InsertEmployee, EmployeeAccepted, EmployeeTables,
       Land, StageOK
<1>2. CASE updateEmployeeInDB(c)
  BY <1>0, <1>2 DEF TypeOK, updateEmployeeInDB, EmployeeAccepted, EmployeeTables, Ids,
       Land, StageOK
<1>3. CASE AddVacation(c)
  BY <1>0, <1>3, MaxDaysAssumption, FormsAssumption
     DEF AddVacation, EmployeeTables, EmployeeRows, Ids, Requests
<1>4. CASE RemoveEmployee(c)
  BY <1>0, <1>4, WithoutEmployeeType DEF RemoveEmployee, EmployeeTables, Ids
<1>5. CASE InsertDepartment(c)
  BY <1>0, <1>5 DEF InsertDepartment, DepartmentAccepted, DepartmentTables
<1>6. CASE ReplaceDepartment(c)
  BY <1>0, <1>6 DEF ReplaceDepartment, DepartmentAccepted, DepartmentTables, Ids
<1>7. CASE RemoveDepartment(c)
  BY <1>0, <1>7, WithoutDepartmentType DEF RemoveDepartment, DepartmentTables, Ids
<1> QED  BY <1>1, <1>2, <1>3, <1>4, <1>5, <1>6, <1>7 DEF Land

\* A call that starts, with what its first statement needs, is well-formed.
LEMMA StartType ==
    ASSUME TypeOK, NEW c \in Calls, NEW request \in Requests,
           NEW stage \in Statements, Start(c, request, stage),
           stage = "password" => request.op = "UpdateEmployee" /\ UNCHANGED hash,
           stage = "count" => /\ request.op \in {"CreateEmployee", "UpdateEmployee"}
                              /\ \E h \in Hashes : hash' = [hash EXCEPT ![c] = h],
           stage = "write" => /\ request.op \notin {"CreateEmployee", "UpdateEmployee"}
                              /\ UNCHANGED hash,
           stage = "read" => request.op \in ReadOps /\ UNCHANGED hash
    PROVE  TypeOK'
<1>1. TablesOK'
  BY DEF TypeOK, TablesOK, Start, tables
<1>2. hash' \in [Calls -> Hashes \cup {NULL}] /\ \A b \in Calls \ {c} : hash'[b] = hash[b]
  BY DEF TypeOK, Statements
<1>3. pc' = [pc EXCEPT ![c] = stage] /\ req' = [req EXCEPT ![c] = request]
  BY DEF Start
<1>4. StageOK(c)'
  BY <1>2, <1>3 DEF StageOK, TypeOK, Statements
<1>5. ASSUME NEW b \in Calls, b # c  PROVE StageOK(b)'
  BY <1>2, <1>3, <1>5 DEF StageOK, TypeOK, Start
<1>6. \A b \in Calls : StageOK(b)'
  BY <1>4, <1>5
<1>7. pc' \in [Calls -> Statements \cup {"idle", "done"}] /\ req' \in [Calls -> Requests \cup {NULL}]
  BY <1>3 DEF TypeOK
<1>8. conn' = conn /\ reply' = reply /\ wrote' = wrote
  BY DEF Start
<1>9. CallsOK'
  BY <1>2, <1>6, <1>7, <1>8 DEF CallsOK, TypeOK
<1> QED  BY <1>1, <1>9 DEF TypeOK, TablesOK, CallsOK

\* So is one that is turned down.
LEMMA TurnDownType ==
    ASSUME TypeOK, NEW c \in Calls, NEW request \in Requests,
           NEW r \in Replies, TurnDown(c, request, r)
    PROVE  TypeOK'
<1>1. TablesOK'
  BY DEF TypeOK, TablesOK, TurnDown, tables
<1>2. StageOK(c)'
  BY DEF StageOK, TypeOK, TurnDown, Statements
<1>3. ASSUME NEW b \in Calls, b # c  PROVE StageOK(b)'
  BY <1>3 DEF StageOK, TypeOK, TurnDown
<1>4. CallsOK'
  BY <1>2, <1>3 DEF CallsOK, TypeOK, TurnDown
<1> QED  BY <1>1, <1>4 DEF TypeOK, TablesOK, CallsOK

\* Every operation starts or turns down a well-formed call.
LEMMA InvokeType ==
    ASSUME TypeOK, NEW c \in Calls, Invoke(c)
    PROVE  TypeOK'
<1> USE DEF Statements, Replies, ReadOps
<1>1. CASE GetEmployees(c)
  BY <1>1, StartType DEF GetEmployees, Requests
<1>2. CASE GetEmployeeByID(c)
  BY <1>2, StartType DEF GetEmployeeByID, Requests
<1>3. CASE CreateEmployee(c)
  <2> PICK form \in EmployeeForms :
        CreateEmployee(c)!(form)
    BY <1>3 DEF CreateEmployee
  <2> DEFINE request  == [op |-> "CreateEmployee", form |-> form]
             password == IF form.password \in {NULL, Blank} THEN Default
                                                            ELSE form.password
  <2>1. request \in Requests
    BY DEF Requests
  <2>2. password \in Passwords
    BY FormsAssumption, PasswordsAssumption DEF AnyEmployeeForm
  <2>3. CASE ~ form.named /\ TurnDown(c, request, "invalid")
    BY <2>1, <2>3, TurnDownType
  <2>4. CASE TurnDown(c, request, "error")
    BY <2>1, <2>4, TurnDownType
  <2>5. CASE Start(c, request, "count") /\ hash' = [hash EXCEPT ![c] = Hash(password)]
    BY <2>1, <2>2, <2>5, StartType DEF Hashes
  <2> QED  BY <2>3, <2>4, <2>5
<1>4. CASE RequestVacation(c)
  <2> PICK id \in EmployeeIds, days \in Days : RequestVacation(c)!(id, days)
    BY <1>4 DEF RequestVacation
  <2> DEFINE request == [op |-> "RequestVacation", id |-> id, days |-> days]
  <2>1. request \in Requests
    BY DEF Requests
  <2> QED  BY <2>1, StartType, TurnDownType
<1>5. CASE UpdateEmployee(c)
  <2> PICK id \in EmployeeIds, form \in EmployeeForms : UpdateEmployee(c)!(id, form)
    BY <1>5 DEF UpdateEmployee
  <2> DEFINE request == [op |-> "UpdateEmployee", id |-> id, form |-> form]
  <2>1. request \in Requests
    BY DEF Requests
  <2>2. CASE TurnDown(c, request, "invalid")
    BY <2>1, <2>2, TurnDownType
  <2>3. CASE Start(c, request, "password") /\ UNCHANGED hash
    BY <2>1, <2>3, StartType
  <2>4. CASE TurnDown(c, request, "error")
    BY <2>1, <2>4, TurnDownType
  <2>5. CASE /\ form.password \in Passwords
             /\ Start(c, request, "count")
             /\ hash' = [hash EXCEPT ![c] = Hash(form.password)]
    BY <2>1, <2>5, StartType DEF Hashes
  <2> QED  BY <2>2, <2>3, <2>4, <2>5
<1>6. CASE DeleteEmployee(c)
  BY <1>6, StartType DEF DeleteEmployee, Requests
<1>7. CASE GetDepartments(c)
  BY <1>7, StartType DEF GetDepartments, Requests
<1>8. CASE GetDepartmentByID(c)
  BY <1>8, StartType DEF GetDepartmentByID, Requests
<1>9. CASE CreateDepartment(c)
  <2> PICK form \in DepartmentForms : CreateDepartment(c)!(form)
    BY <1>9 DEF CreateDepartment
  <2> DEFINE request == [op |-> "CreateDepartment", form |-> form]
  <2>1. request \in Requests
    BY DEF Requests
  <2> QED  BY <2>1, StartType, TurnDownType
<1>10. CASE UpdateDepartment(c)
  BY <1>10, StartType DEF UpdateDepartment, Requests
<1>11. CASE DeleteDepartment(c)
  BY <1>11, StartType DEF DeleteDepartment, Requests
<1>12. CASE AuthLogin(c)
  BY <1>12, StartType DEF AuthLogin, Requests
<1> QED  BY <1>1, <1>2, <1>3, <1>4, <1>5, <1>6, <1>7, <1>8, <1>9, <1>10, <1>11, <1>12
     DEF Invoke

\* A call that ends without touching the tables leaves them all well-formed.
LEMMA FinishType ==
    ASSUME TypeOK, NEW c \in Calls, pc[c] # "idle", \E r \in Replies : Finish(c, r),
           conn' # c, conn' \in {"idle", "closed"} \/ conn' = conn,
           wrote' \in [Calls -> BOOLEAN],
           UNCHANGED <<req, hash>>
    PROVE  CallsOK'
<1>1. StageOK(c)'
  BY DEF StageOK, TypeOK, Finish
<1>2. ASSUME NEW b \in Calls, b # c  PROVE StageOK(b)'
  BY <1>2, CallsAssumption DEF StageOK, TypeOK, Finish
<1> QED  BY <1>1, <1>2 DEF CallsOK, TypeOK, Finish

\* Every step of a call under way keeps everything well-formed.
LEMMA ProceedType ==
    ASSUME TypeOK, NEW c \in Calls, Proceed(c)
    PROVE  TypeOK'
<1>0. SUFFICES TablesOK' /\ CallsOK'
  BY DEF TypeOK, TablesOK, CallsOK
<1> USE CallsAssumption
<1>1. /\ "ok" \in Replies /\ "missing" \in Replies /\ "duplicate" \in Replies
      /\ "error" \in Replies /\ ErrorReply(c) \in Replies /\ MissingReply(c) \in Replies
  BY DEF Replies, ErrorReply, MissingReply
<1>2. UNCHANGED tables => TablesOK'
  BY DEF TypeOK, TablesOK, tables
<1>3. CASE Acquire(c)
  BY <1>2, <1>3 DEF Acquire, CallsOK, TypeOK, StageOK
<1>4. CASE Refuse(c)
  BY <1>1, <1>2, <1>4, FinishType DEF Refuse, TypeOK, Statements
<1>5. CASE AnswerPassword(c)
  <2>1. CASE UNCHANGED hash /\ (Finish(c, "missing") \/ Finish(c, "error"))
    BY <1>1, <1>2, <1>5, <2>1, FinishType DEF AnswerPassword, TypeOK
  <2>2. CASE /\ req[c].id \in Ids(employees)
             /\ hash' = [hash EXCEPT ![c] = employees[req[c].id].password]
             /\ pc' = [pc EXCEPT ![c] = "count"]
             /\ UNCHANGED reply
    <3>1. req[c] \in Requests /\ req[c].op = "UpdateEmployee"
      BY <1>5 DEF AnswerPassword, TypeOK, StageOK
    <3>2. employees[req[c].id].password \in Hashes
      BY <2>2 DEF TypeOK, EmployeeTables, EmployeeRows, Ids
    <3>3. StageOK(c)'
      BY <1>5, <2>2, <3>1, <3>2 DEF AnswerPassword, TypeOK, StageOK
    <3>4. ASSUME NEW b \in Calls, b # c  PROVE StageOK(b)'
      BY <1>5, <2>2, <3>4 DEF AnswerPassword, TypeOK, StageOK
    <3>5. CallsOK'
      BY <1>5, <2>2, <3>2, <3>3, <3>4 DEF AnswerPassword, TypeOK, CallsOK, Statements
    <3> QED  BY <1>2, <1>5, <3>5 DEF AnswerPassword
  <2> QED  BY <1>5, <2>1, <2>2 DEF AnswerPassword
<1>6. CASE AnswerCount(c)
  <2>1. CASE Finish(c, "duplicate") \/ Finish(c, "error")
    BY <1>1, <1>2, <1>6, <2>1, FinishType DEF AnswerCount, TypeOK
  <2>2. CASE pc' = [pc EXCEPT ![c] = "write"] /\ UNCHANGED reply
    <3>1. StageOK(c)'
      BY <1>6, <2>2 DEF AnswerCount, TypeOK, StageOK
    <3>2. ASSUME NEW b \in Calls, b # c  PROVE StageOK(b)'
      BY <1>6, <2>2, <3>2 DEF AnswerCount, TypeOK, StageOK
    <3>3. CallsOK'
      BY <1>6, <2>2, <3>1, <3>2 DEF AnswerCount, TypeOK, CallsOK, Statements
    <3> QED  BY <1>2, <1>6, <3>3 DEF AnswerCount
  <2> QED  BY <1>6, <2>1, <2>2 DEF AnswerCount
<1>7. CASE AnswerRead(c)
  <2>1. \E r \in Replies : Finish(c, r)
    BY <1>1, <1>7 DEF AnswerRead
  <2> QED  BY <1>2, <1>7, <2>1, FinishType DEF AnswerRead, TypeOK
<1>8. CASE AnswerWrite(c)
  <2>1. TablesOK'
    BY <1>2, <1>8, LandType DEF AnswerWrite
  <2>2. CallsOK'
    <3>1. \E r \in Replies : Finish(c, r)
      BY <1>1, <1>8 DEF AnswerWrite, Finish
    <3>2. wrote' \in [Calls -> BOOLEAN]
      BY <1>8 DEF AnswerWrite, TypeOK
    <3> QED  BY <1>8, <3>1, <3>2, FinishType DEF AnswerWrite
  <2> QED  BY <2>1, <2>2
<1>9. CASE LoseConnection(c)
  <2>1. TablesOK'
    BY <1>2, <1>9, LandType DEF LoseConnection
  <2>2. CallsOK'
    <3>1. pc[c] # "idle" /\ c # "closed"
      BY <1>9 DEF LoseConnection, TypeOK, StageOK, Statements
    <3>2. \E r \in Replies : Finish(c, r)
      BY <1>1, <1>9 DEF LoseConnection, Finish
    <3>3. wrote' \in [Calls -> BOOLEAN]
      BY <1>9 DEF LoseConnection, TypeOK
    <3>4. conn' # c /\ conn' \in {"idle", "closed"} /\ UNCHANGED <<req, hash>>
      BY <1>9, <3>1 DEF LoseConnection
    <3> QED  BY <3>1, <3>2, <3>3, <3>4, FinishType
  <2> QED  BY <2>1, <2>2
<1>10. CASE Return(c)
  <2>1. ASSUME NEW b \in Calls  PROVE StageOK(b)'
    BY <1>10 DEF Return, TypeOK, StageOK, Statements
  <2>2. CallsOK'
    BY <1>10, <2>1 DEF Return, TypeOK, CallsOK
  <2> QED  BY <1>2, <1>10, <2>2 DEF Return
<1> QED  BY <1>3, <1>4, <1>5, <1>6, <1>7, <1>8, <1>9, <1>10 DEF Proceed, Answer

\* Every step of the service keeps everything well-formed.
LEMMA TypeStep == TypeOK /\ [Next]_vars => TypeOK'
<1> SUFFICES ASSUME TypeOK, [Next]_vars  PROVE TypeOK'
  OBVIOUS
<1>1. ASSUME NEW c \in Calls, Invoke(c)  PROVE TypeOK'
  BY <1>1, InvokeType
<1>2. ASSUME NEW c \in Calls, Proceed(c)  PROVE TypeOK'
  BY <1>2, ProceedType
<1>3. CASE Restart
  <2>1. TablesOK'
    BY <1>3, LandType DEF Restart, TypeOK, TablesOK, tables
  <2>2. CallsOK'
    BY <1>3, CallsAssumption DEF Restart, CallsOK, StageOK
  <2> QED  BY <2>1, <2>2 DEF TypeOK, TablesOK, CallsOK
<1>4. CASE UNCHANGED vars
  BY <1>4 DEF vars, tables, TypeOK, StageOK
<1> QED  BY <1>1, <1>2, <1>3, <1>4 DEF Next

\* The service starts well-formed.
LEMMA TypeInit == Init => TypeOK
<1> SUFFICES ASSUME Init  PROVE TypeOK
  OBVIOUS
<1>1. TablesOK
  BY SeedAssumption DEF Init, TablesOK, EmployeeTables, DepartmentTables, EmployeeRows, Ids
<1>2. CallsOK
  BY CallsAssumption DEF Init, CallsOK, StageOK
<1> QED  BY <1>1, <1>2 DEF TypeOK, TablesOK, CallsOK

\* Every reachable state is well-formed: whatever the interleaving of calls,
\* failures and restarts, the tables hold rows of the right kind with hashed
\* passwords and vacation counters that fit their column, only the call at a
\* statement holds the connection, and no call reaches a statement without
\* what it needs.
THEOREM TypeCorrect == Spec => []TypeOK
  BY TypeInit, TypeStep, PTL DEF Spec

----
(***************************************************************************)
(* Integrity of the tables.                                                *)
(***************************************************************************)
IntegrityOf(emps, depts) == UniqueKeysOf(emps, depts) /\ ReferencesOf(emps, depts)

\* Writing an accepted employee row keeps keys unique and references whole.
LEMMA PutEmployeeIntegrity ==
    ASSUME NEW emps \in EmployeeTables, NEW depts \in DepartmentTables,
           IntegrityOf(emps, depts),
           NEW id \in EmployeeIds, NEW row, EmployeeAccepted(emps, depts, id, row)
    PROVE  IntegrityOf([emps EXCEPT ![id] = row], depts)
<1> DEFINE new == [emps EXCEPT ![id] = row]
<1>1. row # NULL /\ row \in EmployeeRows
  BY NullAssumption DEF EmployeeAccepted
<1>2. /\ new[id] = row
      /\ \A e \in EmployeeIds \ {id} : new[e] = emps[e]
      /\ Ids(new) = Ids(emps) \cup {id}
      /\ Ids(emps) \subseteq EmployeeIds
  BY <1>1 DEF EmployeeTables, Ids
<1> HIDE DEF new
<1>3. UniqueKeysOf(new, depts)
  <2>1. ASSUME NEW e \in Ids(new), NEW f \in Ids(new), e # f
        PROVE  ~ SameKey(new[e], new[f])
    BY <1>2, <2>1 DEF IntegrityOf, UniqueKeysOf, EmployeeAccepted, SameKey
  <2> QED  BY <2>1 DEF IntegrityOf, UniqueKeysOf
<1>4. ReferencesOf(new, depts)
  BY <1>2 DEF IntegrityOf, ReferencesOf, EmployeeAccepted
<1> QED  BY <1>3, <1>4 DEF IntegrityOf, new

\* So does writing an accepted department row.
LEMMA PutDepartmentIntegrity ==
    ASSUME NEW emps \in EmployeeTables, NEW depts \in DepartmentTables,
           IntegrityOf(emps, depts),
           NEW id \in DepartmentIds, NEW row, DepartmentAccepted(emps, depts, id, row)
    PROVE  IntegrityOf(emps, [depts EXCEPT ![id] = row])
<1> DEFINE new == [depts EXCEPT ![id] = row]
<1>1. row # NULL
  BY NullAssumption DEF DepartmentAccepted
<1>2. /\ new[id] = row
      /\ \A d \in DepartmentIds \ {id} : new[d] = depts[d]
      /\ Ids(new) = Ids(depts) \cup {id}
      /\ Ids(depts) \subseteq DepartmentIds
  BY <1>1 DEF DepartmentTables, Ids
<1> HIDE DEF new
<1>3. UniqueKeysOf(emps, new)
  <2>1. ASSUME NEW d \in Ids(new), NEW g \in Ids(new), d # g
        PROVE  new[d].name # new[g].name
    BY <1>2, <2>1 DEF IntegrityOf, UniqueKeysOf, DepartmentAccepted
  <2> QED  BY <2>1 DEF IntegrityOf, UniqueKeysOf
<1>4. ReferencesOf(emps, new)
  BY <1>2 DEF IntegrityOf, ReferencesOf, DepartmentAccepted
<1> QED  BY <1>3, <1>4 DEF IntegrityOf, new

\* Adding vacation days touches no key and no reference.
LEMMA VacationIntegrity ==
    ASSUME NEW emps \in EmployeeTables, NEW depts, IntegrityOf(emps, depts),
           NEW id \in Ids(emps), NEW days \in 0..MaxDays
    PROVE  IntegrityOf([emps EXCEPT ![id].vacation_days = days], depts)
<1> DEFINE new == [emps EXCEPT ![id].vacation_days = days]
<1>1. ASSUME NEW e \in Ids(emps)
      PROVE  /\ new[e] # NULL
             /\ new[e].email = emps[e].email
             /\ new[e].personal_number = emps[e].personal_number
             /\ new[e].department_id = emps[e].department_id
             /\ new[e].manager_id = emps[e].manager_id
  <2>1. emps[e] \in EmployeeRows /\ e \in EmployeeIds /\ id \in EmployeeIds
    BY DEF EmployeeTables, Ids
  <2>2. CASE e = id
    <3>1. new[e] = [emps[e] EXCEPT !.vacation_days = days]
      BY <2>1, <2>2 DEF EmployeeTables
    <3>2. [emps[e] EXCEPT !.vacation_days = days] \in EmployeeRows
      BY <2>1 DEF EmployeeRows
    <3> QED  BY <2>1, <3>1, <3>2, NullAssumption DEF EmployeeRows
  <2>3. CASE e # id
    BY <2>1, <2>3 DEF EmployeeTables, Ids
  <2> QED  BY <2>2, <2>3
<1>2. Ids(new) = Ids(emps)
  <2>1. ASSUME NEW e \in EmployeeIds, e \notin Ids(emps)  PROVE new[e] = emps[e]
    BY <2>1 DEF EmployeeTables
  <2> QED  BY <1>1, <2>1 DEF EmployeeTables, Ids
<1> HIDE DEF new
<1>3. UniqueKeysOf(new, depts)
  BY <1>1, <1>2 DEF IntegrityOf, UniqueKeysOf, SameKey
<1>4. ReferencesOf(new, depts)
  BY <1>1, <1>2 DEF IntegrityOf, ReferencesOf
<1> QED  BY <1>3, <1>4 DEF IntegrityOf, new

\* Deleting an employee: ON DELETE SET NULL clears every reference to the row.
LEMMA RemoveEmployeeIntegrity ==
    ASSUME NEW emps \in EmployeeTables, NEW depts \in DepartmentTables,
           IntegrityOf(emps, depts), NEW id \in EmployeeIds
    PROVE  IntegrityOf(WithoutEmployee(emps, id), WithoutHead(depts, id))
<1> DEFINE es == WithoutEmployee(emps, id)
           ds == WithoutHead(depts, id)
<1>1. ASSUME NEW e \in Ids(emps), e # id
      PROVE  /\ es[e] # NULL
             /\ es[e].email = emps[e].email
             /\ es[e].personal_number = emps[e].personal_number
             /\ es[e].department_id = emps[e].department_id
             /\ es[e].manager_id = SetNull(emps[e].manager_id, id)
  <2>1. emps[e] \in EmployeeRows /\ e \in EmployeeIds
    BY DEF EmployeeTables, Ids
  <2>2. es[e] = [emps[e] EXCEPT !.manager_id = SetNull(@, id)]
    BY <1>1, <2>1 DEF WithoutEmployee, EmployeeTables, Ids
  <2>3. es[e] \in EmployeeRows
    BY <2>1, <2>2 DEF EmployeeRows, SetNull
  <2> QED  BY <2>1, <2>2, <2>3, NullAssumption DEF EmployeeRows, SetNull
<1>2. Ids(es) = Ids(emps) \ {id}
  BY <1>1 DEF Ids, WithoutEmployee, EmployeeTables
<1>3. ASSUME NEW d \in Ids(depts)
      PROVE  /\ ds[d] # NULL
             /\ ds[d].name = depts[d].name
             /\ ds[d].parent_id = depts[d].parent_id
             /\ ds[d].head_id = SetNull(depts[d].head_id, id)
  <2>1. depts[d] \in DepartmentRows /\ d \in DepartmentIds
    BY DEF DepartmentTables, Ids
  <2>2. ds[d] = [depts[d] EXCEPT !.head_id = SetNull(@, id)]
    BY <2>1 DEF WithoutHead, DepartmentTables, Ids
  <2>3. ds[d] \in DepartmentRows
    BY <2>1, <2>2 DEF DepartmentRows, SetNull
  <2> QED  BY <2>1, <2>2, <2>3, NullAssumption DEF DepartmentRows, SetNull
<1>4. Ids(ds) = Ids(depts)
  BY <1>3 DEF Ids, WithoutHead, DepartmentTables
<1> HIDE DEF es, ds
<1>5. UniqueKeysOf(es, ds)
  BY <1>1, <1>2, <1>3, <1>4 DEF IntegrityOf, UniqueKeysOf, SameKey
<1>6. ReferencesOf(es, ds)
  BY <1>1, <1>2, <1>3, <1>4 DEF IntegrityOf, ReferencesOf, SetNull
<1> QED  BY <1>5, <1>6 DEF IntegrityOf, es, ds

\* Deleting a department nobody works in keeps the tables whole.
LEMMA RemoveDepartmentIntegrity ==
    ASSUME NEW emps \in EmployeeTables, NEW depts \in DepartmentTables,
           IntegrityOf(emps, depts), NEW id \in DepartmentIds,
           DepartmentDeletable(emps, id)
    PROVE  IntegrityOf(emps, WithoutDepartment(depts, id))
<1> DEFINE ds == WithoutDepartment(depts, id)
<1>1. ASSUME NEW d \in Ids(depts), d # id
      PROVE  /\ ds[d] # NULL
             /\ ds[d].name = depts[d].name
             /\ ds[d].head_id = depts[d].head_id
             /\ ds[d].parent_id = SetNull(depts[d].parent_id, id)
  <2>1. depts[d] \in DepartmentRows /\ d \in DepartmentIds
    BY DEF DepartmentTables, Ids
  <2>2. ds[d] = [depts[d] EXCEPT !.parent_id = SetNull(@, id)]
    BY <1>1, <2>1 DEF WithoutDepartment, DepartmentTables, Ids
  <2>3. ds[d] \in DepartmentRows
    BY <2>1, <2>2 DEF DepartmentRows, SetNull
  <2> QED  BY <2>1, <2>2, <2>3, NullAssumption DEF DepartmentRows, SetNull
<1>2. Ids(ds) = Ids(depts) \ {id}
  BY <1>1 DEF Ids, WithoutDepartment, DepartmentTables
<1> HIDE DEF ds
<1>3. UniqueKeysOf(emps, ds)
  BY <1>1, <1>2 DEF IntegrityOf, UniqueKeysOf
<1>4. ReferencesOf(emps, ds)
  BY <1>1, <1>2 DEF IntegrityOf, ReferencesOf, SetNull, DepartmentDeletable
<1> QED  BY <1>3, <1>4 DEF IntegrityOf, ds

Integrity == UniqueKeys /\ NoDanglingReferences

\* A statement that lands keeps the tables whole, whatever the COUNT query
\* said and however long ago.
LEMMA LandIntegrity ==
    ASSUME TypeOK, Integrity, NEW c \in Calls, Land(c)
    PROVE  Integrity'
<1> USE DEF Integrity, UniqueKeys, NoDanglingReferences
<1>0. /\ req[c] \in Requests
      /\ employees \in EmployeeTables
      /\ departments \in DepartmentTables
      /\ Ids(employees) \subseteq EmployeeIds
      /\ Ids(departments) \subseteq DepartmentIds
      /\ IntegrityOf(employees, departments)
  BY DEF TypeOK, Land, StageOK, IntegrityOf, Ids, EmployeeTables, DepartmentTables
<1>1. SUFFICES IntegrityOf(employees', departments')
  BY DEF IntegrityOf
<1>2. CASE InsertEmployee(c)
  <2> PICK id \in EmployeeIds \ usedEmployees :
        /\ EmployeeAccepted(employees, departments, id, EmployeeRow(req[c].form, hash[c]))
        /\ employees' = [employees EXCEPT ![id] = EmployeeRow(req[c].form, hash[c])]
        /\ departments' = departments
    BY <1>2 DEF InsertEmployee
  <2> QED  BY <1>0, PutEmployeeIntegrity
<1>3. CASE updateEmployeeInDB(c)
  BY <1>0, <1>3, PutEmployeeIntegrity DEF updateEmployeeInDB
<1>4. CASE AddVacation(c)
  <2>1. employees[req[c].id].vacation_days + req[c].days \in 0..MaxDays
    BY <1>0, <1>4, FormsAssumption, MaxDaysAssumption
       DEF AddVacation, EmployeeTables, EmployeeRows, Ids, Requests
  <2> QED  BY <1>0, <1>4, <2>1, VacationIntegrity DEF AddVacation
<1>5. CASE RemoveEmployee(c)
  BY <1>0, <1>5, RemoveEmployeeIntegrity DEF RemoveEmployee
<1>6. CASE InsertDepartment(c)
  <2> PICK id \in DepartmentIds \ usedDepartments :
        /\ DepartmentAccepted(employees, departments, id, req[c].form)
        /\ departments' = [departments EXCEPT ![id] = req[c].form]
        /\ employees' = employees
    BY <1>6 DEF InsertDepartment
  <2> QED  BY <1>0, PutDepartmentIntegrity
<1>7. CASE ReplaceDepartment(c)
  BY <1>0, <1>7, PutDepartmentIntegrity DEF ReplaceDepartment
<1>8. CASE RemoveDepartment(c)
  BY <1>0, <1>8, RemoveDepartmentIntegrity DEF RemoveDepartment
<1> QED  BY <1>2, <1>3, <1>4, <1>5, <1>6, <1>7, <1>8 DEF Land

\* A step either leaves the tables alone or lands one statement.
LEMMA TablesChangeByLanding ==
    ASSUME [Next]_vars
    PROVE  UNCHANGED tables \/ \E c \in Calls : Land(c)
<1>1. ASSUME NEW c \in Calls, Invoke(c)  PROVE UNCHANGED tables
  BY <1>1 DEF Invoke, GetEmployees, GetEmployeeByID, CreateEmployee, RequestVacation,
     UpdateEmployee, DeleteEmployee, GetDepartments, GetDepartmentByID, CreateDepartment,
     UpdateDepartment, DeleteDepartment, AuthLogin, Start, TurnDown
<1>2. ASSUME NEW c \in Calls, Proceed(c)  PROVE UNCHANGED tables \/ Land(c)
  BY <1>2 DEF Proceed, Answer, Acquire, Refuse, AnswerPassword, AnswerCount, AnswerRead,
     AnswerWrite, LoseConnection, Return
<1>3. CASE Restart
  BY <1>3 DEF Restart
<1> QED  BY <1>1, <1>2, <1>3 DEF Next, vars

\* Every step keeps keys unique and references whole.
LEMMA IntegrityStep == TypeOK /\ Integrity /\ [Next]_vars => Integrity'
<1> SUFFICES ASSUME TypeOK, Integrity, [Next]_vars  PROVE Integrity'
  OBVIOUS
<1>1. CASE UNCHANGED tables
  BY <1>1 DEF tables, Integrity, UniqueKeys, NoDanglingReferences
<1>2. ASSUME NEW c \in Calls, Land(c)  PROVE Integrity'
  BY <1>2, LandIntegrity
<1> QED  BY <1>1, <1>2, TablesChangeByLanding

\* Emails, personal numbers and department names stay unique and every
\* reference leads to a row, for any number of concurrent calls: the
\* check-then-act of CreateEmployee and UpdateEmployee is harmless to the
\* tables because the constraints of the migrations back it.
THEOREM IntegrityHolds == Spec => [](UniqueKeys /\ NoDanglingReferences)
<1>1. Init => Integrity
  BY SeedAssumption DEF Init, Integrity, UniqueKeys, NoDanglingReferences
<1>2. Spec => []Integrity
  BY <1>1, TypeCorrect, IntegrityStep, PTL DEF Spec
<1> QED  BY <1>2, PTL DEF Integrity

\* No manager, department, parent or head reference ever leads nowhere: what
\* one call deletes is cleared from, or refused for, the rows other calls are
\* about to write.
THEOREM ReferencesStayWhole == Spec => []NoDanglingReferences
  BY IntegrityHolds, PTL

----
(***************************************************************************)
(* Deleted rows stay deleted.                                              *)
(***************************************************************************)
NoReturn ==
    /\ \A e \in usedEmployees \ Ids(employees) : e \notin Ids(employees')
    /\ \A d \in usedDepartments \ Ids(departments) : d \notin Ids(departments')

\* No statement that lands brings a deleted row back: an UPDATE needs its row,
\* an INSERT takes an id never used.
LEMMA LandNoReturn ==
    ASSUME TypeOK, NEW c \in Calls, Land(c)
    PROVE  NoReturn
<1> USE DEF NoReturn, Ids
<1>0. employees \in EmployeeTables /\ departments \in DepartmentTables
  BY DEF TypeOK
<1>1. CASE InsertEmployee(c)
  BY <1>0, <1>1 DEF InsertEmployee, EmployeeTables, DepartmentTables
<1>2. CASE updateEmployeeInDB(c)
  BY <1>0, <1>2 DEF updateEmployeeInDB, EmployeeTables
<1>3. CASE AddVacation(c)
  BY <1>0, <1>3 DEF AddVacation, EmployeeTables
<1>4. CASE RemoveEmployee(c)
  BY <1>0, <1>4 DEF RemoveEmployee, WithoutEmployee, WithoutHead,
     EmployeeTables, DepartmentTables
<1>5. CASE InsertDepartment(c)
  BY <1>0, <1>5 DEF InsertDepartment, DepartmentTables
<1>6. CASE ReplaceDepartment(c)
  BY <1>0, <1>6 DEF ReplaceDepartment, DepartmentTables
<1>7. CASE RemoveDepartment(c)
  BY <1>0, <1>7 DEF RemoveDepartment, WithoutDepartment, DepartmentTables
<1> QED  BY <1>1, <1>2, <1>3, <1>4, <1>5, <1>6, <1>7 DEF Land

\* No step brings a deleted row back.
LEMMA NoReturnStep == TypeOK /\ [Next]_vars => [NoReturn]_vars
<1> SUFFICES ASSUME TypeOK, [Next]_vars  PROVE NoReturn
  OBVIOUS
<1>1. CASE UNCHANGED tables
  BY <1>1 DEF tables, NoReturn
<1>2. ASSUME NEW c \in Calls, Land(c)  PROVE NoReturn
  BY <1>2, LandNoReturn
<1> QED  BY <1>1, <1>2, TablesChangeByLanding

\* No id of a deleted row is ever seen again: an UPDATE that arrives after the
\* DELETE finds nothing, and the SERIAL columns never hand an id out twice.
THEOREM DeletedForGood == Spec => NoResurrection
<1>1. Spec => [][NoReturn]_vars
  BY TypeCorrect, NoReturnStep, PTL DEF Spec
<1> QED  BY <1>1, PTL DEF NoResurrection, NoReturn

----
(***************************************************************************)
(* Truthful replies.                                                       *)
(***************************************************************************)
\* ReplyTruthful of one call, and what makes it inductive: a call that has
\* no result yet has written nothing.
TruthfulOf(c) ==
    /\ pc[c] = "done" =>
         /\ reply[c] = "ok" /\ req[c].op \in WriteOps \ {"DeleteDepartment"} => wrote[c]
         /\ wrote[c] /\ reply[c] # "ok" => conn = "closed"
    /\ pc[c] # "done" => ~ wrote[c]

Truthful == \A c \in Calls : TruthfulOf(c)

\* Nobody but its goroutine touches a call, and a closed connection stays
\* closed, as long as the process lives.
LEMMA OthersUntouched ==
    ASSUME TypeOK, NEW c \in Calls, Invoke(c) \/ Proceed(c),
           NEW b \in Calls, b # c
    PROVE  /\ pc'[b] = pc[b] /\ req'[b] = req[b] /\ hash'[b] = hash[b]
           /\ reply'[b] = reply[b] /\ wrote'[b] = wrote[b]
           /\ conn = "closed" => conn' = "closed"
<1>1. CASE Invoke(c)
  BY <1>1 DEF TypeOK, Invoke, GetEmployees, GetEmployeeByID, CreateEmployee,
     RequestVacation, UpdateEmployee, DeleteEmployee, GetDepartments, GetDepartmentByID,
     CreateDepartment, UpdateDepartment, DeleteDepartment, AuthLogin, Start, TurnDown
<1>2. CASE Proceed(c)
  BY <1>2, CallsAssumption DEF TypeOK, Proceed, Answer, Acquire, Refuse, AnswerPassword,
     AnswerCount, AnswerRead, AnswerWrite, LoseConnection, Return, Finish
<1> QED  BY <1>1, <1>2

\* A call that has just begun has written nothing and reports no success.
LEMMA TruthfulInvoke ==
    ASSUME TypeOK, Truthful, NEW c \in Calls, Invoke(c)
    PROVE  TruthfulOf(c)'
<1>1. \/ \E request, stage : Start(c, request, stage) /\ stage \in Statements
      \/ \E request : TurnDown(c, request, "invalid") \/ TurnDown(c, request, "error")
  BY DEF Invoke, GetEmployees, GetEmployeeByID, CreateEmployee, RequestVacation,
     UpdateEmployee, DeleteEmployee, GetDepartments, GetDepartmentByID, CreateDepartment,
     UpdateDepartment, DeleteDepartment, AuthLogin, Statements
<1>2. ~ wrote[c]
  BY <1>1 DEF Start, TurnDown, Truthful, TruthfulOf
<1> QED  BY <1>1, <1>2 DEF TypeOK, Start, TurnDown, TruthfulOf, Statements

\* A call that moves on keeps its reply in line with what it wrote.
LEMMA TruthfulProceed ==
    ASSUME TypeOK, Truthful, NEW c \in Calls, Proceed(c)
    PROVE  TruthfulOf(c)'
<1> USE DEF TruthfulOf, ReadOps, WriteOps
<1>0. /\ pc[c] \in Statements => req[c] \in Requests /\ ~ wrote[c]
      /\ conn = c => pc[c] \in Statements
      /\ wrote \in [Calls -> BOOLEAN] /\ pc[c] \in Statements \cup {"idle", "done"}
      /\ ErrorReply(c) = "ok" => req[c].op = "DeleteDepartment"
      /\ MissingReply(c) = "ok" => req[c].op = "DeleteDepartment"
  BY DEF TypeOK, StageOK, Truthful, Statements, ErrorReply, MissingReply
<1>1. CASE Acquire(c)
  BY <1>0, <1>1 DEF Acquire, Statements
<1>2. CASE Refuse(c)
  BY <1>0, <1>2 DEF Refuse, Finish, TypeOK
<1>3. CASE AnswerPassword(c)
  BY <1>0, <1>3 DEF AnswerPassword, Finish, TypeOK, Statements
<1>4. CASE AnswerCount(c)
  BY <1>0, <1>4 DEF AnswerCount, Finish, TypeOK, Statements
<1>5. CASE AnswerRead(c)
  BY <1>0, <1>5 DEF AnswerRead, Finish, TypeOK, StageOK, Statements
<1>6. CASE AnswerWrite(c)
  BY <1>0, <1>6 DEF AnswerWrite, Finish, TypeOK, Statements
<1>7. CASE LoseConnection(c)
  BY <1>0, <1>7 DEF LoseConnection, Finish, TypeOK, Statements
<1>8. CASE Return(c)
  BY <1>0, <1>8 DEF Return, TypeOK
<1> QED  BY <1>1, <1>2, <1>3, <1>4, <1>5, <1>6, <1>7, <1>8 DEF Proceed, Answer

\* Every step keeps every reply in line with what was written.
LEMMA TruthfulStep == TypeOK /\ Truthful /\ [Next]_vars => Truthful'
<1> SUFFICES ASSUME TypeOK, Truthful, [Next]_vars  PROVE Truthful'
  OBVIOUS
<1>1. ASSUME NEW c \in Calls, Invoke(c) \/ Proceed(c)  PROVE Truthful'
  <2>1. TruthfulOf(c)'
    BY <1>1, TruthfulInvoke, TruthfulProceed
  <2>2. ASSUME NEW b \in Calls, b # c  PROVE TruthfulOf(b)'
    BY <1>1, <2>2, OthersUntouched DEF Truthful, TruthfulOf
  <2> QED  BY <2>1, <2>2 DEF Truthful
<1>2. CASE Restart
  BY <1>2 DEF Restart, Truthful, TruthfulOf
<1>3. CASE UNCHANGED vars
  BY <1>3 DEF vars, Truthful, TruthfulOf
<1> QED  BY <1>1, <1>2, <1>3 DEF Next

\* What a call reports is what it did: success only for a write that landed
\* (DeleteDepartment apart), failure after a landed write only when the
\* connection broke under it.
THEOREM RepliesAreTruthful == Spec => []ReplyTruthful
<1>1. Init => Truthful
  BY DEF Init, Truthful, TruthfulOf
<1>2. Spec => []Truthful
  BY <1>1, TypeCorrect, TruthfulStep, PTL DEF Spec
<1>3. Truthful => ReplyTruthful
  BY DEF Truthful, TruthfulOf, ReplyTruthful
<1> QED  BY <1>2, <1>3, PTL

----
(***************************************************************************)
(* Passwords stay with their employee.                                     *)
(***************************************************************************)
\* A hash read back for an employee, on its way to be written again, is one
\* given for that employee.
CarriesOwn(c) ==
    /\ pc[c] \in {"count", "write"}
    /\ req[c].op = "UpdateEmployee" /\ req[c].form.password = NULL
    => hash[c] \in given[req[c].id]

OwnPasswords == PasswordsWereGiven /\ \A c \in Calls : CarriesOwn(c)

\* A landing statement leaves every row with a given password and takes
\* nothing from the history.
LEMMA LandPasswords ==
    ASSUME TypeOK, OwnPasswords, NEW c \in Calls, Land(c)
    PROVE  /\ PasswordsWereGiven'
           /\ \A e \in EmployeeIds : given[e] \subseteq given'[e]
<1> USE DEF PasswordsWereGiven
<1>0. /\ req[c] \in Requests /\ pc[c] = "write"
      /\ employees \in EmployeeTables /\ given \in [EmployeeIds -> SUBSET Hashes]
      /\ CarriesOwn(c)
      /\ PasswordsWereGiven
  BY DEF TypeOK, Land, StageOK, OwnPasswords
<1>1. CASE InsertEmployee(c)
  BY <1>0, <1>1 DEF InsertEmployee, EmployeeRow, EmployeeTables, Ids
<1>2. CASE updateEmployeeInDB(c)
  BY <1>0, <1>2 DEF updateEmployeeInDB, EmployeeRow, EmployeeTables, Ids, CarriesOwn
<1>3. CASE AddVacation(c)
  <2>1. ASSUME NEW e \in Ids(employees')
        PROVE  e \in Ids(employees) /\ employees'[e].password = employees[e].password
    BY <1>0, <1>3, <2>1 DEF AddVacation, EmployeeTables, EmployeeRows, Ids
  <2> QED  BY <1>0, <1>3, <2>1 DEF AddVacation
<1>4. CASE RemoveEmployee(c)
  <2>1. ASSUME NEW e \in Ids(employees')
        PROVE  e \in Ids(employees) /\ employees'[e].password = employees[e].password
    BY <1>0, <1>4, <2>1 DEF RemoveEmployee, WithoutEmployee, EmployeeTables,
       EmployeeRows, Ids
  <2> QED  BY <1>0, <1>4, <2>1 DEF RemoveEmployee
<1>5. CASE UNCHANGED <<employees, given>>
  BY <1>0, <1>5 DEF Ids
<1> QED  BY <1>1, <1>2, <1>3, <1>4, <1>5 DEF Land, InsertDepartment, ReplaceDepartment,
     RemoveDepartment

\* Every step leaves only given passwords in the tables and no hash forgotten.
LEMMA PasswordsTables ==
    ASSUME TypeOK, OwnPasswords, [Next]_vars
    PROVE  /\ PasswordsWereGiven'
           /\ \A e \in EmployeeIds : given[e] \subseteq given'[e]
<1>1. CASE UNCHANGED tables
  BY <1>1 DEF tables, OwnPasswords, PasswordsWereGiven, Ids
<1> QED  BY <1>1, LandPasswords, TablesChangeByLanding

\* Only getPasswordHash puts a stored hash in a call's hands, and it reads
\* the row of the call's own employee.
LEMMA CarriesOwnStep ==
    ASSUME TypeOK, OwnPasswords, NEW c \in Calls, Invoke(c) \/ Proceed(c),
           \A e \in EmployeeIds : given[e] \subseteq given'[e]
    PROVE  CarriesOwn(c)'
<1>1. CASE CreateEmployee(c)
  BY <1>1 DEF CreateEmployee, Start, TurnDown, TypeOK, CarriesOwn
<1>2. CASE UpdateEmployee(c)
  BY <1>2, FormsAssumption, NullAssumption
     DEF UpdateEmployee, Start, TurnDown, TypeOK, CarriesOwn, Hashes
<1>3. CASE Invoke(c) /\ ~ CreateEmployee(c) /\ ~ UpdateEmployee(c)
  BY <1>3 DEF Invoke, GetEmployees, GetEmployeeByID, RequestVacation, DeleteEmployee,
     GetDepartments, GetDepartmentByID, CreateDepartment, UpdateDepartment,
     DeleteDepartment, AuthLogin, Start, TurnDown, TypeOK, CarriesOwn
<1>4. CASE AnswerPassword(c)
  BY <1>4 DEF AnswerPassword, Finish, TypeOK, OwnPasswords, PasswordsWereGiven, CarriesOwn,
     Ids, EmployeeTables, tables
<1>5. CASE AnswerCount(c)
  BY <1>5 DEF AnswerCount, Finish, TypeOK, OwnPasswords, CarriesOwn, StageOK, tables
<1>6. CASE Acquire(c)
  BY <1>6 DEF Acquire, OwnPasswords, CarriesOwn, tables
<1>7. CASE Proceed(c) /\ pc'[c] \in {"done", "idle"}
  BY <1>7 DEF CarriesOwn
<1>8. Proceed(c) => \/ AnswerPassword(c) \/ AnswerCount(c) \/ Acquire(c)
                    \/ pc'[c] \in {"done", "idle"}
  BY DEF Proceed, Answer, Refuse, AnswerRead, AnswerWrite, LoseConnection, Return,
     Finish, TypeOK
<1> QED  BY <1>1, <1>2, <1>3, <1>4, <1>5, <1>6, <1>7, <1>8

\* Every step keeps stored and carried hashes with their employee.
LEMMA OwnPasswordsStep == TypeOK /\ OwnPasswords /\ [Next]_vars => OwnPasswords'
<1> SUFFICES ASSUME TypeOK, OwnPasswords, [Next]_vars  PROVE OwnPasswords'
  OBVIOUS
<1>0. /\ PasswordsWereGiven'
      /\ \A e \in EmployeeIds : given[e] \subseteq given'[e]
  BY PasswordsTables
<1>1. ASSUME NEW c \in Calls, Invoke(c) \/ Proceed(c),
             NEW b \in Calls
      PROVE  CarriesOwn(b)'
  <2>1. CASE b = c
    BY <1>0, <1>1, <2>1, CarriesOwnStep
  <2>2. CASE b # c
    <3>1. pc'[b] = pc[b] /\ req'[b] = req[b] /\ hash'[b] = hash[b]
      BY <1>1, <2>2, OthersUntouched
    <3>2. pc[b] \in {"count", "write"} /\ req[b].op = "UpdateEmployee"
            => req[b].id \in EmployeeIds
      BY DEF TypeOK, StageOK, Requests
    <3> QED  BY <1>0, <3>1, <3>2 DEF OwnPasswords, CarriesOwn
  <2> QED  BY <2>1, <2>2
<1>2. CASE Restart
  BY <1>0, <1>2 DEF Restart, OwnPasswords, CarriesOwn
<1>3. CASE UNCHANGED vars
  BY <1>0, <1>3 DEF vars, tables, OwnPasswords, CarriesOwn
<1> QED  BY <1>0, <1>1, <1>2, <1>3 DEF Next, OwnPasswords

\* An employee's stored hash was made from a password submitted for that
\* employee, however the reading and the writing back of UpdateEmployee
\* interleave with other calls.
THEOREM PasswordsStayHome == Spec => []PasswordsWereGiven
<1>1. Init => OwnPasswords
  BY SeedAssumption DEF Init, OwnPasswords, PasswordsWereGiven, CarriesOwn, Ids,
     EmployeeTables
<1>2. Spec => []OwnPasswords
  BY <1>1, TypeCorrect, OwnPasswordsStep, PTL DEF Spec
<1> QED  BY <1>2, PTL DEF OwnPasswords

====
