---- MODULE ApiProofs ----
(***************************************************************************)
(* Theorems about Api: the statuses that handlers answer with tell what    *)
(* the controllers did, what was read can be sent back, and requests get   *)
(* on.  That the handlers run the controllers as Controllers describes     *)
(* them is in the way Api is written: its lemma only hands the theorems    *)
(* about Controllers on to every door.                                     *)
(***************************************************************************)
EXTENDS Api, ControllersProofs

\* Every step of a handler is a step of the controllers or leaves them alone.
LEMMA HandlerStep == [ApiNext]_apiVars => [Next]_vars
<1> SUFFICES ASSUME [ApiNext]_apiVars  PROVE [Next]_vars
  OBVIOUS
<1>1. ASSUME NEW c \in Calls, Serve(c)  PROVE [Next]_vars
  <2>1. CASE Handle(c)
    BY <2>1 DEF Handle, Next
  <2>2. CASE Work(c)
    BY <2>2 DEF Work, Next
  <2>3. CASE Respond(c)
    BY <2>3 DEF Respond, RespondWith, Next, Proceed
  <2>4. CASE UNCHANGED vars
    BY <2>4
  <2>5. Handle(c) \/ Work(c) \/ Respond(c) \/ UNCHANGED vars
    BY <1>1 DEF Serve, Advance, Receive, BadRequest, Unavailable, Route, Unauthorized,
       Authorized, BadBody, Logout, GiveUp, Close, Reject
  <2> QED  BY <2>1, <2>2, <2>3, <2>4, <2>5
<1>2. CASE Crash
  BY <1>2 DEF Crash, Next
<1>3. CASE ServeGRPC \/ ServeHTTP \/ UNCHANGED apiVars
  BY <1>3 DEF ServeGRPC, ServeHTTP, apiVars
<1> QED  BY <1>1, <1>2, <1>3 DEF ApiNext

\* What holds of the controllers holds of them behind the handlers.
LEMMA HandlersRunControllers == ApiSpec => Spec
<1>1. ApiInit => Init
  BY DEF ApiInit
<1> QED  BY <1>1, HandlerStep, PTL DEF ApiSpec, Spec

----
(***************************************************************************)
(* Type correctness.                                                       *)
(***************************************************************************)
\* The part of ApiTypeOK that is about one request.
RequestOK(c) ==
    /\ stage[c] = "controller" <=> pc[c] # "idle"
    /\ stage[c] = "answered" => answer[c] # NULL
    /\ answer[c] \in {NULL, 503} \/ stage[c] = "answered"
    /\ stage[c] = "controller" => req[c].op = asked[c]
    /\ stage[c] # "controller" => shown[c] = {}
    /\ stage[c] # "idle" => door[c] \in OpenDoors

\* The part about the variables as a whole.
HandlersOK ==
    /\ boot \in {"down", "grpc", "up"}
    /\ stage \in [Calls -> {"idle", "routed", "auth", "handler", "controller", "answered"}]
    /\ door \in [Calls -> AllDoors \cup {NULL}]
    /\ asked \in [Calls -> AllRequests \cup {NULL}]
    /\ answer \in [Calls -> Statuses \cup {NULL}]
    /\ shown \in [Calls -> SUBSET Dates]

\* A call that has begun has left the idle state.
LEMMA InvokeBegins ==
    ASSUME TypeOK, NEW c \in Calls, Invoke(c)
    PROVE  pc'[c] # "idle"
<1> USE DEF Statements
<1>1. \/ \E request, at : Start(c, request, at) /\ at \in Statements
      \/ \E request : TurnDown(c, request, "invalid") \/ TurnDown(c, request, "error")
  BY DEF Invoke, GetEmployees, GetEmployeeByID, CreateEmployee, RequestVacation,
     UpdateEmployee, DeleteEmployee, GetDepartments, GetDepartmentByID, CreateDepartment,
     UpdateDepartment, DeleteDepartment, AuthLogin
<1> QED  BY <1>1 DEF Start, TurnDown, TypeOK

\* A call at work stays under way, with the same request.
LEMMA WorkGoesOn ==
    ASSUME TypeOK, NEW c \in Calls, Proceed(c), pc[c] # "done"
    PROVE  pc[c] # "idle" /\ pc'[c] # "idle" /\ req' = req
<1>1. pc \in [Calls -> Statements \cup {"idle", "done"}] /\ (conn = c => pc[c] \in Statements)
  BY DEF TypeOK, StageOK
<1> QED  BY <1>1 DEF Proceed, Answer, Acquire, Refuse, AnswerPassword, AnswerCount,
     AnswerRead, AnswerWrite, LoseConnection, Return, Finish, Statements

\* A request that ends before its controller ends well-formed.
LEMMA RejectOK ==
    ASSUME ApiTypeOK, NEW c \in Calls, NEW from \in {"routed", "auth", "handler"},
           NEW status \in Statuses, Reject(c, from, status)
    PROVE  HandlersOK' /\ RequestOK(c)'
<1>1. HandlersOK /\ RequestOK(c)
  BY DEF ApiTypeOK, HandlersOK, RequestOK
<1> QED  BY <1>1, AnswersAssumption
         DEF Reject, Move, Tell, HandlersOK, RequestOK, vars, OpenDoors

\* Every step of a request keeps its handler and its call in line.
LEMMA ServeOK ==
    ASSUME ApiTypeOK, NEW c \in Calls, Serve(c)
    PROVE  HandlersOK' /\ RequestOK(c)'
<1> USE DEF HandlersOK, RequestOK, Move, Tell, OpenDoors
<1>0. TypeOK /\ HandlersOK /\ RequestOK(c)
  BY DEF ApiTypeOK
<1>1. CASE Receive(c)
  BY <1>0, <1>1, AnswersAssumption DEF Receive, vars, AllDoors
<1>2. CASE BadRequest(c) \/ Unavailable(c) \/ Unauthorized(c) \/ BadBody(c) \/ Logout(c)
  <2>1. \E from \in {"routed", "auth", "handler"}, status \in Statuses : Reject(c, from, status)
    BY <1>2 DEF BadRequest, Unavailable, Unauthorized, BadBody, Logout, Statuses
  <2> QED  BY <2>1, RejectOK
<1>3. CASE Route(c) \/ Authorized(c)
  BY <1>0, <1>3 DEF Route, Authorized, vars
<1>4. CASE Handle(c)
  BY <1>0, <1>4, InvokeBegins DEF Handle
<1>5. CASE Work(c)
  <2>1. shown' \in [Calls -> SUBSET Dates] /\ stage[c] = "controller" /\ UNCHANGED <<boot, handlers>>
    BY <1>0, <1>5 DEF Work
  <2> QED  BY <1>0, <1>5, <2>1, WorkGoesOn DEF Work, handlers
<1>6. CASE GiveUp(c)
  BY <1>0, <1>6 DEF GiveUp, vars, Statuses
<1>7. CASE Respond(c)
  <2>1. StatusesOf(c) \subseteq Statuses
    BY DEF StatusesOf, RESTStatuses, GRPCStatuses, Statuses
  <2>2. \E status \in Statuses : Tell(c, status)
    BY <1>7, <2>1 DEF Respond, RespondWith
  <2>3. /\ Move(c, "controller", "answered") /\ pc'[c] = "idle"
        /\ shown' = [shown EXCEPT ![c] = {}] /\ UNCHANGED <<boot, door, asked>>
    BY <1>0, <1>7 DEF Respond, RespondWith, Return, TypeOK
  <2> QED  BY <1>0, <2>2, <2>3, AnswersAssumption
<1>8. CASE Close(c)
  BY <1>0, <1>8 DEF Close, vars
<1> QED  BY <1>1, <1>2, <1>3, <1>4, <1>5, <1>6, <1>7, <1>8 DEF Serve, Advance

\* A request does not touch another one, nor the process.
LEMMA ServeLeavesOthers ==
    ASSUME ApiTypeOK, NEW c \in Calls, Serve(c), NEW b \in Calls, b # c
    PROVE  /\ stage'[b] = stage[b] /\ door'[b] = door[b]
           /\ asked'[b] = asked[b] /\ answer'[b] = answer[b] /\ shown'[b] = shown[b]
           /\ pc'[b] = pc[b] /\ req'[b] = req[b] /\ boot' = boot
<1>1. TypeOK /\ HandlersOK
  BY DEF ApiTypeOK, HandlersOK
<1>2. /\ stage'[b] = stage[b] /\ door'[b] = door[b] /\ shown'[b] = shown[b]
      /\ asked'[b] = asked[b] /\ answer'[b] = answer[b] /\ boot' = boot
  BY <1>1 DEF Serve, Advance, Receive, BadRequest, Unavailable, Route, Unauthorized,
     Authorized, BadBody, Logout, Handle, Work, GiveUp, Respond, RespondWith, Close, Reject,
     Move,
     Tell, HandlersOK, handlers
<1>3. CASE Invoke(c) \/ Proceed(c)
  BY <1>1, <1>2, <1>3, OthersUntouched
<1>4. CASE UNCHANGED vars
  BY <1>2, <1>4 DEF vars
<1>5. Invoke(c) \/ Proceed(c) \/ UNCHANGED vars
  BY DEF Serve, Advance, Receive, BadRequest, Unavailable, Route, Unauthorized,
     Authorized, BadBody, Logout, Handle, Work, GiveUp, Respond, RespondWith, Close, Reject,
     Proceed
<1> QED  BY <1>3, <1>4, <1>5

\* Every step of the servers keeps everything well-formed.
LEMMA ApiTypeStep == ApiTypeOK /\ [ApiNext]_apiVars => ApiTypeOK'
<1> SUFFICES ASSUME ApiTypeOK, [ApiNext]_apiVars  PROVE ApiTypeOK'
  OBVIOUS
<1>0. TypeOK /\ TypeOK'
  BY HandlerStep, TypeStep DEF ApiTypeOK
<1>1. ASSUME NEW c \in Calls, Serve(c)  PROVE ApiTypeOK'
  <2>1. HandlersOK' /\ RequestOK(c)'
    BY <1>1, ServeOK
  <2>2. ASSUME NEW b \in Calls, b # c  PROVE RequestOK(b)'
    BY <1>1, <2>2, ServeLeavesOthers DEF RequestOK, ApiTypeOK, OpenDoors
  <2> QED  BY <1>0, <2>1, <2>2 DEF ApiTypeOK, HandlersOK, RequestOK
<1>2. CASE Crash
  BY <1>0, <1>2 DEF Crash, Restart, ApiTypeOK
<1>3. CASE ServeGRPC \/ ServeHTTP
  BY <1>0, <1>3 DEF ServeGRPC, ServeHTTP, vars, handlers, ApiTypeOK, OpenDoors, AllDoors
<1>4. CASE UNCHANGED apiVars
  BY <1>0, <1>4 DEF apiVars, vars, handlers, ApiTypeOK, OpenDoors
<1> QED  BY <1>1, <1>2, <1>3, <1>4 DEF ApiNext

\* Whatever requests come in, by whatever door, a request is in a controller
\* exactly while its call is under way, only in a process that has opened its
\* door, and nothing else than its controller moves its call.
THEOREM ApiTypeCorrect == ApiSpec => []ApiTypeOK
<1>1. ApiInit => ApiTypeOK
  BY TypeInit, AnswersAssumption DEF ApiInit, Init, ApiTypeOK
<1> QED  BY <1>1, ApiTypeStep, PTL DEF ApiSpec

----
(***************************************************************************)
(* Truthful answers.                                                       *)
(***************************************************************************)
\* AnswersTruthful of one step.
AnswerStep ==
    \A c \in Calls :
      stage[c] = "controller" /\ stage'[c] = "answered" /\ answer[c] = NULL =>
        /\ answer'[c] < 300 /\ asked[c] \in WriteOps \ {"DeleteDepartment"} => wrote[c]
        /\ asked[c] \in WriteOps /\ wrote[c] /\ answer'[c] >= 300 =>
             \/ conn = "closed"
             \/ door[c] # "rest" /\ asked[c] \in Deletions
             \/ asked[c] = "RequestVacation" /\ ~ Encodes(c)

\* What a writing controller shows its client came in by that client's door,
\* but for the row of a granted vacation.
ShowsOwnForm(c) ==
    /\ stage[c] = "controller" /\ asked[c] \in EmployeeFormOps =>
         req[c].form.dates \in Passable(door[c])
    /\ asked[c] \in WriteOps \ {"RequestVacation"} => Encodes(c)

FormsFit == \A c \in Calls : ShowsOwnForm(c)

\* A request of its own keeps to that.
LEMMA OwnFormFits ==
    ASSUME ApiTypeOK, ApiTypeOK', NEW c \in Calls, Serve(c), ShowsOwnForm(c)
    PROVE  ShowsOwnForm(c)'
<1> USE DEF ShowsOwnForm, Encodes
<1>0. /\ stage \in [Calls -> {"idle", "routed", "auth", "handler", "controller", "answered"}]
      /\ shown' \in [Calls -> SUBSET Dates]
  BY DEF ApiTypeOK
<1>1. CASE stage'[c] # "controller"
  <2>1. shown'[c] = {}
    BY <1>1 DEF ApiTypeOK
  <2> QED  BY <1>1, <2>1
<1>2. CASE Handle(c)
  <2>1. shown[c] = {} /\ shown' = shown /\ asked' = asked /\ door' = door
    BY <1>2 DEF Handle, Move, ApiTypeOK
  <2> QED  BY <1>2, <2>1 DEF Handle
<1>3. CASE Work(c)
  <2>1. req' = req /\ asked' = asked /\ door' = door /\ stage' = stage /\ stage[c] = "controller"
    BY <1>3, WorkGoesOn DEF Work, handlers, ApiTypeOK
  <2>2. PICK dates \in SUBSET Dates :
          /\ Returns(c, dates) \/ dates = {}
          /\ shown' = [shown EXCEPT ![c] = dates]
    BY <1>3 DEF Work
  <2>3. shown'[c] = dates
    BY <2>2 DEF ApiTypeOK
  <2>4. CASE asked[c] \in EmployeeFormOps
    <3>1. dates \subseteq {req[c].form.dates}
      BY <2>2, <2>4 DEF Returns
    <3> QED  BY <2>1, <2>3, <2>4, <3>1
  <2>5. CASE asked[c] \in WriteOps \ (EmployeeFormOps \cup {"RequestVacation"})
    <3>1. dates = {}
      BY <2>2, <2>5 DEF Returns, WriteOps
    <3> QED  BY <2>1, <2>3, <2>5, <3>1
  <2> QED  BY <2>1, <2>4, <2>5 DEF WriteOps, EmployeeFormOps
<1>4. CASE GiveUp(c)
  BY <1>4 DEF GiveUp, vars
<1>5. CASE Receive(c) \/ BadRequest(c) \/ Unavailable(c) \/ Route(c) \/ Unauthorized(c)
           \/ Authorized(c) \/ BadBody(c) \/ Logout(c) \/ Respond(c) \/ Close(c)
  <2>1. stage'[c] # "controller"
    BY <1>0, <1>5 DEF Receive, BadRequest, Unavailable, Route, Unauthorized, Authorized,
       BadBody, Logout, Respond, RespondWith, Close, Reject, Move
  <2> QED  BY <1>1, <2>1
<1> QED  BY <1>2, <1>3, <1>4, <1>5 DEF Serve, Advance

\* So does every step.
LEMMA FormsFitStep ==
    ApiTypeOK /\ ApiTypeOK' /\ FormsFit /\ [ApiNext]_apiVars => FormsFit'
<1> SUFFICES ASSUME ApiTypeOK, ApiTypeOK', FormsFit, [ApiNext]_apiVars  PROVE FormsFit'
  OBVIOUS
<1>1. ASSUME NEW c \in Calls, Serve(c)  PROVE FormsFit'
  <2>1. ShowsOwnForm(c)'
    BY <1>1, OwnFormFits DEF FormsFit
  <2>2. ASSUME NEW b \in Calls, b # c  PROVE ShowsOwnForm(b)'
    BY <1>1, <2>2, ServeLeavesOthers DEF FormsFit, ShowsOwnForm, Encodes
  <2> QED  BY <2>1, <2>2 DEF FormsFit
<1>2. CASE Crash
  BY <1>2 DEF Crash, FormsFit, ShowsOwnForm, Encodes
<1>3. CASE ServeGRPC \/ ServeHTTP \/ UNCHANGED apiVars
  BY <1>3 DEF ServeGRPC, ServeHTTP, apiVars, vars, handlers, FormsFit, ShowsOwnForm, Encodes
<1> QED  BY <1>1, <1>2, <1>3 DEF ApiNext

LEMMA FormsAlwaysFit == ApiSpec => []FormsFit
<1>1. ApiInit => FormsFit
  BY DEF ApiInit, FormsFit, ShowsOwnForm, Encodes
<1> QED  BY <1>1, ApiTypeCorrect, FormsFitStep, PTL DEF ApiSpec

\* A handler that answers after its controller answers with its status.
LEMMA AnsweredByRespond ==
    ASSUME ApiTypeOK, [ApiNext]_apiVars, NEW c \in Calls,
           stage[c] = "controller", stage'[c] = "answered"
    PROVE  Respond(c)
<1>1. ASSUME NEW b \in Calls, b # c, Serve(b)  PROVE FALSE
  BY <1>1, ServeLeavesOthers
<1>2. ASSUME Serve(c)  PROVE Respond(c)
  BY <1>2 DEF Serve, Advance, Receive, BadRequest, Unavailable, Route, Unauthorized,
     Authorized, BadBody, Logout, Handle, Work, GiveUp, Close, Reject, Move, handlers,
     ApiTypeOK
<1>3. ~ Crash /\ ~ ServeGRPC /\ ~ ServeHTTP /\ ~ UNCHANGED apiVars
  BY DEF Crash, ServeGRPC, ServeHTTP, apiVars, handlers
<1> QED  BY <1>1, <1>2, <1>3 DEF ApiNext

\* The statuses carry the truth of the controllers' results over.
LEMMA AnswerTruth ==
    ApiTypeOK /\ FormsFit /\ ReplyTruthful /\ [ApiNext]_apiVars => [AnswerStep]_apiVars
<1> SUFFICES ASSUME ApiTypeOK, FormsFit, ReplyTruthful, [ApiNext]_apiVars,
                    NEW c \in Calls, stage[c] = "controller", stage'[c] = "answered",
                    answer[c] = NULL
             PROVE  /\ answer'[c] < 300 /\ asked[c] \in WriteOps \ {"DeleteDepartment"}
                          => wrote[c]
                    /\ asked[c] \in WriteOps /\ wrote[c] /\ answer'[c] >= 300 =>
                         \/ conn = "closed"
                         \/ door[c] # "rest" /\ asked[c] \in Deletions
                         \/ asked[c] = "RequestVacation" /\ ~ Encodes(c)
  BY DEF AnswerStep
<1>1. Respond(c)
  BY AnsweredByRespond
<1>2. PICK status \in StatusesOf(c) : RespondWith(c, status)
  BY <1>1 DEF Respond
<1>3. /\ pc[c] = "done" /\ answer'[c] = status /\ req[c].op = asked[c]
  BY <1>2 DEF RespondWith, Return, Tell, ApiTypeOK, TypeOK
<1>4. asked[c] \in WriteOps => asked[c] # "AuthLogin"
  BY DEF WriteOps
<1>5. /\ status < 300 => reply[c] = "ok"
      /\ /\ reply[c] = "ok" /\ status >= 300 /\ asked[c] # "AuthLogin"
         => ~ Encodes(c) \/ (door[c] # "rest" /\ asked[c] \in Deletions)
  BY DEF StatusesOf, RESTStatuses, GRPCStatuses
<1>6. asked[c] \in WriteOps /\ ~ Encodes(c) => asked[c] = "RequestVacation"
  BY DEF FormsFit, ShowsOwnForm
<1> QED  BY <1>3, <1>4, <1>5, <1>6 DEF ReplyTruthful

\* A client can rely on its handler's answer: below 300 means that the write
\* landed (but for DeleteDepartment), an error that it did not, unless the
\* connection broke, or the answer did not encode: that of a gRPC deletion,
\* or of a vacation for an employee whose dates the door cannot carry.
THEOREM AnswersAreTruthful == ApiSpec => AnswersTruthful
<1>1. ApiSpec => []ReplyTruthful
  BY HandlersRunControllers, RepliesAreTruthful, PTL
<1>2. ApiSpec => [][AnswerStep]_apiVars
  BY <1>1, ApiTypeCorrect, FormsAlwaysFit, AnswerTruth, PTL DEF ApiSpec
<1> QED  BY <1>2, PTL DEF AnswersTruthful, AnswerStep

----
(***************************************************************************)
(* Reading over gRPC and sending back.                                     *)
(***************************************************************************)
\* A stored employee that went through both conversions is the row it was, or
\* one the table refuses: its days are zero, which come back as NULL.
LEMMA EmployeeReadBack ==
    ASSUME NEW row \in EmployeeRows, NEW sickDays \in 0..1,
           EmployeeRow(ProtoToEmployee(EmployeeToProto(row, sickDays)), row.password)
             \in EmployeeRows
    PROVE  EmployeeRow(ProtoToEmployee(EmployeeToProto(row, sickDays)), row.password) = row
<1> DEFINE form == ProtoToEmployee(EmployeeToProto(row, sickDays))
<1>1. /\ form.vacation_days = IF row.vacation_days > 0 THEN row.vacation_days ELSE NULL
      /\ form.email = row.email /\ form.personal_number = row.personal_number
      /\ form.department_id = row.department_id /\ form.manager_id = row.manager_id
      /\ form.dates = row.dates
  BY DEF ProtoToEmployee, EmployeeToProto
<1>2. row.vacation_days \in Nat /\ form.vacation_days \in Nat
  BY MaxDaysAssumption DEF EmployeeRow, EmployeeRows
<1>3. form.vacation_days = row.vacation_days
  BY <1>1, <1>2, NullAssumption
<1> QED  BY <1>1, <1>3 DEF EmployeeRow, EmployeeRows

\* A stored department is the same after both conversions.
LEMMA DepartmentReadBack ==
    ASSUME NEW row \in DepartmentRows, NEW described \in BOOLEAN
    PROVE  ProtoToDepartment(DepartmentToProto(row, described)) = row
  BY DEF ProtoToDepartment, DepartmentToProto, DepartmentRows

\* What a client reads over gRPC it can send back, whenever it reads and
\* whatever the tables hold: nothing but what it read is ever stored by that,
\* although the wire format has no NULL and the conversions guess.
THEOREM ReadBackIsHarmless == ApiSpec => []ReadBackHarmless
<1>1. TypeOK => ReadBackHarmless
  <2> SUFFICES ASSUME TypeOK  PROVE ReadBackHarmless
    OBVIOUS
  <2>1. /\ \A e \in Ids(employees) : employees[e] \in EmployeeRows
        /\ \A d \in Ids(departments) : departments[d] \in DepartmentRows
    BY DEF TypeOK, Ids, EmployeeTables, DepartmentTables
  <2> QED  BY <2>1, EmployeeReadBack, DepartmentReadBack DEF ReadBackHarmless
<1> QED  BY <1>1, HandlersRunControllers, TypeCorrect, PTL

----
(***************************************************************************)
(* Requests get on.                                                        *)
(***************************************************************************)
\* RequestsGetOn of one step.
GetsOn(c) ==
    stage[c] # "idle" => Distance(c)' < Distance(c) \/ Progress(c)' = Progress(c)

\* A call never has more than six things left to do.
LEMMA LeftBounded ==
    ASSUME TypeOK, NEW c \in Calls
    PROVE  Left(c) \in 0..6 /\ (pc[c] \in {"idle", "done"} => Left(c) = 0)
<1>1. conn = c => pc[c] \in Statements
  BY DEF TypeOK, StageOK
<1> QED  BY <1>1 DEF Left, Statements

\* Every step of a call takes one of them away.
LEMMA ProceedNearer ==
    ASSUME TypeOK, NEW c \in Calls, Proceed(c), pc[c] # "done"
    PROVE  Left(c)' \in Nat /\ Left(c)' < Left(c)
<1> USE DEF Left, Finish, Statements, TypeOK
<1>0. (conn = c => pc[c] \in Statements) /\ c \notin {"idle", "closed"}
  BY CallsAssumption DEF StageOK
<1>1. CASE Acquire(c)
  BY <1>0, <1>1 DEF Acquire
<1>2. CASE Refuse(c)
  BY <1>0, <1>2 DEF Refuse
<1>3. CASE AnswerPassword(c)
  BY <1>0, <1>3 DEF AnswerPassword
<1>4. CASE AnswerCount(c)
  BY <1>0, <1>4 DEF AnswerCount
<1>5. CASE AnswerRead(c)
  BY <1>0, <1>5 DEF AnswerRead
<1>6. CASE AnswerWrite(c)
  BY <1>0, <1>6 DEF AnswerWrite
<1>7. CASE LoseConnection(c)
  BY <1>0, <1>7 DEF LoseConnection
<1> QED
  BY <1>1, <1>2, <1>3, <1>4, <1>5, <1>6, <1>7 DEF Proceed, Answer, Return

\* A call issues no statement yet when it begins.
LEMMA InvokeLeavesConnection ==
    ASSUME NEW c \in Calls, Invoke(c)
    PROVE  conn' = conn
  BY DEF Invoke, GetEmployees, GetEmployeeByID, CreateEmployee,
     RequestVacation, UpdateEmployee, DeleteEmployee, GetDepartments, GetDepartmentByID,
     CreateDepartment, UpdateDepartment, DeleteDepartment, AuthLogin, Start, TurnDown

\* Nobody gets or loses the connection by what another call does.
LEMMA OthersConnection ==
    ASSUME TypeOK, NEW c \in Calls, Invoke(c) \/ Proceed(c), NEW b \in Calls, b # c
    PROVE  conn' = b <=> conn = b
<1>1. b \notin {"idle", "closed"} /\ c \notin {"idle", "closed"}
  BY CallsAssumption
<1>2. CASE Invoke(c)
  BY <1>2, InvokeLeavesConnection
<1>3. CASE Proceed(c)
  <2>1. \/ conn' = conn
        \/ conn = "idle" /\ conn' = c
        \/ conn = c /\ conn' \in {"idle", "closed"}
    BY <1>3 DEF Proceed, Answer, Acquire, Refuse, AnswerPassword,
       AnswerCount, AnswerRead, AnswerWrite, LoseConnection, Return
  <2> QED  BY <1>1, <2>1
<1> QED  BY <1>2, <1>3

\* A request on its way stays where it is while another one is served.
LEMMA OthersStay ==
    ASSUME ApiTypeOK, NEW c \in Calls, Serve(c), NEW b \in Calls, b # c
    PROVE  Progress(b)' = Progress(b)
<1>1. TypeOK
  BY DEF ApiTypeOK
<1>2. stage'[b] = stage[b] /\ door'[b] = door[b] /\ asked'[b] = asked[b]
  BY ServeLeavesOthers
<1>3. /\ pc'[b] = pc[b] /\ req'[b] = req[b] /\ hash'[b] = hash[b]
      /\ reply'[b] = reply[b] /\ wrote'[b] = wrote[b] /\ (conn' = b <=> conn = b)
  <2>1. CASE Invoke(c) \/ Proceed(c)
    BY <1>1, <2>1, OthersUntouched, OthersConnection
  <2>2. CASE UNCHANGED vars
    BY <2>2 DEF vars
  <2>3. Invoke(c) \/ Proceed(c) \/ UNCHANGED vars
    BY DEF Serve, Advance, Receive, BadRequest, Unavailable, Route, Unauthorized,
       Authorized, BadBody, Logout, Handle, Work, GiveUp, Respond, RespondWith, Close, Reject,
       Proceed
  <2> QED  BY <2>1, <2>2, <2>3
<1>4. (conn' = b) = (conn = b)
  BY <1>3
<1> QED  BY <1>2, <1>3, <1>4 DEF Progress

\* Whatever a request does brings it nearer to its end.
LEMMA ServeGetsOn ==
    ASSUME ApiTypeOK, NEW c \in Calls, Serve(c), stage[c] # "idle"
    PROVE  Distance(c)' < Distance(c) \/ Progress(c)' = Progress(c)
<1>0. /\ stage[c] \in {"routed", "auth", "handler", "controller", "answered"}
      /\ stage \in [Calls -> {"idle", "routed", "auth", "handler", "controller", "answered"}]
      /\ Left(c) \in 0..6
  BY LeftBounded DEF ApiTypeOK
<1> USE DEF Distance, Move
<1>1. CASE BadRequest(c) \/ Unavailable(c) \/ Unauthorized(c) \/ BadBody(c) \/ Logout(c)
  BY <1>0, <1>1 DEF BadRequest, Unavailable, Unauthorized, BadBody, Logout, Reject
<1>2. CASE Route(c) \/ Authorized(c)
  BY <1>0, <1>2 DEF Route, Authorized
<1>3. CASE Handle(c)
  <2>1. conn # c /\ conn' = conn
    BY <1>3, InvokeLeavesConnection DEF Handle, ApiTypeOK, TypeOK, StageOK, Statements
  <2>2. Left(c)' \in 0..6
    BY <2>1 DEF Left
  <2> QED  BY <1>0, <1>3, <2>2 DEF Handle
<1>4. CASE Work(c)
  <2>1. Left(c)' \in Nat /\ Left(c)' < Left(c)
    BY <1>4, ProceedNearer DEF Work, ApiTypeOK
  <2> QED  BY <1>0, <1>4, <2>1 DEF Work, handlers
<1>5. CASE Respond(c)
  BY <1>0, <1>5 DEF Respond, RespondWith
<1>6. CASE Close(c)
  BY <1>0, <1>6 DEF Close
<1>7. CASE GiveUp(c)
  BY <1>7 DEF GiveUp, Progress, vars
<1>8. ~ Receive(c)
  BY DEF Receive
<1> QED  BY <1>1, <1>2, <1>3, <1>4, <1>5, <1>6, <1>7, <1>8 DEF Serve, Advance

\* Each step brings a request nearer to its end or leaves it as it is.
LEMMA GetsOnStep ==
    ApiTypeOK /\ [ApiNext]_apiVars => [\A c \in Calls : GetsOn(c)]_apiVars
<1> SUFFICES ASSUME ApiTypeOK, ApiNext, NEW c \in Calls, stage[c] # "idle"
             PROVE  Distance(c)' < Distance(c) \/ Progress(c)' = Progress(c)
  BY DEF GetsOn
<1>1. ASSUME NEW b \in Calls, Serve(b)
      PROVE  Distance(c)' < Distance(c) \/ Progress(c)' = Progress(c)
  BY <1>1, ServeGetsOn, OthersStay
<1>2. CASE Crash
  <2>1. Distance(c)' = 0
    BY <1>2 DEF Crash, Distance
  <2>2. Distance(c) \in Nat /\ Distance(c) > 0
    BY LeftBounded DEF Distance, ApiTypeOK
  <2> QED  BY <2>1, <2>2
<1>3. CASE ServeGRPC \/ ServeHTTP
  BY <1>3 DEF ServeGRPC, ServeHTTP, vars, handlers, Progress
<1> QED  BY <1>1, <1>2, <1>3 DEF ApiNext

\* A request that has come in takes at most eleven steps, whatever it asks for
\* and however many others are served: nothing in it is tried again, no step
\* of another sends it back.  That each of these steps comes is EveryRequestEnds.
THEOREM RequestsAlwaysGetOn == ApiSpec => RequestsGetOn
<1>1. ApiSpec => [][\A c \in Calls : GetsOn(c)]_apiVars
  BY ApiTypeCorrect, GetsOnStep, PTL DEF ApiSpec
<1> QED  BY <1>1, PTL DEF RequestsGetOn, GetsOn

====
