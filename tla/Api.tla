---- MODULE Api ----
(***************************************************************************)
(* The three ways into the service and the handlers behind them, around    *)
(* the calls of Controllers.tla:                                           *)
(*   rest     the REST server (internal/api/http: server.go, api.gen.go);  *)
(*   grpc     the gRPC server (internal/api/grpc: server.go, utils.go);    *)
(*   gateway  grpc-gateway (employee_service.pb.gw.go): HTTP, forwarded    *)
(*            over the loopback to the gRPC server.                        *)
(* cmd/main.go opens the gRPC server first and both HTTP ways after it.    *)
(*                                                                         *)
(* A request goes idle -> routed -> auth -> handler -> controller ->       *)
(* answered.  Statuses are HTTP ones; a gRPC client sees 200 for OK and    *)
(* 500 for any error.  What makes a token pass and what logins and logouts *)
(* do is in Sessions.tla: here a token passes or not.                      *)
(***************************************************************************)
EXTENDS Controllers

CONSTANTS
    Doors,              \* the ways in that the clients of a run use
    EmployeeMessages,   \* pb.Employee values a gRPC client may send
    DepartmentMessages  \* pb.DepartmentForm values

AllDoors == {"rest", "grpc", "gateway"}

\* dated: the hire date is set.  The ids 0 and absent are one: NULL.
AnyEmployeeMessage ==
    [named : BOOLEAN, dated : BOOLEAN, email : Emails,
     personal_number : PersonalNumbers \cup {NULL},
     password        : Passwords \cup {NULL},
     department_id   : DepartmentIds \cup {NULL},
     manager_id      : EmployeeIds \cup {NULL},
     vacation_days   : Nat,
     sick_days       : Nat,
     dates           : Dates]

AnyDepartmentMessage ==
    [name : Names, described : BOOLEAN,
     parent_id : DepartmentIds \cup {NULL}, head_id : EmployeeIds \cup {NULL}]

ASSUME MessagesAssumption ==
    /\ EmployeeMessages \subseteq AnyEmployeeMessage
    /\ DepartmentMessages \subseteq AnyDepartmentMessage

ASSUME DoorsAssumption == Doors \subseteq AllDoors

Creations == {"CreateEmployee", "CreateDepartment"}
Deletions == {"DeleteEmployee", "DeleteDepartment"}
EmployeeFormOps   == {"CreateEmployee", "UpdateEmployee"}
DepartmentFormOps == {"CreateDepartment", "UpdateDepartment"}
BodyOps == EmployeeFormOps \cup DepartmentFormOps \cup {"RequestVacation", "AuthLogin"}
PathOps == {"GetEmployeeByID", "UpdateEmployee", "DeleteEmployee", "RequestVacation",
            "GetDepartmentByID", "UpdateDepartment", "DeleteDepartment"}

AllRequests == Ops \cup {"AuthLogout"}

Statuses == {200, 201, 204, 400, 401, 500, 503}

ASSUME AnswersAssumption == NULL \notin Statuses /\ NULL \notin AllDoors

VARIABLES
    boot,     \* how far the process has come: "down", "grpc" or "up"
    stage,    \* where each request is
    door,     \* the way it came in
    asked,    \* the operation it asks for
    answer,   \* the status its client was given
    shown     \* the dates of the employees its controller returned

handlers == <<stage, door, asked, answer>>
apiVars  == <<vars, boot, handlers, shown>>

(***************************************************************************)
(* Conversions between entity.Employee and pb.Employee.  Protobuf has no   *)
(* NULL for the day counters: zero days become NULL on the way in.         *)
(***************************************************************************)
ProtoToEmployee(message) ==
    [named |-> message.named,
     complete |-> message.dated /\ message.sick_days > 0,
     email |-> message.email, personal_number |-> message.personal_number,
     password |-> message.password, department_id |-> message.department_id,
     manager_id |-> message.manager_id,
     vacation_days |-> IF message.vacation_days > 0 THEN message.vacation_days ELSE NULL,
     dates |-> message.dates]

\* The controllers blank the password of every row they return.
EmployeeToProto(row, sickDays) ==
    [named |-> TRUE, dated |-> TRUE,
     email |-> row.email, personal_number |-> row.personal_number,
     password |-> NULL, department_id |-> row.department_id,
     manager_id |-> row.manager_id, vacation_days |-> row.vacation_days,
     sick_days |-> sickDays, dates |-> row.dates]

\* A parent or head of 0 that is present stays 0, which is the id of no row:
\* it stands for any id that has not been handed out.
ProtoToDepartment(message) ==
    [name |-> message.name, parent_id |-> message.parent_id, head_id |-> message.head_id]

DepartmentToProtoNoHead(row, described) ==   \* mutant
    [name |-> row.name, described |-> described, parent_id |-> row.parent_id, head_id |-> NULL]

DepartmentToProto(row, described) ==
    [name |-> row.name, described |-> described,
     parent_id |-> row.parent_id, head_id |-> row.head_id]

\* What a request over gRPC hands to its controller was converted.
FromProto(request) ==
    /\ request.op \in EmployeeFormOps =>
         request.form \in {ProtoToEmployee(message) : message \in EmployeeMessages}
    /\ request.op \in DepartmentFormOps =>
         request.form \in {ProtoToDepartment(message) : message \in DepartmentMessages}

\* The dates that pass through a door in a form or an answer: time.Time reads
\* and writes JSON for the years 0 to 9999, protojson from 1 on; a Timestamp
\* in the binary messages of gRPC is never looked at.
Passable(d) ==
    CASE d = "rest"    -> {"common", "zero"}
      [] d = "gateway" -> {"common"}
      [] OTHER         -> Dates

(***************************************************************************)
(* Results to statuses.                                                    *)
(***************************************************************************)
\* What the controller of c has returned can be encoded for its client.
Encodes(c) == shown[c] \subseteq Passable(door[c])

RESTStatusesIgnoringError(op, r, encodes) ==   \* mutant
    IF op \in Deletions THEN {204} ELSE IF r = "ok" THEN {200} ELSE {500}

\* Every error of a controller is an internal server error, but for AuthLogin,
\* which after its query may still fail to store the tokens.  So is a result
\* that httpResponse cannot marshal, whatever the controller did.
RESTStatuses(op, r, encodes) ==
    CASE ~ encodes                      -> {500}
      [] encodes /\ op = "AuthLogin"    -> {401} \cup (IF r = "ok" THEN {200} ELSE {})
      [] op # "AuthLogin" /\ r # "ok"   -> {500}
      [] r = "ok" /\ op \in Creations   -> {201}
      [] r = "ok" /\ op \in Deletions   -> {204}
      [] OTHER                          -> {200}

\* The deletions have no message to answer with, and the missing message does
\* not convert: they end in an error whatever they did.  The gateway turns OK
\* into 200 and the handlers' plain errors into 500, and an OK whose message
\* it cannot write as JSON.
GRPCStatuses(op, r, encodes) ==
    (IF r = "ok" /\ op \notin Deletions /\ encodes THEN {200} ELSE {})
    \cup (IF r # "ok" \/ op \in Deletions \cup {"AuthLogin"} \/ ~ encodes THEN {500} ELSE {})

StatusesOf(c) ==
    IF door[c] = "rest" THEN RESTStatuses(asked[c], reply[c], Encodes(c))
                        ELSE GRPCStatuses(asked[c], reply[c], Encodes(c))

(***************************************************************************)
(* Start-up.                                                               *)
(***************************************************************************)
\* Redis and PostgreSQL answered and the gRPC server listens.
ServeGRPC ==
    /\ boot = "down"
    /\ boot' = "grpc"
    /\ UNCHANGED <<vars, handlers, shown>>

\* The gateway has its client, the router its routes; HTTP listens.
ServeHTTP ==
    /\ boot = "grpc"
    /\ boot' = "up"
    /\ UNCHANGED <<vars, handlers, shown>>

OpenDoors == CASE boot = "down" -> {}
               [] boot = "grpc" -> {"grpc"}
               [] boot = "up"   -> AllDoors

(***************************************************************************)
(* From the socket to the handler.                                         *)
(***************************************************************************)
Move(c, from, to) ==
    /\ stage[c] = from
    /\ stage' = [stage EXCEPT ![c] = to]

\* The client is given this status, unless it was given one before.
Tell(c, status) ==
    answer' = [answer EXCEPT ![c] = IF @ = NULL THEN status ELSE @]

\* The request ends here with this status.
Reject(c, from, status) ==
    /\ Move(c, from, "answered")
    /\ Tell(c, status)
    /\ UNCHANGED <<vars, boot, door, asked, shown>>

Receive(c) ==
    /\ Move(c, "idle", "routed")
    /\ \E d \in Doors \cap OpenDoors : door' = [door EXCEPT ![c] = d]
    /\ \E o \in AllRequests : asked' = [asked EXCEPT ![c] = o]
    /\ UNCHANGED <<vars, boot, answer, shown>>

\* What does not decode before the handler runs: over REST a path id or the
\* query of GetEmployees, in the gateway a body too, over gRPC any message.
UndecodableREST(c) ==
    door[c] = "rest" /\ asked[c] \in PathOps \cup {"GetEmployees"}

UndecodableGateway(c) ==
    door[c] = "gateway" /\ asked[c] \in PathOps \cup BodyOps \cup {"GetEmployees"}

UndecodableGRPC(c) == door[c] = "grpc"

BadRequest(c) ==
    /\ UndecodableREST(c) \/ UndecodableGateway(c) \/ UndecodableGRPC(c)
    /\ Reject(c, "routed", IF door[c] = "grpc" THEN 500 ELSE 400)

\* The gateway does not reach the gRPC server.
Unavailable(c) ==
    /\ door[c] = "gateway"
    /\ Reject(c, "routed", 503)

\* AuthLogin, and AuthLogout over REST, do not authenticate.
Route(c) ==
    /\ Move(c, "routed",
            IF asked[c] = "AuthLogin" \/ (door[c] = "rest" /\ asked[c] = "AuthLogout")
            THEN "handler" ELSE "auth")
    /\ UNCHANGED <<vars, boot, door, asked, answer, shown>>

(***************************************************************************)
(* The handlers.                                                           *)
(***************************************************************************)
UnauthorizedGoesOn(c) ==   \* mutant: no return after the error
    /\ Move(c, "auth", "handler")
    /\ Tell(c, 401)
    /\ UNCHANGED <<vars, boot, door, asked, shown>>

Unauthorized(c) == Reject(c, "auth", IF door[c] = "rest" THEN 401 ELSE 500)

Authorized(c) ==
    /\ Move(c, "auth", "handler")
    /\ UNCHANGED <<vars, boot, door, asked, answer, shown>>

\* A REST body that does not decode.
BadBody(c) ==
    /\ door[c] = "rest" /\ asked[c] \in BodyOps
    /\ Reject(c, "handler", 400)

\* AuthLogout calls no controller; its empty answer does not convert.
Logout(c) ==
    /\ asked[c] = "AuthLogout"
    /\ \/ door[c] = "rest" /\ Reject(c, "handler", 200)
       \/ Reject(c, "handler", 500)

Handle(c) ==
    /\ Move(c, "handler", "controller")
    /\ Invoke(c)
    /\ req'[c].op = asked[c]
    /\ door[c] # "rest" => FromProto(req'[c])
    /\ asked[c] \in EmployeeFormOps => req'[c].form.dates \in Passable(door[c])
    /\ UNCHANGED <<boot, door, asked, answer, shown>>

\* These are the dates of the employees that the controller of c returns: of
\* the row it wrote or read, or of the rows the query picked.
Returns(c, dates) ==
    /\ asked[c] \in EmployeeFormOps => dates = {req[c].form.dates}
    /\ asked[c] \in {"GetEmployeeByID", "RequestVacation"} =>
         dates = {employees[req[c].id].dates}
    /\ asked[c] = "GetEmployees" => dates \subseteq {employees[e].dates : e \in Ids(employees)}
    /\ asked[c] \notin EmployeeFormOps \cup {"GetEmployeeByID", "RequestVacation", "GetEmployees"}
         => dates = {}

\* The controller at work; an error comes without an employee.
Work(c) ==
    /\ stage[c] = "controller" /\ pc[c] # "done"
    /\ Proceed(c)
    /\ \E dates \in SUBSET Dates :
         /\ IF pc'[c] = "done" /\ reply'[c] = "ok" THEN Returns(c, dates) ELSE dates = {}
         /\ shown' = [shown EXCEPT ![c] = dates]
    /\ UNCHANGED <<boot, handlers>>

\* The client is told that it failed, or nothing, while its handler is still
\* at work: its deadline or the WriteTimeout passed, it went away, or the
\* gateway lost the loopback.  The handler runs on: the controllers use no
\* context of the request.
GiveUp(c) ==
    /\ stage[c] = "controller" /\ answer[c] = NULL
    /\ Tell(c, 503)
    /\ UNCHANGED <<vars, boot, stage, door, asked, shown>>

RespondIfAwaited(c) ==   \* mutant: blocks when nobody takes the answer
    /\ answer[c] = NULL
    /\ Move(c, "controller", "answered")
    /\ \E status \in StatusesOf(c) : Tell(c, status)
    /\ Return(c)
    /\ shown' = [shown EXCEPT ![c] = {}]
    /\ UNCHANGED <<boot, door, asked>>

RespondWith(c, status) ==
    /\ Move(c, "controller", "answered")
    /\ Tell(c, status)
    /\ Return(c)
    /\ shown' = [shown EXCEPT ![c] = {}]
    /\ UNCHANGED <<boot, door, asked>>

Respond(c) == \E status \in StatusesOf(c) : RespondWith(c, status)

Close(c) ==
    /\ Move(c, "answered", "idle")
    /\ door' = [door EXCEPT ![c] = NULL]
    /\ asked' = [asked EXCEPT ![c] = NULL]
    /\ answer' = [answer EXCEPT ![c] = NULL]
    /\ UNCHANGED <<vars, boot, shown>>

\* The process dies, also of a server that cannot listen any more and of the
\* panic of a gRPC update without its submessage.  Somebody starts it again.
Crash ==
    /\ boot # "down"
    /\ boot' = "down"
    /\ Restart
    /\ stage' = [c \in Calls |-> "idle"]
    /\ door' = [c \in Calls |-> NULL]
    /\ asked' = [c \in Calls |-> NULL]
    /\ answer' = [c \in Calls |-> NULL]
    /\ shown' = [c \in Calls |-> {}]

----
ApiInit ==
    /\ Init
    /\ boot = "down"
    /\ stage = [c \in Calls |-> "idle"]
    /\ door = [c \in Calls |-> NULL]
    /\ asked = [c \in Calls |-> NULL]
    /\ answer = [c \in Calls |-> NULL]
    /\ shown = [c \in Calls |-> {}]

\* What a request does once it has come in.
Advance(c) ==
    \/ BadRequest(c) \/ Unavailable(c) \/ Route(c)
    \/ Unauthorized(c) \/ Authorized(c) \/ BadBody(c) \/ Logout(c)
    \/ Handle(c) \/ Work(c) \/ Respond(c) \/ Close(c)

Serve(c) == Receive(c) \/ Advance(c) \/ GiveUp(c)

ApiNext == (\E c \in Calls : Serve(c)) \/ ServeGRPC \/ ServeHTTP \/ Crash

ApiSpec == ApiInit /\ [][ApiNext]_apiVars

\* Go schedules every goroutine, PostgreSQL answers every statement or the
\* connection breaks.  Nothing has to arrive, start up, give up or die.
FairApiSpec == ApiSpec /\ \A c \in Calls : WF_apiVars(Advance(c))

----
(***************************************************************************)
(* Properties.                                                             *)
(***************************************************************************)

\* Every variable holds a value of its kind; a request is in a controller
\* exactly while its call is under way, runs only in a process that has
\* opened its door, and its client was told something once it is answered,
\* before that only that it is given up.
ApiTypeOK ==
    /\ TypeOK
    /\ boot \in {"down", "grpc", "up"}
    /\ stage \in [Calls -> {"idle", "routed", "auth", "handler", "controller", "answered"}]
    /\ door \in [Calls -> AllDoors \cup {NULL}]
    /\ asked \in [Calls -> AllRequests \cup {NULL}]
    /\ answer \in [Calls -> Statuses \cup {NULL}]
    /\ shown \in [Calls -> SUBSET Dates]
    /\ \A c \in Calls : /\ stage[c] = "controller" <=> pc[c] # "idle"
                        /\ stage[c] = "answered" => answer[c] # NULL
                        /\ answer[c] \in {NULL, 503} \/ stage[c] = "answered"
                        /\ stage[c] = "controller" => req[c].op = asked[c]
                        /\ stage[c] # "controller" => shown[c] = {}
                        /\ stage[c] # "idle" => door[c] \in OpenDoors

\* A handler answers below 300 only for a write that landed, but for the
\* department deletions that report nothing; with an error after a write that
\* landed only when the connection broke, for the gRPC deletions, or for a
\* vacation granted to an employee whose dates its client's door cannot carry.
\* Creations and updates are no such exception: what they store came in by
\* the same door.
AnswersTruthful ==
    [][\A c \in Calls :
         stage[c] = "controller" /\ stage'[c] = "answered" /\ answer[c] = NULL =>
           /\ answer'[c] < 300 /\ asked[c] \in WriteOps \ {"DeleteDepartment"} => wrote[c]
           /\ asked[c] \in WriteOps /\ wrote[c] /\ answer'[c] >= 300 =>
                \/ conn = "closed"
                \/ door[c] # "rest" /\ asked[c] \in Deletions
                \/ asked[c] = "RequestVacation" /\ ~ Encodes(c)]_apiVars

\* Every request ends, whatever it asks for, whoever has given it up, and
\* however many others hold the connection or have broken it.
EveryRequestEnds == \A c \in Calls : stage[c] # "idle" ~> stage[c] = "idle"

\* How far a request is from its end: the statements its call has left to
\* issue and to have answered, then the stages its handler has left.
Left(c) ==
    (CASE pc[c] = "password"        -> 6
       [] pc[c] = "count"           -> 4
       [] pc[c] \in {"write", "read"} -> 2
       [] OTHER                     -> 0) - (IF conn = c THEN 1 ELSE 0)

Distance(c) ==
    CASE stage[c] = "routed"     -> 11
      [] stage[c] = "auth"       -> 10
      [] stage[c] = "handler"    -> 9
      [] stage[c] = "controller" -> 2 + Left(c)
      [] stage[c] = "answered"   -> 1
      [] OTHER                   -> 0

\* What a step may disturb of a request, but for telling its client.
Progress(c) ==
    <<stage[c], door[c], asked[c], pc[c], req[c], hash[c], reply[c], wrote[c], conn = c>>

\* No request goes round in circles: each step brings it nearer to its end or
\* leaves it as it is.  No statement is issued twice, none retried, no handler
\* run again, and no other request sets it back.
RequestsGetOn ==
    [][\A c \in Calls : stage[c] # "idle" =>
         Distance(c)' < Distance(c) \/ Progress(c)' = Progress(c)]_apiVars

\* What a gRPC client reads it can send back in an update without harm: the
\* update writes the same row or is refused, because a counter that is zero
\* comes back as none.
ReadBackHarmless ==
    /\ \A e \in Ids(employees), sickDays \in 0..1 :
         LET form == ProtoToEmployee(EmployeeToProto(employees[e], sickDays))
             row  == EmployeeRow(form, employees[e].password)
         IN  form.complete /\ row \in EmployeeRows => row = employees[e]
    /\ \A d \in Ids(departments), described \in BOOLEAN :
         ProtoToDepartment(DepartmentToProto(departments[d], described)) = departments[d]

\* A request over HTTP for a row that does not exist is answered 404.
MissingIsNotFound ==
    [][\A c \in Calls :
         /\ stage[c] = "controller" /\ stage'[c] = "answered" /\ answer[c] = NULL
         /\ door[c] # "grpc" /\ reply[c] = "missing"
         => answer'[c] = 404]_apiVars

====
