# Verification of employee-service

TLA+ models of the employee service, a Go program that serves a small
personnel directory over REST and gRPC, keeps it in PostgreSQL and keeps login
sessions in Redis.  TLC checks the models on small instances; TLAPS proves the
invariants, the step properties and the refinements for every instance.

## The system

| part | source | state | operations |
|---|---|---|---|
| tables | `migrations/*.sql` | `employees`, `departments`, two id sequences | INSERT, UPDATE, DELETE with UNIQUE, NOT NULL and foreign keys |
| employee controller | `internal/controllers/employee.go` | none between calls; a call holds its form and a password hash | GetEmployees, GetEmployeeByID, CreateEmployee, RequestVacation, UpdateEmployee, DeleteEmployee |
| department controller | `internal/controllers/departament.go` | none | GetDepartments, GetDepartmentByID, CreateDepartment, UpdateDepartment, DeleteDepartment |
| PostgreSQL connection | `internal/database/postgres.go`, `cmd/main.go` | one `*pgx.Conn` for the whole process: idle, busy or closed | one statement at a time |
| auth controller | `internal/controllers/auth.go` | keys in Redis, expiry in each JWT | AuthLogin, CheckUserToken |
| Redis client | `internal/database/redis.go` | pooled, reconnects | SET with a time to live, GET, DEL |
| REST server | `internal/api/http/server.go` | none | authenticate, decode, call a controller, encode; AuthLogout |
| gRPC server | `internal/api/grpc/server.go`, `utils.go` | none | the same over protobuf, also for the HTTP gateway in front of it; AuthLogout |
| generated stubs | `api.gen.go`, `employee_service*.pb*.go` | the gateway's client connection | route, decode paths, queries and messages, forward from the gateway to the gRPC server |
| middleware | `internal/utils/logging.go`, `cmd/main.go` | a logger shared by all requests, a counter | log and count each request over HTTP; `/metrics` |
| start-up | `cmd/main.go`, `internal/config` | configuration | connect, start the gRPC server in a goroutine, start the HTTP server |

Every request runs in a goroutine of its own.  The goroutines meet in four
places: the one PostgreSQL connection (no pool, no lock: `conn busy` for
whoever comes second), the tables behind it, Redis, and the logger of the
middleware.  There are no
transactions; every statement commits by itself.  No call has a deadline:
the controllers use `context.Background()` throughout, so a handler works on
when its client has given up.

What is hard here:

- **Interleaving.**  CreateEmployee and UpdateEmployee are up to three
  statements, and other calls run between them.
- **Failure half way.**  A statement may be refused, fail, or be carried out
  without an answer; the process may die between two statements.  A login is
  two SETs, a logout two DELs.
- **Stale state.**  A password hash read by one statement is written by
  another; a token outlives the row it was minted for.
- **Cascades.**  `ON DELETE SET NULL` on a `NOT NULL` column, and references
  between the two tables in both directions.
- **Time.**  A session has two clocks: the key in Redis and the expiry in the
  JWT.  A deadline ends an answer and not the work behind it.
- **Start-up.**  The gRPC server serves before HTTP is set up; the process may
  die at any point and is not shut down gracefully.

What makes each component correct:

- tables and controllers: unique emails, personal numbers and names; no
  dangling reference; a deleted row stays deleted; what a call reports is what
  it did; every call returns;
- passwords: an employee's password is one given for that employee, and
  changes only when asked;
- sessions: a logout takes effect and nobody else's session ends with it; only
  access tokens open endpoints; a session that has not expired is usable; every
  key disappears in the end;
- API servers: the answer agrees with the controller's result, nothing runs
  without authentication, every request ends;
- the service as a whole: tokens name the employee who logged in, and end when
  that employee is gone;
- middleware: a line of the log belongs to its time, a scrape misses nothing
  that was logged.

## Modules

```
Tables ─┬─ Directory ──────────────┐
        └─ Controllers ─┬─ MCControllers                 (TLC)
           (D == INSTANCE Directory)
                        ├─ ControllersProofs ─┬─ DirectoryProofs ─┐
                        │                     └─ ApiProofs ───────┤  (TLAPS)
                        └─ Api ─┬─ MCApi                          │  (TLC)
                                └─ Service ─┬─ MCService          │  (TLC)
           (S == INSTANCE Sessions)         └─ ServiceProofs ─────┘  (TLAPS)
                                               └─ WholeProofs        (TLAPS)
           (SP == INSTANCE TicketsProofs in WholeProofs)
Tickets
Sessions ─┬─ MCSessions                        (TLC)
          └─ SessionsProofs ── TicketsProofs   (TLAPS)
           (T == INSTANCE Tickets)
Middleware ─┬─ MCMiddleware      (TLC)
            └─ MiddlewareProofs  (TLAPS)
```

### Tables

The tables as functions from ids to rows or `NULL`, and the effect of each SQL
statement as an operator from tables to tables.  It keeps the columns that a
constraint or a controller looks at.  Two decisions come from the migrations
and not from the controllers:

- `department_id` is `NOT NULL` and `ON DELETE SET NULL`: PostgreSQL sets it to
  NULL, the constraint fails, and the DELETE is rejected.  So a department can
  be deleted only when no employee refers to it (`DepartmentDeletable`).
- ids come from SERIAL columns and are never handed out twice.

A row whose columns do not fit (a missing `hire_date`, a counter beyond
INTEGER) is not in `EmployeeRows`, and the statement fails.

Of the three dates of an employee the model keeps one class of year, for they
do not fit through every door: `common` (years 1 to 9999, or none), `zero` (one
lies in the year 0) and `far` (one lies before or after all of these).

### Directory

What the controllers promise, without statements, a connection or a hash on
its way: a directory that is whole at every moment and carries out a pending
request in one step (`Hire`, `Change`, `Grant`, `Dismiss`, `Establish`,
`Reorganise`, `Dissolve`) or not at all.  It says where the promise is weak:

- `Fail`: any request may end in an error without effect, and a
  DeleteDepartment does not tell;
- `Recall`: an update without a password stores the one the row had at some
  moment of the call, not at the moment it is stored;
- `Lose` and `Restart`: when the database or the process goes, a request may
  have had its effect without saying so.

"missing" and "duplicate" are answered only when there was such a moment.

### Controllers

All eleven operations of the two controllers and the query of AuthLogin, run by
concurrent calls.  A call moves through `pc`: `idle`, then the statement it is
at (`password`, `count`, `write` or `read`), then `done`, then `idle` again.

| action | code |
|---|---|
| `GetEmployees` ... `DeleteDepartment`, `AuthLogin` | a controller method up to its first statement: validation, defaulting and hashing of the password |
| `Acquire` | the statement goes out on the idle connection |
| `Refuse` | `conn busy`, or `conn closed` after the connection broke |
| `AnswerPassword` | `getPasswordHash` reads the stored hash |
| `AnswerCount` | the uniqueness check |
| `AnswerRead` | the four Get methods and the login's SELECT |
| `AnswerWrite` | INSERT, UPDATE or DELETE: lands, finds no row, or fails |
| `LoseConnection` | the connection breaks under a statement, carried out or not |
| `Restart` | the process dies and is started again |
| `Return` | the handler answers and the goroutine ends |

`Land` is the effect of the seven writing statements; `AnswerWrite`,
`LoseConnection` and `Restart` share it.  The variables `wrote` and `given` are
history: whether a call's write landed, and which hashes were made for which
employee.

A statement is one step from the moment it has the connection.  pgx may use two
round trips (prepare and execute); a statement of somebody else between the two
looks the same as one before `Acquire`.  bcrypt is a function that keeps
different passwords apart, and that refuses passwords over 72 bytes.

`DirectorySpec` is `Directory` with a call at a statement pending, the hash an
update has recalled as what it keeps, and the database up while the connection
is not closed.  A write lands in the step that carries out the request; all
other steps but arrival and return are stutters there.

### Api

The three ways in (REST, gRPC, and HTTP through the gateway to gRPC) around the
calls of `Controllers`, from start-up on.  A request goes `idle`, `routed`,
`auth`, `handler`, `controller`, `answered`, and what it does inside the
controller is what `Controllers` says: `Handle` is an `Invoke` of the operation
asked for, `Work` and `Respond` are steps of `Proceed`.  `shown` holds the dates of
the employees a controller has returned, until they are written into the answer.

| action | code |
|---|---|
| `ServeGRPC`, `ServeHTTP` | `main`: the gRPC server listens, then the gateway and the router are set up and HTTP listens |
| `Receive` | a router has a handler for it, if the door is open |
| `BadRequest` | a path id, a query, in the gateway a body, over gRPC a message does not decode: no handler runs |
| `Unavailable` | the gateway's client does not reach the gRPC server |
| `Route` | the generated wrapper calls the handler |
| `Unauthorized`, `Authorized` | `checkAuthUser`, with either outcome; Service says which |
| `BadBody` | a REST handler's JSON body does not decode |
| `Handle` | the form is converted and the controller called |
| `Work` | the controller at work |
| `GiveUp` | a deadline or WriteTimeout passed, or the client went: it is told, the handler works on |
| `Respond`, `Logout` | the result becomes a status |
| `Close` | the answer is written and the goroutine ends |
| `Crash` | the process dies, of a panic in a gRPC handler for instance; `ServeGRPC` starts it again |

`ProtoToEmployee`, `EmployeeToProto`, `ProtoToDepartment` and
`DepartmentToProto` are the conversions in `grpc/utils.go`: zero days become an
absent counter, absent ids become NULL.  `GRPCStatuses` has the oddity of
`grpcResponse`: the deletions have no message, `anypb.New(nil)` fails, and so a
deletion over gRPC ends in an error whatever it did.  `Encodes` is that of
`httpResponse` and of the gateway: a date outside the years that JSON
(0 to 9999) or protojson (1 to 9999) can write makes the answer a 500, whatever
the controller did.  Such a date gets in over gRPC, whose binary messages are
not looked at (`Passable`).

### Sessions

AuthLogin from the matched password on, CheckUserToken, and both AuthLogout
handlers, at the grain of one Redis command, with the seconds that keys and
JWTs have left and a `Tick` that counts them down.  A command may fail without
effect, or take effect and lose its answer.  A GET that fails does not turn the
caller away, as in the code; the history variable `blind` marks those calls.  A
token is known to clients from the moment a login has returned it (`handed`).

A lifetime of zero, what a missing line in the configuration means, makes a key
without expiry (`NoExpiry`) and a JWT that is over when it is minted.

A key survives the tick in which its JWT expires: the exp claim is truncated to
seconds and the key is set after the JWT is minted, so the key is the later of
the two.

`generateTokenID` makes every token new.  With finitely many names for
sessions, `Forget` takes the name of a session back once its tokens have run
out, their keys are gone and no request with them is on its way; from then on
they are texts that pass no check, which a header without a token stands for.
So a run is not over after a few logins.

### Tickets

What the sessions promise their clients, without Redis, keys or two clocks.  A
login hands out two tickets with limited time; a ticket is held, leaving (a
logout was asked for and may have done its work) or out.  A request is pending
between its arrival and its answer and takes effect in one step: `HandOut`,
`Admit`, `Refuse`, `TakeOut` or `Fail`.  It says where the promise is weak:

- `Blind`: a request whose GET failed is admitted on the time its ticket has
  left alone, out or not, access or refresh;
- a ticket that is leaving may be admitted or refused;
- only `InOrder` tickets are surely admitted; a refresh ticket never without
  `Blind`;
- the gRPC logout admits its request and then can only `Fail`: it never takes a
  ticket out.

`TicketsSpec` of Sessions reads a token that was handed out as a ticket, whose
time is that of its JWT; Redis appears nowhere.  The GET and the look at the
expiry are two steps of the code with anything in between; the refinement says
that a refusal by either has a reason that holds at that very moment, and that
whoever passes both could have been judged at the second.

### Service

`Api` and `Sessions` side by side, as one program.  A step of `Service` is a
step of one of them or of both at once:

| action | code |
|---|---|
| `Plain` | a step of Api that touches no session; the login's SELECT remembers whose row it found (`found`) |
| `Present`, `CheckToken`, `Admit`, `TurnAway` | `checkAuthUser`: the header goes to CheckUserToken, whose verdict is the way on |
| `AskLogout`, `DeleteKeys`, `LoggedOut` | AuthLogout on either server; the gRPC one authenticates first |
| `Mint`, `StoreKeys` | AuthLogin after its query: the tokens name the row that was read (`claims`) |
| `Reply` | the answer of every other operation, and of AuthLogin when both keys are stored or it failed |
| `Die`, `Boot` | one process: handlers and sessions under way end together, keys and tokens stay |
| `Tick`, `Expire`, `Forget` | time |

The composition takes away what its parts leave open: Api's free choice of who
is authorised, and Sessions' free choice of who may log in.  `gone` is history:
for how long an employee has been deleted with no login at work that had read
the row before.

### Middleware

chi's RequestID, `logging.Middleware` and the counter of `main` around any
handler.  The closure's `logger = logger.With(...)` is two steps, `With` and
`Rebind`, and `Log` reads the variable again.  `logger` is one pointer, so what
the unsynchronised reads and writes of it yield is what some interleaving of
these steps yields.  A logger is the sequence of the requests that have added a
`request_id` to it.  What an id says is left out: RequestID takes over the
`X-Request-Id` of a client, so two requests may bring the same.  A panic
skips the counter and the line; nothing in the chain recovers, net/http does.
Each request of the model comes once; in the proofs there may be any number of
them.

## Runs

| run | instance | states | shows |
|---|---|---|---|
| `Employees` | 2 calls, 2 employee ids, 1 department, 4 forms | 0.38 M | `TypeOK`, `UniqueKeys`, `NoDanglingReferences`, `ReplyTruthful`, `PasswordsWereGiven`, `NoResurrection`, and `DirectorySpec`: Controllers implements Directory |
| `Departments` | 2 calls, 2 employee ids, 2 department ids | 0.81 M | the same tables from the side of the departments |
| `Api` | 2 requests, 2 employee ids, 1 department, REST and gateway | 0.52 M | `ApiTypeOK`, `ReadBackHarmless`, `AnswersTruthful`, `RequestsGetOn` |
| `Liveness` | 2 requests, 1 id each, REST and gRPC | 0.11 M | `EveryRequestEnds`, `EveryCallReturns` |
| `Sessions` | 2 calls, 1 session name, lifetimes 1 and 2 | 0.21 M | `TypeOK`, `LoggedOutIsRejected`, `OnlyAccessTokensPass`, `SessionUsable`, `KeysGoInTime`, and `TicketsSpec`: Sessions implements Tickets |
| `TwoSessions` | 1 call at a time, 2 sessions, lifetimes 1 and 0 | 45 k | `SessionUsable` between sessions, `ForeverKeysAreDead`, `SessionsEnd` |
| `Service` | 2 requests over REST, 1 employee, 1 session name, lifetimes 1 | 0.23 M | `MintedForOwner`, `DeletedIsLockedOut`, `AdmittedRightly` |
| `Middleware` | 4 requests, one a scrape | 0.76 M | `MiddlewareTypeOK`, `LineOfItsTime`, `OneIdPerRequest`, `ScrapeComplete` |
| `PasswordKept` | 2 calls updating 1 employee | | violated, see below |
| `DeletedDepartment` | 2 calls | | violated, see below |
| `GRPCLogout` | 2 calls | | violated, see below |
| `NotFound` | 2 requests | | violated, see below |

**Why the bounds are enough.**  Two calls suffice for every hazard of the tables
and the sessions: each is one call getting between two statements of another.
Two ids give a seeded row and a free one, so that a key can collide, a
reference can point at a row that is about to be deleted, and the id of a
deleted row could be handed out again.  Ann's form has the email of the seeded
employee and no personal number, so updating that employee with it frees the
number 7; Bob's wants that number, and names a manager who may be gone by the
time it is written.  Two more forms are turned down: one without a
name, one with a password too long for bcrypt.  The run of the departments has
an employee of either department and one whose row is refused.  `MaxDays = 2` is
reached by one grant and exceeded by the next.  Lifetimes of one and two
seconds let the access token expire before and after every other step while the
refresh key is still there.  Requests that share a logger interfere in
pairs: one whose assignment is lost, and one that makes it lost; the other two
are one that came before and one that counts.

Three runs are smaller than their modules.  `Api` runs the four operations in
which an answer and its effect can come apart, on a seeded manager whose dates
no JSON can hold, as a gRPC client would have stored them, and `Liveness` four that take one
to three statements.  `Service` has one employee who can log in, present the
access token or nothing, and be deleted, over REST; the other headers (a
refresh token, a token without `Bearer `), doors and operations are in `Sessions`
and `Api`, and the theorems about Service cover all of them.  `TwoSessions`
has one call at a time, for its question is what one session's keys do to
another's; calls that interleave are in `Sessions`.

**Deadlock** is checked in every run: a call can always be made, the process can
always be restarted.

**Symmetry** is used on calls and requests in runs of invariants and action
properties, not in the two runs with a liveness property.

**Fairness.**  `FairApiSpec` assumes of every request that has come in that it
advances while it can: Go schedules every goroutine, and PostgreSQL answers a
statement or the connection breaks.  That no request ever has to come, no
client has to give up and no process has to die or to be started is left
open.  `Sessions!FairSpec` assumes only that the clock ticks and that Redis
drops expired keys; a call may stay at a Redis command for ever.

### Disagreements found

- `PasswordKept`: an UpdateEmployee without a password reads the hash, checks
  uniqueness, and writes the hash back.  A password change by another call in
  between is undone, although both calls report success.
- `DeletedDepartmentIsGone`: DeleteDepartment returns nil when the DELETE
  failed, so the API answers 204 for a department that is still there.
- `MissingIsNotFound`: the REST handlers and the gateway answer 500 for a row
  that is not there; `api.swagger.yaml` promises 404.
- `GRPCLogoutInvalidates`: the gRPC AuthLogout deletes the key
  `access_token:Bearer <jwt>`, which nobody ever sets.

Seen while modelling, without a run of their own:

- the gateway answers 200 where the description has 201 and 204, for it turns
  every OK into 200;
- the gRPC GetEmployees takes no filter (`grpc/server.go:257`), though the
  message has them;
- an employee whose vacation or sick days are zero cannot be updated over gRPC
  as read: the zero becomes a NULL that the column refuses
  (`grpc/utils.go:94-102`).  `ReadBackHarmless` says that nothing worse happens;
- a line of the log carries the ids of all requests that built the logger, and
  not surely its own, where `src/README.md:318` speaks of one `request_id`; the
  logger grows with every request, and a client's `X-Request-Id` may make two
  ids alike;
- `api.swagger.yaml` reserves most operations to some roles (lines 303, 342,
  458, 675 and others) and so does `src/README.md:278-281`; the check is
  commented out (`http/server.go:350-353`) and any valid access token opens every
  endpoint;
- `api.swagger.yaml:282-296` asks for a bearer token at the REST logout and
  promises a 401; the handler does not authenticate (`http/server.go:83-100`);
- a logout never revokes a refresh token: the key it deletes is literally
  `refresh_token:*` (`http/server.go:94`).  `KeysGoInTime` says so.  No handler takes
  a refresh token, so nothing is opened by it;
- a vacation granted to an employee whose dates lie beyond the year 9999 is
  answered 500 over HTTP although it landed (`http/server.go:365-370`).
  `AnswersTruthful` names it as an exception, and excludes it for all other
  writes.

## Theorems

All are proved for any number of calls, requests, ids, forms and sessions, from
the assumptions named in the modules: `NULL` is no value of a column, no number,
no status, no token and no header, the seed tables are well-formed and whole, the default password can be
hashed, forms and messages are forms and messages, lifetimes are natural
numbers, a scrape is a request.

| module | theorem | states |
|---|---|---|
| `ControllersProofs` | `TypeCorrect` | `Spec => []TypeOK` |
| | `IntegrityHolds`, `ReferencesStayWhole` | `Spec => [](UniqueKeys /\ NoDanglingReferences)` |
| | `DeletedForGood` | `Spec => NoResurrection` |
| | `RepliesAreTruthful` | `Spec => []ReplyTruthful` |
| | `PasswordsStayHome` | `Spec => []PasswordsWereGiven` |
| `DirectoryProofs` | `ControllersImplementDirectory` | `Spec => DirectorySpec` |
| `ApiProofs` | `ApiTypeCorrect` | `ApiSpec => []ApiTypeOK` |
| | `AnswersAreTruthful` | `ApiSpec => AnswersTruthful` |
| | `ReadBackIsHarmless` | `ApiSpec => []ReadBackHarmless` |
| | `RequestsAlwaysGetOn` | `ApiSpec => RequestsGetOn` |
| `SessionsProofs` | `TypeCorrect` | `Spec => []TypeOK` |
| | `LogoutIsEffective` | `Spec => []LoggedOutIsRejected` |
| | `OnlyAccessPasses` | `Spec => []OnlyAccessTokensPass` |
| | `SessionsStayUsable` | `Spec => []SessionUsable` |
| | `ForeverIsHarmless` | `Spec => []ForeverKeysAreDead` |
| | `KeysAlwaysGoInTime` | `Spec => KeysGoInTime` |
| `TicketsProofs` | `SessionsImplementTickets` | `Spec => TicketsSpec` |
| `ServiceProofs` | `ServiceImplementsDirectory` | `ServiceSpec => DirectorySpec` |
| | `MintedForTheirOwner` | `ServiceSpec => MintedForOwner` |
| | `DeletedLockedOut` | `ServiceSpec => DeletedIsLockedOut` |
| `WholeProofs` | `OnlyTheRightAreAdmitted` | `ServiceSpec => AdmittedRightly` |
| | `SessionsKeepTheirPromises` | the properties of Sessions, for `ServiceSpec` |
| | `ServersKeepTheirPromises` | the properties of Controllers and Api, for `ServiceSpec` |
| | `ServiceImplementsTickets` | `ServiceSpec => S!TicketsSpec` |
| `MiddlewareProofs` | `MiddlewareTypeCorrect` | `MiddlewareSpec => []MiddlewareTypeOK` |
| | `LinesAreOfTheirTime` | `MiddlewareSpec => []LineOfItsTime` |
| | `LinesGrowByRequest` | `MiddlewareSpec => []OneIdPerRequest` |
| | `ScrapesAreComplete` | `MiddlewareSpec => []ScrapeComplete` |

**Controllers.**  `TypeOK` is inductive because of its last conjunct, `StageOK`,
which says what a call holds at each statement.  The integrity of the tables is
inductive given `TypeOK`: `TablesChangeByLanding` reduces a step to one landing
statement, and one lemma per statement shows that it keeps keys and references;
the COUNT check plays no part in it, the constraints carry it alone.
`ReplyTruthful` needs the strengthening that a call without a result has written
nothing (`Truthful`).  `PasswordsWereGiven` needs one about calls on their way: a
hash that was read to be written back is one given for the call's own employee
(`OwnPasswords`).

**Directory.**  The refinement needs `Holds`: the request a call carries is one
that was valid on arrival, and the hash it carries is the one its password makes
or the one it has recalled.  `LandIsEffect` turns a landing write into the
directory's effect (the tables it leaves are whole by `IntegrityHolds`), and
`StepMaps` puts every other step of a call beside a step of `D!Next` or a
stutter.

**Api.**  An action of Api is one of Controllers or leaves its variables alone,
by construction; `HandlersRunControllers` spells that out, to carry the theorems
of `ControllersProofs` over to `ApiSpec`, and is no result of its own.
`AnswersAreTruthful` uses it to read
`ReplyTruthful` at the moment a handler turns the reply into a status, and
`ApiTypeOK` to know that the call that has ended is the one that was asked for.
That no creation or update is answered 500 because its result does not encode
is `FormsAlwaysFit`: the form of a call has dates that pass through its door, and
so has the row made of it.
`ReadBackHarmless` holds of every row of the two tables' types: `EmployeeReadBack`
and `DepartmentReadBack` compare a row with what its conversion there and back
makes of it, and a zero counter comes back as a `NULL` no row may have.
`RequestsGetOn` uses `Distance`, the number of steps of its own a request has
before it at most (eleven).  As no step of anybody else changes it and each of
its own but `GiveUp` makes it less, a request that keeps being scheduled ends; that part of
`EveryRequestEnds` is proved, the fairness is TLC's.

**Sessions.**  The theorems rest on `Typed`, which adds to `TypeOK` that a login
under way has a session of its own which nobody holds yet (`LoginsOK`), and that
a request carries a token somebody was handed, or none (`RequestsOK`).  Lemmas
say what a step does to the key of a token (`SetAccessKey`, `DeleteAccessKey`,
`OtherKeys`, `KeysRunDown`).  From there each property has its own
strengthening: `KindsOK` (only access tokens have a key where endpoints look),
`LogoutsOK` (the key of a token that is logged out is gone, and no SET of a
login can still be on its way to it, for the session was handed out only after
its last SET), `PassesOK` (a request that passed both looks shows a token
somebody was handed and, unless it was blind, an access token whose logout was
not through when it came), and `ClocksOK` (a key is set for the whole lifetime of its token
after the token was minted, so it outlasts it, from the first SET on and not
only from the moment the tokens are handed out).  `KeysGoInTime` needs `Typed`
alone: only the first deletion of a logout takes a key whose time is not up, an
access key, and the `*` of the second is the text of no token.

**Tickets.**  `Known` gathers the invariants above, and that no token has more
time than its kind (`WithinTTL`).  `Mapped` and `Phases` say what a call and a
token are to a reader of Tickets, and each operation has a lemma that its step
is one of its request or a stutter.  Two carry the weight.  `GetKeyChecks`: a
missing key is a reason to refuse, because by `SessionUsable` a ticket in order
has its key.  `ParseDecides`: whoever passes may be admitted now, by `PassesOK`,
although the key was looked up some steps ago.

**Service.**  Service is composed of actions of Api and of Sessions, so a step of
the whole is a step of each part or leaves it alone, by construction.
`ServersStep` and `SessionsStep` spell that out; `ServiceKeepsServers` and
`ServiceKeepsSessions` serve to carry the theorems about Controllers, Directory,
Api and Sessions over to Service.  `MintedForOwner` needs `FoundsOK`: from the moment the
query answered, the request's password is one given for the employee whose row
it found, which stays true when the row changes or goes, because `given` only
grows (`TablesGrow`).  `DeletedIsLockedOut` needs `TokensOK` (a token names an
employee exactly while it exists), `CountsOK` and `LockOK`: a token that names a
deleted employee whom no login at work has found has at most its lifetime less
`gone` to live.  A login that read the row before the deletion keeps `gone` at
zero until it has minted, which is why the bound counts from its end.

`WholeProofs` instantiates `TicketsProofs` with the variables of Service, shows
that what Sessions assumes of its constants follows from what Service assumes
(`SessionsAssumptions`), and that both instances of Sessions, the one inside
Service and the one the theorems are about, are the same (`SameNext`,
`SameTicketSteps`).  So each theorem about a part is one about the whole.
`AdmittedRightly` is about neither part: it needs `Abreast`, that a request stands
in the handlers where its call stands in the sessions (in `auth` while
CheckUserToken is at work, in the handler with nothing or a logout under way, in
AuthLogin with its two SETs), so that the verdict a handler acts on is that of
its own request.  From there it is `PassesOK` for the token and `ClaimsUsed` for
the employee.

**Middleware.**  `LoggerOfItsTime` strengthens `LineOfItsTime`: from the moment a
request has assigned the logger until it logs, the logger's last id is of a
request that was not over when that one came in.  `IdsOnce` says that no logger
and no line has two ids of one request, and that the shared logger has ids only
of requests of this process that have assigned it, so that the one who is about
to add its own is not among them.

## Model-checked only

Every invariant and every action property of the passing runs is proved, and so
is every refinement.  What the provers cannot do stays with TLC:

- Liveness, which needs fairness and so ENABLED: `EveryRequestEnds`,
  `EveryCallReturns` and `SessionsEnd`.  `RequestsGetOn` is the part of the first
  that is not about fairness.
- That there is no deadlock, for the same reason.
- The four violations, which a theorem could not show: each is a behaviour.

## Not modelled

- The bodies of read results and the filters of GetEmployees; columns without a
  constraint or a control role.
- The bodies of answers, and of requests but for the forms.
- Wire formats, getters and descriptors of the generated code, and the gateway's
  in-process registration, which the program does not use.
- Data races inside `*pgx.Conn`, and the one on the variable `err` that the
  goroutine of the gRPC server shares with `main`: their outcomes are those of
  undefined behaviour, and no state of the models depends on them.
- A restart of Redis or of PostgreSQL, both outside `src/`.
- The role in the claims: no handler looks at it (see the disagreements above).
- Reading the configuration file, beyond the two lifetimes it gives; the values
  of the timeouts (`GiveUp` may come at any moment).
- The labels of the counter, the formatting and rotation of the log, containers
  and monitoring.
