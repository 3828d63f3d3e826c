---- MODULE ServiceProofs ----
(***************************************************************************)
(* Theorems about Service: what the tokens say of an employee stays in     *)
(* step with the employees table as far as the code can keep it.           *)
(***************************************************************************)
EXTENDS Service, ApiProofs, DirectoryProofs

\* The variables of the sessions, as the instance has them.
LEMMA SessionVars == UNCHANGED sessionVars <=> UNCHANGED S!vars
  BY DEF sessionVars, S!vars

\* Every step of the service is a step of the servers or leaves them alone.
LEMMA ServersStep == [ServiceNext]_serviceVars => [ApiNext]_apiVars
<1> SUFFICES ASSUME [ServiceNext]_serviceVars  PROVE [ApiNext]_apiVars
  OBVIOUS
<1>1. ASSUME NEW c \in Calls, Go(c)  PROVE [ApiNext]_apiVars
  <2>1. Serve(c) \/ UNCHANGED apiVars
    BY <1>1 DEF Go, Plain, Present, CheckToken, Admit, TurnAway, AskLogout, DeleteKeys,
       LoggedOut, Mint, StoreKeys, Reply, Serve, Advance, Respond
  <2> QED  BY <2>1 DEF ApiNext
<1>2. CASE Die
  BY <1>2 DEF Die, ApiNext
<1>3. CASE Boot
  BY <1>3 DEF Boot, ApiNext
<1>4. CASE Tick \/ Expire \/ Forget \/ UNCHANGED serviceVars
  BY <1>4 DEF Tick, Expire, Forget, serviceVars
<1> QED  BY <1>1, <1>2, <1>3, <1>4 DEF ServiceNext

\* Service is composed of the actions of Api, so its behaviors are behaviors
\* of the servers: this carries what is proved of Api over to Service.
LEMMA ServiceKeepsServers == ServiceSpec => ApiSpec
<1>1. ServiceInit => ApiInit
  BY DEF ServiceInit
<1> QED  BY <1>1, ServersStep, PTL DEF ServiceSpec, ApiSpec

\* And with handlers and sessions in front, the controllers still are the
\* Directory: nothing between the sockets and the tables lets a client see
\* half a call.
THEOREM ServiceImplementsDirectory == ServiceSpec => DirectorySpec
  BY ServiceKeepsServers, HandlersRunControllers, ControllersImplementDirectory, PTL

\* Every step of the service is a step of its sessions or leaves them alone.
LEMMA SessionsStep == [ServiceNext]_serviceVars => [S!Next]_(S!vars)
<1> SUFFICES ASSUME [ServiceNext]_serviceVars  PROVE [S!Next]_(S!vars)
  OBVIOUS
<1>1. ASSUME NEW c \in Calls, Go(c)  PROVE [S!Next]_(S!vars)
  <2>1. S!Invoke(c) \/ S!Proceed(c) \/ UNCHANGED sessionVars
    BY <1>1 DEF Go, Plain, Present, CheckToken, Admit, TurnAway, AskLogout, DeleteKeys,
       LoggedOut, Mint, StoreKeys, Reply, S!Invoke, S!Proceed
  <2> QED  BY <2>1, SessionVars DEF S!Next, S!Step
<1>2. CASE Die
  BY <1>2 DEF Die, S!Next, S!Step
<1>3. CASE Tick \/ Expire
  BY <1>3 DEF Tick, Expire, S!Next, S!Step
<1>4. CASE Forget
  BY <1>4 DEF Forget, S!Next
<1>5. CASE Boot \/ UNCHANGED serviceVars
  BY <1>5, SessionVars DEF Boot, serviceVars
<1> QED  BY <1>1, <1>2, <1>3, <1>4, <1>5 DEF ServiceNext

\* And of the actions of Sessions, so that they are behaviors of the sessions:
\* this carries what is proved of logouts, token kinds and lifetimes over.
LEMMA ServiceKeepsSessions == ServiceSpec => S!Spec
<1>1. ServiceInit => S!Init
  BY DEF ServiceInit
<1> QED  BY <1>1, SessionsStep, PTL DEF ServiceSpec, S!Spec

----
(***************************************************************************)
(* What the servers and controllers promise the rest.                      *)
(***************************************************************************)
\* Every row has an id that was handed out.
UsedOK == Ids(employees) \subseteq usedEmployees

World == ApiTypeOK /\ Integrity /\ OwnPasswords /\ UsedOK

\* Ids and passwords once given are remembered, and deleted rows stay away.
LEMMA TablesGrow ==
    ASSUME TypeOK, OwnPasswords, UsedOK, [Next]_vars
    PROVE  /\ usedEmployees \subseteq usedEmployees' /\ UsedOK'
           /\ \A e \in EmployeeIds : given[e] \subseteq given'[e]
           /\ \A e \in usedEmployees \ Ids(employees) : e \notin Ids(employees')
<1>1. ASSUME NEW c \in Calls, Land(c)  PROVE usedEmployees \subseteq usedEmployees' /\ UsedOK'
  <2>1. employees \in EmployeeTables
    BY DEF TypeOK
  <2>2. CASE InsertEmployee(c)
    BY <2>1, <2>2 DEF InsertEmployee, UsedOK, Ids, EmployeeTables
  <2>3. CASE updateEmployeeInDB(c) \/ AddVacation(c) \/ RemoveEmployee(c)
    BY <2>1, <2>3 DEF updateEmployeeInDB, AddVacation, RemoveEmployee, WithoutEmployee,
       UsedOK, Ids, EmployeeTables
  <2>4. CASE InsertDepartment(c) \/ ReplaceDepartment(c) \/ RemoveDepartment(c)
    BY <2>4 DEF InsertDepartment, ReplaceDepartment, RemoveDepartment, UsedOK, Ids
  <2> QED  BY <1>1, <2>2, <2>3, <2>4 DEF Land
<1>2. CASE UNCHANGED tables
  BY <1>2 DEF tables, UsedOK, Ids
<1>3. \A e \in usedEmployees \ Ids(employees) : e \notin Ids(employees')
  BY NoReturnStep DEF NoReturn, vars, tables, Ids
<1> QED  BY <1>1, <1>2, <1>3, TablesChangeByLanding, PasswordsTables

\* The world stays as it is, whatever the service does.
LEMMA WorldAlways == ServiceSpec => []World
<1>1. ServiceInit => World
  <2>1. ApiInit => ApiTypeOK
    BY TypeInit, AnswersAssumption DEF ApiInit, Init, ApiTypeOK
  <2>2. Init => Integrity /\ OwnPasswords /\ UsedOK
    BY SeedAssumption DEF Init, Integrity, UniqueKeys, NoDanglingReferences, OwnPasswords,
       PasswordsWereGiven, CarriesOwn, Ids, EmployeeTables, UsedOK
  <2> QED  BY <2>1, <2>2 DEF ServiceInit, ApiInit, World
<1>2. World /\ [ServiceNext]_serviceVars => World'
  BY ServersStep, HandlerStep, ApiTypeStep, IntegrityStep, OwnPasswordsStep, TablesGrow
     DEF World, ApiTypeOK
<1> QED  BY <1>1, <1>2, PTL DEF ServiceSpec

----
(***************************************************************************)
(* Logins.                                                                 *)
(***************************************************************************)
\* The password of c's AuthLogin has matched.
Matched(c) ==
    stage[c] = "controller" /\ asked[c] = "AuthLogin" /\ pc[c] = "done" /\ reply[c] = "ok"

\* The row it read was that of the employee it found, with that password.
FoundOK(c) ==
    Matched(c) => /\ found[c] \in usedEmployees
                  /\ Hash(req[c].password) \in given[found[c]]

FoundsOK ==
    /\ found \in [Calls -> EmployeeIds \cup {NULL}]
    /\ \A c \in Calls : FoundOK(c)

\* A password matches by the answer to the query, and by nothing else.
LEMMA MatchedByRead ==
    ASSUME World, NEW c \in Calls, Work(c), Matched(c)'
    PROVE  /\ pc[c] = "read" /\ req'[c] = req[c] /\ req[c].op = "AuthLogin"
           /\ asked[c] = "AuthLogin" /\ Found(c) /\ UNCHANGED tables
<1>1. /\ TypeOK /\ StageOK(c) /\ stage[c] = "controller" /\ pc[c] # "done"
      /\ asked[c] = "AuthLogin" /\ req[c].op = "AuthLogin"
  BY DEF World, ApiTypeOK, TypeOK, Work, handlers, Matched
<1>2. pc'[c] = "done" /\ reply'[c] = "ok"
  BY DEF Matched
<1>3. ~ Land(c) /\ ~ Misses(c)
  BY <1>1 DEF Land, Misses, InsertEmployee, updateEmployeeInDB, AddVacation, RemoveEmployee,
     InsertDepartment, ReplaceDepartment, RemoveDepartment
<1>4. ErrorReply(c) = "error"
  BY <1>1 DEF ErrorReply
<1>5. AnswerRead(c)
  BY <1>1, <1>2, <1>3, <1>4
     DEF Work, Proceed, Answer, Acquire, Refuse, AnswerPassword, AnswerCount, AnswerWrite,
         LoseConnection, Return, Finish, TypeOK, StageOK
<1> QED  BY <1>1, <1>2, <1>5 DEF AnswerRead, Finish, TypeOK

\* The row the query finds is that of one employee, who was given the password.
LEMMA RowIsOwners ==
    ASSUME World, NEW c \in Calls, Found(c), req[c].op = "AuthLogin", asked[c] = "AuthLogin",
           pc[c] = "read", pc'[c] = "done", reply'[c] = "ok"
    PROVE  /\ RowFound(c) \in Ids(employees)
           /\ Hash(req[c].password) \in given[RowFound(c)]
<1>1. PICK e \in Ids(employees) :
        employees[e].email = req[c].email /\ employees[e].password = Hash(req[c].password)
  BY DEF Found, Knows
<1>2. \A f \in Ids(employees) : employees[f].email = req[c].email => f = e
  BY <1>1 DEF World, Integrity, UniqueKeys, UniqueKeysOf, SameKey
<1>3. RowFound(c) = e
  BY <1>1, <1>2 DEF RowFound
<1> QED  BY <1>1, <1>3 DEF World, OwnPasswords, PasswordsWereGiven

\* Each step keeps FoundsOK.
LEMMA FoundsStep == World /\ FoundsOK /\ [ServiceNext]_serviceVars => FoundsOK'
<1> SUFFICES ASSUME World, FoundsOK, [ServiceNext]_serviceVars  PROVE FoundsOK'
  OBVIOUS
<1>0. /\ ApiTypeOK /\ TypeOK /\ usedEmployees \subseteq EmployeeIds
      /\ usedEmployees \subseteq usedEmployees'
      /\ \A e \in EmployeeIds : given[e] \subseteq given'[e]
  BY ServersStep, HandlerStep, TablesGrow DEF World, ApiTypeOK, TypeOK
<1>1. ASSUME NEW b \in Calls, found'[b] = found[b], Matched(b)' => Matched(b) /\ req'[b] = req[b]
      PROVE  FoundOK(b)'
  BY <1>0, <1>1 DEF FoundsOK, FoundOK
<1>2. ASSUME NEW c \in Calls, Serve(c), NEW b \in Calls, b # c
      PROVE  Matched(b)' => Matched(b) /\ req'[b] = req[b]
  <2>1. /\ stage'[b] = stage[b] /\ asked'[b] = asked[b]
        /\ pc'[b] = pc[b] /\ req'[b] = req[b]
    BY <1>0, <1>2, ServeLeavesOthers
  <2>2. reply'[b] = reply[b]
    <3>1. CASE Invoke(c) \/ Proceed(c)
      BY <1>0, <1>2, <3>1, OthersUntouched
    <3>2. CASE UNCHANGED vars
      BY <3>2 DEF vars
    <3> QED
      BY <1>2, <3>1, <3>2
      DEF Serve, Advance, Receive, BadRequest, Unavailable, Route, Unauthorized,
          Authorized, BadBody, Logout, Handle, Work, GiveUp, Respond, RespondWith, Close,
          Reject, Proceed
  <2> QED  BY <2>1, <2>2 DEF Matched
<1>3. ASSUME NEW c \in Calls, Plain(c)  PROVE FoundsOK'
  <2>1. Serve(c) /\ found' = [found EXCEPT ![c] = RowFound(c)]
    BY <1>3 DEF Plain, Serve, Advance
  <2>2. CASE Work(c) /\ Matched(c)'
    <3>1. /\ pc[c] = "read" /\ req'[c] = req[c] /\ req[c].op = "AuthLogin"
          /\ asked[c] = "AuthLogin" /\ Found(c) /\ pc'[c] = "done" /\ reply'[c] = "ok"
      BY <2>2, MatchedByRead DEF Matched
    <3>2. RowFound(c) \in Ids(employees) /\ Hash(req[c].password) \in given[RowFound(c)]
      BY <3>1, RowIsOwners
    <3>3. RowFound(c) \in usedEmployees /\ RowFound(c) \in EmployeeIds
      BY <1>0, <3>2 DEF World, UsedOK
    <3>4. found'[c] = RowFound(c) /\ found' \in [Calls -> EmployeeIds \cup {NULL}]
      BY <2>1, <3>3 DEF FoundsOK
    <3>5. FoundOK(c)'
      BY <1>0, <3>1, <3>2, <3>3, <3>4 DEF FoundOK
    <3>6. \A b \in Calls \ {c} : found'[b] = found[b]
      BY <2>1 DEF FoundsOK
    <3>7. \A b \in Calls \ {c} : FoundOK(b)'
      BY <1>1, <1>2, <2>1, <3>6
    <3> QED  BY <3>4, <3>5, <3>7 DEF FoundsOK
  <2>3. CASE ~ (Work(c) /\ Matched(c)')
    <3>1. Matched(c)' => Matched(c) /\ req'[c] = req[c]
      <4>1. CASE Handle(c)
        <5>1. reply'[c] # "ok" \/ pc'[c] # "done"
          BY <1>0, <4>1 DEF Handle, Invoke, GetEmployees, GetEmployeeByID, CreateEmployee,
             RequestVacation, UpdateEmployee, DeleteEmployee, GetDepartments,
             GetDepartmentByID, CreateDepartment, UpdateDepartment, DeleteDepartment,
             AuthLogin, Start, TurnDown, TypeOK
        <5> QED  BY <5>1 DEF Matched
      <4>2. CASE GiveUp(c)
        BY <4>2 DEF GiveUp, Matched, vars
      <4>3. CASE ~ Handle(c) /\ ~ GiveUp(c) /\ ~ Work(c)
        <5>1. stage'[c] # "controller"
          BY <1>0, <1>3, <4>3 DEF Plain, Receive, BadRequest, Unavailable, Route, BadBody,
             Close, Reject, Move, ApiTypeOK
        <5> QED  BY <5>1 DEF Matched
      <4> QED  BY <2>3, <4>1, <4>2, <4>3
    <3>2. RowFound(c) = found[c] \/ Matched(c)'
      <4>1. CASE Work(c)
        BY <1>0, <4>1 DEF Work, RowFound, Matched, handlers
      <4>2. CASE Handle(c)
        BY <1>0, <4>2 DEF Handle, RowFound, Move, ApiTypeOK
      <4>3. CASE ~ Work(c) /\ ~ Handle(c)
        <5>1. pc' = pc
          BY <1>3, <4>3 DEF Plain, Receive, BadRequest, Unavailable, Route, BadBody,
             Close, Reject, GiveUp, vars
        <5> QED  BY <5>1 DEF RowFound
      <4> QED  BY <4>1, <4>2, <4>3
    <3>3. RowFound(c) = found[c]
      <4>1. ASSUME Matched(c)'  PROVE RowFound(c) = found[c]
        BY <3>1, <4>1 DEF Matched, RowFound
      <4> QED  BY <3>2, <4>1
    <3>4. found' = found
      BY <2>1, <3>3 DEF FoundsOK
    <3>5. \A b \in Calls : Matched(b)' => Matched(b) /\ req'[b] = req[b]
      BY <1>2, <2>1, <3>1
    <3> QED  BY <1>1, <3>4, <3>5 DEF FoundsOK
  <2> QED  BY <2>2, <2>3
<1>4. ASSUME NEW c \in Calls, Admit(c) \/ TurnAway(c) \/ LoggedOut(c) \/ Reply(c)  PROVE FoundsOK'
  <2>1. Serve(c) /\ stage'[c] # "controller"
    BY <1>0, <1>4 DEF Admit, TurnAway, LoggedOut, Reply, Serve, Advance, Respond, RespondWith,
       Authorized, Unauthorized, Logout, Reject, Move, ApiTypeOK
  <2>2. \A b \in Calls : Matched(b)' => Matched(b) /\ req'[b] = req[b]
    BY <1>2, <2>1 DEF Matched
  <2>3. /\ found' \in [Calls -> EmployeeIds \cup {NULL}]
        /\ \A b \in Calls \ {c} : found'[b] = found[b]
    BY <1>4 DEF Admit, TurnAway, LoggedOut, Reply, FoundsOK
  <2>4. FoundOK(c)'
    BY <2>1 DEF FoundOK, Matched
  <2>5. \A b \in Calls \ {c} : FoundOK(b)'
    BY <1>1, <2>2, <2>3
  <2> QED  BY <2>3, <2>4, <2>5 DEF FoundsOK
<1>5. CASE Die
  BY <1>0, <1>5 DEF Die, Crash, FoundsOK, FoundOK, Matched
<1>6. CASE UNCHANGED <<vars, handlers, found>>
  BY <1>6 DEF vars, tables, handlers, FoundsOK, FoundOK, Matched
<1>7. ASSUME NEW c \in Calls, Present(c) \/ CheckToken(c) \/ AskLogout(c) \/ DeleteKeys(c)
                              \/ Mint(c) \/ StoreKeys(c)
      PROVE  UNCHANGED <<vars, handlers, found>>
  BY <1>7 DEF Present, CheckToken, AskLogout, DeleteKeys, Mint, StoreKeys, apiVars
<1>8. CASE Boot \/ Tick \/ Expire \/ Forget \/ UNCHANGED serviceVars
  BY <1>6, <1>8 DEF Boot, Tick, Expire, Forget, serviceVars, apiVars, ServeGRPC, ServeHTTP
<1> QED  BY <1>3, <1>4, <1>5, <1>6, <1>7, <1>8 DEF ServiceNext, Go

\* From the reading of the row to the minting of the tokens, c has found the
\* employee whose password it brought.
LEMMA FoundsAlways == ServiceSpec => []FoundsOK
<1>1. ServiceInit => FoundsOK
  BY DEF ServiceInit, ApiInit, FoundsOK, FoundOK, Matched
<1> QED  BY <1>1, WorldAlways, FoundsStep, PTL DEF ServiceSpec

----
(***************************************************************************)
(* Tokens and the employees they name.                                     *)
(***************************************************************************)
TokensTyped ==
    /\ at \in [Calls -> S!Stages]
    /\ session \in [Calls -> Sessions \cup {NULL}]
    /\ jwt \in [S!Tokens -> Nat \cup {NULL}]
    /\ claims \in [Sessions -> EmployeeIds \cup {NULL}]
    /\ verdict \in [Calls -> {"ok", "unauthorized", "error", NULL}]

\* A session has tokens just when they name an employee.
Claimed == \A t \in S!Tokens : jwt[t] = NULL <=> claims[t.session] = NULL

TokensOK == TokensTyped /\ Claimed

LEMMA TokenFacts ==
    /\ \A t \in S!Tokens : t.session \in Sessions /\ t.kind \in {"access", "refresh"}
    /\ \A s \in Sessions, kind \in {"access", "refresh"} :
         [session |-> s, kind |-> kind] \in S!Tokens
    /\ \A kind \in {"access", "refresh"} : S!TTL(kind) \in Nat
  BY LifetimesAssumption DEF S!Tokens, S!Kinds, S!TTL

\* Only a login mints tokens, time and forgetting are all else that changes
\* them; and a call comes to store keys by a login only.
LEMMA OnlyLoginsMint ==
    ASSUME TokensTyped, NEW c \in Calls, Go(c), ~ Mint(c)
    PROVE  /\ UNCHANGED <<jwt, claims>>
           /\ at' \in [Calls -> S!Stages]
           /\ session' \in [Calls -> Sessions \cup {NULL}]
           /\ verdict' \in [Calls -> {"ok", "unauthorized", "error", NULL}]
           /\ \A b \in Calls : at[b] = "idle" => at'[b] # "set_access"
<1>1. CASE Present(c) \/ AskLogout(c)
  BY <1>1 DEF Present, AskLogout, S!LogoutGRPC, S!Protected, S!LogoutREST, S!Authenticate,
     S!Arrive, S!Continue, S!Finish, S!calls, S!Stages, TokensTyped
<1>2. CASE CheckToken(c) \/ DeleteKeys(c) \/ StoreKeys(c)
  BY <1>2 DEF CheckToken, DeleteKeys, StoreKeys, S!GetKey, S!Parse, S!DeleteAccess,
     S!DeleteRefresh, S!SetAccess, S!SetRefresh, S!Continue, S!Finish, S!calls, S!Stages,
     TokensTyped
<1>3. CASE Admit(c) \/ TurnAway(c) \/ LoggedOut(c) \/ Reply(c)
  BY <1>3 DEF Admit, TurnAway, LoggedOut, Reply, S!Return, S!Stages, sessionVars, TokensTyped
<1>4. CASE Plain(c)
  BY <1>4 DEF Plain, sessionVars, TokensTyped
<1> QED  BY <1>1, <1>2, <1>3, <1>4 DEF Go

\* What a login does: tokens for a session that has none, in the name of the
\* employee that was found.
LEMMA MintMints ==
    ASSUME TokensOK, World, FoundsOK, NEW c \in Calls, Mint(c)
    PROVE  \E s \in Sessions :
             /\ claims[s] = NULL /\ session'[c] = s
             /\ at' = [at EXCEPT ![c] = "set_access"]
             /\ session' = [session EXCEPT ![c] = s] /\ verdict' = verdict
             /\ jwt' = [t \in S!Tokens |-> IF t.session = s THEN S!TTL(t.kind) ELSE jwt[t]]
             /\ claims' = [claims EXCEPT ![s] = found[c]]
             /\ found[c] \in usedEmployees /\ found[c] \in EmployeeIds
             /\ Hash(req[c].password) \in given[found[c]]
<1>1. PICK s \in Sessions :
        /\ jwt[[session |-> s, kind |-> "access"]] = NULL
        /\ jwt' = [t \in S!Tokens |-> IF t.session = s THEN S!TTL(t.kind) ELSE jwt[t]]
        /\ session' = [session EXCEPT ![c] = s]
  BY DEF Mint, S!Login
<1>2. at' = [at EXCEPT ![c] = "set_access"] /\ verdict' = verdict
  BY DEF Mint, S!Login, S!Continue
<1>3. claims[s] = NULL /\ session'[c] = s
  <2>1. [session |-> s, kind |-> "access"] \in S!Tokens
    BY TokenFacts
  <2> QED  BY <1>1, <2>1 DEF TokensOK, TokensTyped, Claimed
<1>4. claims' = [claims EXCEPT ![s] = found[c]]
  BY <1>3 DEF Mint
<1>5. Matched(c)
  BY DEF Mint, Matched
<1>6. /\ found[c] \in usedEmployees /\ found[c] \in EmployeeIds
      /\ Hash(req[c].password) \in given[found[c]]
  BY <1>5 DEF FoundsOK, FoundOK, World, ApiTypeOK, TypeOK
<1> QED  BY <1>1, <1>2, <1>3, <1>4, <1>6

\* Each step keeps TokensOK.
LEMMA TokensStep == World /\ FoundsOK /\ TokensOK /\ [ServiceNext]_serviceVars => TokensOK'
<1> SUFFICES ASSUME World, FoundsOK, TokensOK, [ServiceNext]_serviceVars  PROVE TokensOK'
  OBVIOUS
<1>1. ASSUME NEW c \in Calls, Go(c), ~ Mint(c)  PROVE TokensOK'
  BY <1>1, OnlyLoginsMint DEF TokensOK, TokensTyped, Claimed
<1>2. ASSUME NEW c \in Calls, Mint(c)  PROVE TokensOK'
  <2>1. PICK s \in Sessions :
          /\ at' = [at EXCEPT ![c] = "set_access"]
          /\ session' = [session EXCEPT ![c] = s] /\ verdict' = verdict
          /\ jwt' = [t \in S!Tokens |-> IF t.session = s THEN S!TTL(t.kind) ELSE jwt[t]]
          /\ claims' = [claims EXCEPT ![s] = found[c]]
          /\ found[c] \in EmployeeIds
    BY <1>2, MintMints
  <2>2. TokensTyped'
    BY <2>1, TokenFacts DEF TokensOK, TokensTyped, S!Stages
  <2>3. Claimed'
    BY <2>1, TokenFacts, NullAssumption, LifetimesAssumption DEF TokensOK, TokensTyped, Claimed
  <2> QED  BY <2>2, <2>3 DEF TokensOK
<1>3. CASE Die
  BY <1>3 DEF Die, S!Restart, S!Stages, TokensOK, TokensTyped, Claimed
<1>4. CASE Tick
  <2>1. /\ jwt' = [t \in S!Tokens |-> S!OneLess(jwt[t])]
        /\ UNCHANGED <<at, session, verdict, claims>>
    BY <1>4 DEF Tick, S!Tick, S!calls
  <2>2. \A n \in Nat \cup {NULL} :
          S!OneLess(n) \in Nat \cup {NULL} /\ (S!OneLess(n) = NULL <=> n = NULL)
    BY LifetimesAssumption DEF S!OneLess
  <2> QED  BY <2>1, <2>2 DEF TokensOK, TokensTyped, Claimed
<1>5. CASE Forget
  <2>1. PICK s \in Sessions :
          /\ jwt' = [t \in S!Tokens |-> IF t.session = s THEN NULL ELSE jwt[t]]
          /\ claims' = [claims EXCEPT ![s] = NULL]
          /\ UNCHANGED <<at, session, verdict>>
    BY <1>5 DEF Forget, S!Forget, S!calls
  <2> QED  BY <2>1, TokenFacts DEF TokensOK, TokensTyped, Claimed
<1>6. CASE Boot \/ Expire \/ UNCHANGED serviceVars
  BY <1>6 DEF Boot, Expire, S!Expire, S!calls, serviceVars, sessionVars, TokensOK,
     TokensTyped, Claimed
<1> QED  BY <1>1, <1>2, <1>3, <1>4, <1>5, <1>6 DEF ServiceNext

\* A session has tokens just when they name an employee, always.
LEMMA TokensAlways == ServiceSpec => []TokensOK
<1>1. ServiceInit => TokensOK
  BY TokenFacts DEF ServiceInit, S!Init, S!Stages, TokensOK, TokensTyped, Claimed
<1> QED  BY <1>1, WorldAlways, FoundsAlways, TokensStep, PTL DEF ServiceSpec

\* MintedForOwner of one step.
MintedStep ==
    \A c \in Calls, s \in Sessions :
        /\ at[c] = "idle" /\ at'[c] = "set_access" /\ session'[c] = s
        => /\ claims[s] = NULL
           /\ claims'[s] \in usedEmployees
           /\ Hash(req[c].password) \in given[claims'[s]]

\* Only a Mint takes a call to the storing of keys.
LEMMA MintedInStep ==
    World /\ FoundsOK /\ TokensOK /\ [ServiceNext]_serviceVars => [MintedStep]_serviceVars
<1> SUFFICES ASSUME World, FoundsOK, TokensOK, ServiceNext,
                    NEW b \in Calls, NEW r \in Sessions,
                    at[b] = "idle", at'[b] = "set_access", session'[b] = r
             PROVE  /\ claims[r] = NULL
                    /\ claims'[r] \in usedEmployees
                    /\ Hash(req[b].password) \in given[claims'[r]]
  BY DEF MintedStep
<1>1. ASSUME NEW c \in Calls, Mint(c)
      PROVE  /\ claims[r] = NULL
             /\ claims'[r] \in usedEmployees
             /\ Hash(req[b].password) \in given[claims'[r]]
  <2>1. PICK s \in Sessions :
          /\ claims[s] = NULL /\ session'[c] = s
          /\ at' = [at EXCEPT ![c] = "set_access"]
          /\ claims' = [claims EXCEPT ![s] = found[c]]
          /\ found[c] \in usedEmployees
          /\ Hash(req[c].password) \in given[found[c]]
    BY <1>1, MintMints
  <2>2. b = c
    BY <2>1 DEF TokensOK, TokensTyped
  <2>3. r = s /\ claims'[r] = found[b]
    BY <2>1, <2>2 DEF TokensOK, TokensTyped
  <2> QED  BY <2>1, <2>2, <2>3
<1>2. ASSUME NEW c \in Calls, Go(c)  PROVE Mint(c)
  BY <1>2, OnlyLoginsMint DEF TokensOK
<1>3. ~ Die
  BY DEF Die, S!Restart
<1>4. ~ (Boot \/ Tick \/ Expire \/ Forget)
  BY DEF Boot, Tick, Expire, Forget, S!Tick, S!Expire, S!Forget, S!calls, sessionVars
<1> QED  BY <1>1, <1>2, <1>3, <1>4 DEF ServiceNext

\* Tokens are minted for the employee whose password was brought, whatever
\* other calls do to the row between the query of AuthLogin and its minting,
\* and the tokens of a session never come to name another.
THEOREM MintedForTheirOwner == ServiceSpec => MintedForOwner
<1>1. ServiceSpec => [][MintedStep]_serviceVars
  BY WorldAlways, FoundsAlways, TokensAlways, MintedInStep, PTL DEF ServiceSpec
<1> QED  BY <1>1, PTL DEF MintedForOwner, MintedStep

----
(***************************************************************************)
(* Deleted employees.                                                      *)
(***************************************************************************)
\* Who may still have tokens minted has not been counted as gone.
CountsOK ==
    /\ gone \in [EmployeeIds -> Nat]
    /\ \A e \in EmployeeIds : e \notin usedEmployees \ Ids(employees) => gone[e] = 0
    /\ \A c \in Calls : found[c] # NULL => gone[found[c]] = 0

\* The time a token has left and the time its employee has been gone fit into
\* its lifetime.
LockOK ==
    \A t \in S!Tokens : jwt[t] \notin {NULL, 0} =>
        jwt[t] + gone[claims[t.session]] <= S!TTL(t.kind)

\* Each step but of the clock leaves the counts, and counts right.
LEMMA CountsStep ==
    World /\ FoundsOK /\ CountsOK /\ [ServiceNext]_serviceVars => CountsOK' /\ (Tick \/ gone' = gone)
<1> SUFFICES ASSUME World, FoundsOK, CountsOK, [ServiceNext]_serviceVars
             PROVE  CountsOK' /\ (Tick \/ gone' = gone)
  OBVIOUS
<1>0. \A e \in EmployeeIds : /\ e \in usedEmployees \ Ids(employees)
                             => e \in usedEmployees' \ Ids(employees')
  BY ServersStep, HandlerStep, TablesGrow DEF World, ApiTypeOK
<1>1. ASSUME NEW c \in Calls, Plain(c)  PROVE CountsOK' /\ gone' = gone
  <2>1. gone' = gone /\ found' = [found EXCEPT ![c] = RowFound(c)]
    BY <1>1 DEF Plain
  <2>2. RowFound(c) = found[c] \/ gone[RowFound(c)] = 0
    <3>1. CASE Work(c) /\ Matched(c)'
      <4>1. RowFound(c) \in Ids(employees)
        BY <3>1, MatchedByRead, RowIsOwners DEF Matched
      <4> QED  BY <4>1 DEF CountsOK, World, UsedOK, ApiTypeOK, TypeOK
    <3>2. CASE Work(c) /\ ~ Matched(c)'
      BY <3>2 DEF Work, RowFound, Matched, handlers
    <3>3. CASE Handle(c)
      BY <3>3 DEF Handle, RowFound, Move, World, ApiTypeOK
    <3>4. CASE ~ Work(c) /\ ~ Handle(c)
      <4>1. pc' = pc
        BY <1>1, <3>4 DEF Plain, Receive, BadRequest, Unavailable, Route, BadBody,
           Close, Reject, GiveUp, vars
      <4> QED  BY <4>1 DEF RowFound
    <3> QED  BY <3>1, <3>2, <3>3, <3>4
  <2> QED  BY <1>0, <2>1, <2>2 DEF CountsOK, FoundsOK
<1>2. CASE Tick
  <2>1. /\ UNCHANGED <<employees, usedEmployees, found>>
        /\ gone' = [e \in EmployeeIds |->
                     IF e \notin usedEmployees \ Ids(employees) \/ \E c \in Calls : found[c] = e THEN 0
                     ELSE IF gone[e] < Longest THEN gone[e] + 1 ELSE gone[e]]
    BY <1>2 DEF Tick, apiVars, vars, tables
  <2>2. gone' \in [EmployeeIds -> Nat]
    BY <2>1 DEF CountsOK
  <2>3. \A e \in EmployeeIds : e \notin usedEmployees \ Ids(employees) => gone'[e] = 0
    BY <2>1
  <2>4. \A c \in Calls : found[c] # NULL => gone'[found[c]] = 0
    BY <2>1 DEF FoundsOK
  <2> QED  BY <1>2, <2>1, <2>2, <2>3, <2>4 DEF CountsOK, Ids
<1>3. CASE Die
  BY <1>0, <1>3 DEF Die, CountsOK
<1>4. ASSUME gone' = gone, \A c \in Calls : found'[c] \in {found[c], NULL}
      PROVE  CountsOK' /\ gone' = gone
  BY <1>0, <1>4 DEF CountsOK
<1>5. ASSUME NEW c \in Calls, Go(c), ~ Plain(c)
      PROVE  gone' = gone /\ \A b \in Calls : found'[b] \in {found[b], NULL}
  BY <1>5 DEF Go, Present, CheckToken, Admit, TurnAway, AskLogout, DeleteKeys, LoggedOut,
     Mint, StoreKeys, Reply, FoundsOK
<1>6. CASE Boot \/ Expire \/ Forget \/ UNCHANGED serviceVars
  <2>1. gone' = gone /\ found' = found
    BY <1>6 DEF Boot, Expire, Forget, serviceVars
  <2> QED  BY <1>4, <2>1
<1> QED  BY <1>1, <1>2, <1>3, <1>4, <1>5, <1>6 DEF ServiceNext

\* Each step keeps LockOK: a login names somebody not gone at all, and every
\* second takes from the one what it adds to the other.
LEMMA LockStep ==
    World /\ FoundsOK /\ TokensOK /\ CountsOK /\ LockOK /\ [ServiceNext]_serviceVars => LockOK'
<1> SUFFICES ASSUME World, FoundsOK, TokensOK, CountsOK, LockOK, [ServiceNext]_serviceVars
             PROVE  LockOK'
  OBVIOUS
<1>0. CountsOK' /\ (Tick \/ gone' = gone)
  BY CountsStep
<1>1. ASSUME gone' = gone, UNCHANGED <<jwt, claims>>  PROVE LockOK'
  BY <1>1 DEF LockOK
<1>2. ASSUME NEW c \in Calls, Mint(c)  PROVE LockOK'
  <2>1. PICK s \in Sessions :
          /\ jwt' = [t \in S!Tokens |-> IF t.session = s THEN S!TTL(t.kind) ELSE jwt[t]]
          /\ claims' = [claims EXCEPT ![s] = found[c]]
          /\ found[c] \in EmployeeIds
    BY <1>2, MintMints
  <2>2. gone' = gone /\ gone[found[c]] = 0
    BY <1>2, <2>1, NullAssumption DEF Mint, CountsOK
  <2>3. ASSUME NEW t \in S!Tokens, jwt'[t] \notin {NULL, 0}
        PROVE  jwt'[t] + gone'[claims'[t.session]] <= S!TTL(t.kind)
    <3>1. t.session \in Sessions /\ S!TTL(t.kind) \in Nat
      BY TokenFacts
    <3>2. CASE t.session = s
      BY <2>1, <2>2, <3>1, <3>2 DEF TokensOK, TokensTyped
    <3>3. CASE t.session # s
      BY <2>1, <2>2, <2>3, <3>1, <3>3 DEF TokensOK, TokensTyped, LockOK
    <3> QED  BY <3>2, <3>3
  <2> QED  BY <2>3 DEF LockOK
<1>3. CASE Tick
  <2>1. /\ jwt' = [t \in S!Tokens |-> S!OneLess(jwt[t])] /\ claims' = claims
        /\ \A e \in EmployeeIds : gone'[e] \in Nat /\ gone'[e] <= gone[e] + 1
    BY <1>0, <1>3 DEF Tick, S!Tick, CountsOK
  <2>2. ASSUME NEW t \in S!Tokens, jwt'[t] \notin {NULL, 0}
        PROVE  jwt'[t] + gone'[claims'[t.session]] <= S!TTL(t.kind)
    <3>1. /\ jwt[t] \in Nat /\ jwt[t] # 0 /\ jwt'[t] = jwt[t] - 1
          /\ jwt[t] # NULL
      BY <2>1, <2>2, LifetimesAssumption DEF S!OneLess, TokensOK, TokensTyped
    <3>2. t.session \in Sessions /\ S!TTL(t.kind) \in Nat
      BY TokenFacts
    <3>3. claims[t.session] \in EmployeeIds
      BY <3>1, <3>2 DEF TokensOK, TokensTyped, Claimed
    <3>4. jwt[t] + gone[claims[t.session]] <= S!TTL(t.kind)
      BY <3>1 DEF LockOK
    <3> QED  BY <2>1, <3>1, <3>2, <3>3, <3>4 DEF CountsOK
  <2> QED  BY <2>2 DEF LockOK
<1>4. CASE Forget
  <2>1. gone' = gone
    BY <1>4 DEF Forget
  <2>2. PICK s \in Sessions :
          /\ jwt' = [t \in S!Tokens |-> IF t.session = s THEN NULL ELSE jwt[t]]
          /\ claims' = [claims EXCEPT ![s] = NULL]
    BY <1>4 DEF Forget, S!Forget
  <2>3. ASSUME NEW t \in S!Tokens, jwt'[t] \notin {NULL, 0}
        PROVE  jwt'[t] + gone'[claims'[t.session]] <= S!TTL(t.kind)
    BY <2>1, <2>2, <2>3, TokenFacts DEF TokensOK, TokensTyped, LockOK
  <2> QED  BY <2>3 DEF LockOK
<1>5. ASSUME NEW c \in Calls, Go(c), ~ Mint(c)  PROVE UNCHANGED <<gone, jwt, claims>>
  <2>1. UNCHANGED <<jwt, claims>>
    BY <1>5, OnlyLoginsMint DEF TokensOK
  <2>2. gone' = gone
    BY <1>5 DEF Go, Plain, Present, CheckToken, Admit, TurnAway, AskLogout, DeleteKeys,
       LoggedOut, StoreKeys, Reply
  <2> QED  BY <2>1, <2>2
<1>6. CASE Die \/ Boot \/ Expire \/ UNCHANGED serviceVars
  <2>1. UNCHANGED <<gone, jwt, claims>>
    BY <1>6 DEF Die, Boot, Expire, S!Restart, S!Expire, S!calls, serviceVars, sessionVars
  <2> QED  BY <1>1, <2>1
<1> QED  BY <1>1, <1>2, <1>3, <1>4, <1>5, <1>6 DEF ServiceNext

\* The counts and the lifetimes fit together, always.
LEMMA LockAlways == ServiceSpec => [](CountsOK /\ LockOK)
<1>1. ServiceInit => CountsOK /\ LockOK
  BY DEF ServiceInit, ApiInit, Init, S!Init, CountsOK, LockOK
<1> QED
  BY <1>1, WorldAlways, FoundsAlways, TokensAlways, CountsStep, LockStep, PTL DEF ServiceSpec

\* DeletedIsLockedOut of one step.
LockedOut ==
    \A c \in Calls, t \in S!Tokens :
        /\ at[c] = "parse" /\ at'[c] = "done" /\ verdict'[c] = "ok"
        /\ header[c].jwt = t
        => gone[claims[t.session]] < S!TTL(t.kind)

\* Only a Parse that found the token unexpired lets a request in.
LEMMA AcceptedByParse ==
    ASSUME TokensOK, NEW b \in Calls, ServiceNext,
           at[b] = "parse", at'[b] = "done", verdict'[b] = "ok"
    PROVE  jwt[header[b].jwt] \notin {NULL, 0}
<1>1. ASSUME NEW c \in Calls, Go(c)  PROVE CheckToken(c) /\ c = b
  <2>1. at'[b] = at[b] \/ c = b
    BY <1>1 DEF Go, Plain, Present, CheckToken, Admit, TurnAway, AskLogout, DeleteKeys,
       LoggedOut, Mint, StoreKeys, Reply, S!LogoutGRPC, S!Protected, S!LogoutREST,
       S!Authenticate, S!Arrive, S!GetKey, S!Parse, S!DeleteAccess, S!DeleteRefresh,
       S!SetAccess, S!SetRefresh, S!Login, S!Return, S!Continue, S!Finish, S!calls,
       sessionVars, TokensOK, TokensTyped
  <2>2. c = b => CheckToken(c)
    BY <1>1 DEF Go, Plain, Present, Admit, TurnAway, AskLogout, DeleteKeys,
       LoggedOut, Mint, StoreKeys, Reply, S!LogoutGRPC, S!Protected, S!LogoutREST,
       S!Authenticate, S!Arrive, S!DeleteAccess, S!DeleteRefresh,
       S!SetAccess, S!SetRefresh, S!Login, S!Return, S!Continue, S!Finish, S!calls,
       sessionVars, TokensOK, TokensTyped
  <2> QED  BY <2>1, <2>2
<1>2. ~ (Die \/ Boot \/ Tick \/ Expire \/ Forget)
  BY DEF Die, Boot, Tick, Expire, Forget, S!Restart, S!Tick, S!Expire, S!Forget, S!calls,
     sessionVars
<1>3. CheckToken(b)
  BY <1>1, <1>2 DEF ServiceNext
<1>4. S!Parse(b)
  BY <1>3 DEF CheckToken, S!GetKey, S!Continue, S!Finish, TokensOK, TokensTyped
<1> QED  BY <1>4 DEF S!Parse, S!Continue, S!Finish, TokensOK, TokensTyped

\* Who is let in has a token with time left, so its employee is not gone for
\* its whole lifetime.
LEMMA LockedOutStep ==
    TokensOK /\ CountsOK /\ LockOK /\ [ServiceNext]_serviceVars => [LockedOut]_serviceVars
<1> SUFFICES ASSUME TokensOK, CountsOK, LockOK, ServiceNext,
                    NEW c \in Calls, NEW t \in S!Tokens,
                    at[c] = "parse", at'[c] = "done", verdict'[c] = "ok", header[c].jwt = t
             PROVE  gone[claims[t.session]] < S!TTL(t.kind)
  BY DEF LockedOut
<1>1. jwt[t] \notin {NULL, 0}
  BY AcceptedByParse
<1>2. t.session \in Sessions /\ S!TTL(t.kind) \in Nat
  BY TokenFacts
<1>3. jwt[t] \in Nat /\ claims[t.session] \in EmployeeIds
  BY <1>1, <1>2 DEF TokensOK, TokensTyped, Claimed
<1>4. gone[claims[t.session]] \in Nat
  BY <1>3 DEF CountsOK
<1>5. jwt[t] + gone[claims[t.session]] <= S!TTL(t.kind)
  BY <1>1 DEF LockOK
<1> QED  BY <1>1, <1>2, <1>3, <1>4, <1>5

\* A deleted employee is locked out a lifetime of a token after the deletion,
\* counted from the last AuthLogin that had read the row: without a look at
\* the table, and also when Redis fails or keeps a key for ever.
THEOREM DeletedLockedOut == ServiceSpec => DeletedIsLockedOut
<1>1. ServiceSpec => [][LockedOut]_serviceVars
  BY TokensAlways, LockAlways, LockedOutStep, PTL DEF ServiceSpec
<1> QED  BY <1>1, PTL DEF DeletedIsLockedOut, LockedOut

====
