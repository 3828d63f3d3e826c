---- MODULE WholeProofs ----
(***************************************************************************)
(* What is proved of the sessions, the handlers and the controllers on     *)
(* their own, for the whole service; and who is let in, which takes them   *)
(* all.                                                                    *)
(***************************************************************************)
EXTENDS ServiceProofs

\* The sessions of Service, with the theorems about them.
SP == INSTANCE TicketsProofs WITH
        Ops <- SessionOps, pc <- at, op <- does, reply <- verdict

\* Service assumes what Sessions assumes.
LEMMA SessionsAssumptions ==
    /\ AccessTTL \in Nat /\ RefreshTTL \in Nat
    /\ SessionOps \subseteq SP!AllOps
    /\ NULL \notin Nat \cup SP!Tokens \cup Sessions
    /\ NoExpiry \notin Nat \cup {NULL}
    /\ NULL \notin SP!Headers
  BY LifetimesAssumption, SessionsAssumption
  DEF S!AllOps, SP!AllOps, S!Tokens, SP!Tokens, S!Kinds, SP!Kinds, S!Headers, SP!Headers

\* Both instances are the same sessions.
LEMMA SameTexts ==
    /\ S!Kinds = SP!Kinds /\ S!Tokens = SP!Tokens /\ S!Headers = SP!Headers
    /\ \A x : /\ S!Bare(x) = SP!Bare(x) /\ S!TrimBearer(x) = SP!TrimBearer(x)
              /\ S!AccessKey(x) = SP!AccessKey(x) /\ S!RefreshKey(x) = SP!RefreshKey(x)
    /\ S!Star = SP!Star /\ S!Keys = SP!Keys
    /\ \A kind : S!TTL(kind) = SP!TTL(kind)
    /\ S!vars = SP!vars
<1>1. S!Kinds = SP!Kinds /\ S!Tokens = SP!Tokens /\ S!Headers = SP!Headers
  BY DEF S!Kinds, SP!Kinds, S!Tokens, SP!Tokens, S!Headers, SP!Headers
<1>2. \A x : /\ S!Bare(x) = SP!Bare(x) /\ S!TrimBearer(x) = SP!TrimBearer(x)
             /\ S!AccessKey(x) = SP!AccessKey(x) /\ S!RefreshKey(x) = SP!RefreshKey(x)
  BY DEF S!Bare, SP!Bare, S!TrimBearer, SP!TrimBearer, S!AccessKey, SP!AccessKey,
         S!RefreshKey, SP!RefreshKey
<1>3. S!Star = SP!Star /\ S!Keys = SP!Keys /\ S!vars = SP!vars
  BY <1>1, <1>2 DEF S!Star, SP!Star, S!Keys, SP!Keys, S!vars, SP!vars
<1>4. \A kind : S!TTL(kind) = SP!TTL(kind)
  BY DEF S!TTL, SP!TTL
<1> QED  BY <1>1, <1>2, <1>3, <1>4

LEMMA SameInit == S!Init <=> SP!Init
  BY SameTexts DEF S!Init, SP!Init

LEMMA SameNext == S!Next <=> SP!Next
<1> USE SameTexts DEF S!Finish, SP!Finish, S!Continue, SP!Continue, S!calls, SP!calls
<1>1. ASSUME NEW c \in Calls
      PROVE  /\ S!LoginDenied(c) <=> SP!LoginDenied(c)
             /\ S!Login(c) <=> SP!Login(c)
             /\ S!Return(c) <=> SP!Return(c)
  BY DEF S!LoginDenied, SP!LoginDenied, S!Login, SP!Login, S!Return, SP!Return
<1>2. ASSUME NEW c \in Calls, NEW o, NEW h
      PROVE  /\ S!Arrive(c, o, h) <=> SP!Arrive(c, o, h)
             /\ S!Asked(h) = SP!Asked(h)
             /\ S!Authenticate(c, o, h) <=> SP!Authenticate(c, o, h)
  BY DEF S!Arrive, SP!Arrive, S!Asked, SP!Asked, S!Authenticate, SP!Authenticate
<1>3. ASSUME NEW c \in Calls
      PROVE  /\ S!Protected(c) <=> SP!Protected(c)
             /\ S!LogoutREST(c) <=> SP!LogoutREST(c)
             /\ S!LogoutGRPC(c) <=> SP!LogoutGRPC(c)
  BY <1>2 DEF S!Protected, SP!Protected, S!LogoutREST, SP!LogoutREST, S!LogoutGRPC, SP!LogoutGRPC
<1>4. ASSUME NEW c \in Calls
      PROVE  /\ S!SetAccess(c) <=> SP!SetAccess(c)
             /\ S!SetRefresh(c) <=> SP!SetRefresh(c)
  BY DEF S!SetAccess, SP!SetAccess, S!SetRefresh, SP!SetRefresh, S!SetKey, SP!SetKey,
         S!Own, SP!Own
<1>5. ASSUME NEW c \in Calls
      PROVE  (S!GetKey(c) <=> SP!GetKey(c)) /\ (S!Parse(c) <=> SP!Parse(c))
  BY DEF S!GetKey, SP!GetKey, S!Parse, SP!Parse
<1>6. ASSUME NEW c \in Calls
      PROVE  (S!DeleteAccess(c) <=> SP!DeleteAccess(c)) /\ (S!DeleteRefresh(c) <=> SP!DeleteRefresh(c))
  BY DEF S!DeleteAccess, SP!DeleteAccess, S!DeleteRefresh, SP!DeleteRefresh, S!Del, SP!Del,
         S!LogoutKey, SP!LogoutKey
<1>7. (S!Restart <=> SP!Restart) /\ (S!Tick <=> SP!Tick) /\ (S!Expire <=> SP!Expire)
  BY DEF S!Restart, SP!Restart, S!Tick, SP!Tick, S!OneLess, SP!OneLess, S!Expire, SP!Expire
<1>8. ASSUME NEW s \in Sessions  PROVE S!Forget(s) <=> SP!Forget(s)
  BY DEF S!Forget, SP!Forget
<1> QED
  BY <1>1, <1>3, <1>4, <1>5, <1>6, <1>7, <1>8
  DEF S!Next, SP!Next, S!Step, SP!Step, S!Invoke, SP!Invoke, S!Proceed, SP!Proceed

\* Service runs the sessions the theorems are about.
LEMMA SessionsRun == ServiceSpec => SP!Spec
<1>1. S!Spec => SP!Spec
  <2>1. [S!Next]_(S!vars) => [SP!Next]_(SP!vars)
    BY SameNext DEF S!vars, SP!vars
  <2> QED  BY <2>1, SameInit, PTL DEF S!Spec, SP!Spec
<1> QED  BY <1>1, ServiceKeepsSessions, PTL

----
(***************************************************************************)
(* The promises of the parts, kept by the whole.                           *)
(***************************************************************************)
\* KeysGoInTime of one step.
GoInTime ==
    \A k \in S!Keys : redis[k] \notin {NULL, 0} /\ redis'[k] = NULL =>
        \E c \in Calls : at[c] = "del_access" /\ k = S!AccessKey(S!Bare(header[c].jwt))

\* With the servers, the handlers and the process dying around them, logouts
\* stay effective, only access tokens pass, nobody else's doing ends a
\* session, keys without an end open nothing, and a key goes in its time, the
\* refresh key in no other way.
THEOREM SessionsKeepTheirPromises ==
    ServiceSpec => /\ [](S!LoggedOutIsRejected /\ S!OnlyAccessTokensPass)
                   /\ [](S!SessionUsable /\ S!ForeverKeysAreDead)
                   /\ S!KeysGoInTime
<1>1. SP!LoggedOutIsRejected => S!LoggedOutIsRejected
  BY DEF SP!LoggedOutIsRejected, S!LoggedOutIsRejected
<1>2. SP!OnlyAccessTokensPass => S!OnlyAccessTokensPass
  BY DEF SP!OnlyAccessTokensPass, S!OnlyAccessTokensPass
<1>3. SP!SessionUsable => S!SessionUsable
  BY SameTexts DEF SP!SessionUsable, S!SessionUsable
<1>4. SP!ForeverKeysAreDead => S!ForeverKeysAreDead
  BY SameTexts DEF SP!ForeverKeysAreDead, S!ForeverKeysAreDead
<1>5. SP!KeysGoInTime => S!KeysGoInTime
  <2>1. [SP!GoInTime]_(SP!vars) => [GoInTime]_(S!vars)
    BY SameTexts DEF S!vars, SP!vars, SP!GoInTime, GoInTime
  <2> QED  BY <2>1, PTL DEF SP!KeysGoInTime, SP!GoInTime, S!KeysGoInTime, GoInTime
<1>6. SP!Spec => /\ []SP!LoggedOutIsRejected /\ []SP!OnlyAccessTokensPass
                 /\ []SP!SessionUsable /\ []SP!ForeverKeysAreDead
  BY SP!LogoutIsEffective, SP!OnlyAccessPasses, SP!SessionsStayUsable, SP!ForeverIsHarmless,
     SessionsAssumptions, PTL
<1>7. SP!Spec => SP!KeysGoInTime
  BY SP!KeysAlwaysGoInTime, SessionsAssumptions
<1> QED  BY <1>1, <1>2, <1>3, <1>4, <1>5, <1>6, <1>7, SessionsRun, PTL

\* Behind the servers and the logins, keys stay unique and references whole,
\* every password is one its employee was given, replies and answers are
\* honest, deleted rows stay away, and no request goes round in circles.
THEOREM ServersKeepTheirPromises ==
    ServiceSpec => /\ [](UniqueKeys /\ NoDanglingReferences)
                   /\ [](PasswordsWereGiven /\ ReplyTruthful /\ ReadBackHarmless)
                   /\ NoResurrection
                   /\ AnswersTruthful /\ RequestsGetOn
<1>1. ServiceSpec => ApiSpec
  BY ServiceKeepsServers
<1>2. ServiceSpec => Spec
  BY <1>1, HandlersRunControllers
<1>3. ServiceSpec => NoResurrection
  BY <1>2, DeletedForGood
<1>4. ServiceSpec => AnswersTruthful /\ RequestsGetOn
  BY <1>1, AnswersAreTruthful, RequestsAlwaysGetOn
<1> QED
  BY <1>1, <1>2, <1>3, <1>4, IntegrityHolds, PasswordsStayHome, RepliesAreTruthful,
     ReadBackIsHarmless, PTL

----
(***************************************************************************)
(* Who is let in.                                                          *)
(***************************************************************************)
\* The part a request plays among the sessions is that of the stage it is in:
\* none before and after its handler, CheckUserToken's while it is
\* authenticated, the deletions of a logout or the storing of a login after.
AbreastOf(c) ==
    /\ stage[c] \in {"idle", "routed", "answered"} => at[c] = "idle"
    /\ stage[c] = "auth" =>
         /\ at[c] \in {"idle", "get", "parse", "del_access", "done"}
         /\ at[c] # "idle" => does[c] \in {"Protected", "LogoutGRPC"}
         /\ at[c] # "idle" /\ does[c] = "LogoutGRPC" => asked[c] = "AuthLogout"
         /\ at[c] = "del_access" => does[c] = "LogoutGRPC"
         /\ at[c] = "done" /\ verdict[c] = "ok" => does[c] = "Protected"
    /\ stage[c] = "handler" =>
         /\ at[c] \in {"idle", "del_access", "del_refresh", "done"}
         /\ at[c] # "idle" => asked[c] = "AuthLogout"
    /\ stage[c] = "controller" =>
         /\ at[c] \in {"idle", "set_access", "set_refresh", "done"}
         /\ at[c] # "idle" => asked[c] = "AuthLogin"

Abreast == \A c \in Calls : AbreastOf(c)

\* What concerns one request of the handlers and the sessions.
Standing(c) == <<stage[c], asked[c], at[c], does[c], verdict[c]>>

\* A request does not change what the others stand at.
LEMMA OthersStand ==
    ASSUME ApiTypeOK, SP!TypeOK, NEW c \in Calls, Go(c), NEW b \in Calls, b # c
    PROVE  Standing(b)' = Standing(b)
<1>1. stage'[b] = stage[b] /\ asked'[b] = asked[b]
  <2>1. Serve(c) \/ UNCHANGED apiVars
    BY DEF Go, Plain, Present, CheckToken, Admit, TurnAway, AskLogout, DeleteKeys,
       LoggedOut, Mint, StoreKeys, Reply, Serve, Advance, Respond
  <2> QED  BY <2>1, ServeLeavesOthers DEF apiVars, handlers
<1>2. at'[b] = at[b] /\ does'[b] = does[b] /\ verdict'[b] = verdict[b]
  <2>1. CASE Present(c) \/ AskLogout(c) \/ CheckToken(c) \/ DeleteKeys(c)
    BY <2>1 DEF Present, AskLogout, CheckToken, DeleteKeys, S!LogoutGRPC, S!Protected,
       S!LogoutREST, S!Authenticate, S!Arrive, S!GetKey, S!Parse, S!DeleteAccess,
       S!DeleteRefresh, S!Continue, S!Finish, S!calls, SP!TypeOK
  <2>2. CASE Mint(c) \/ StoreKeys(c)
    BY <2>2 DEF Mint, StoreKeys, S!Login, S!SetAccess, S!SetRefresh, S!Continue, S!Finish,
       S!calls, SP!TypeOK
  <2>3. CASE Admit(c) \/ TurnAway(c) \/ LoggedOut(c) \/ Reply(c) \/ Plain(c)
    BY <2>3 DEF Admit, TurnAway, LoggedOut, Reply, Plain, S!Return, sessionVars, SP!TypeOK
  <2> QED  BY <2>1, <2>2, <2>3 DEF Go
<1> QED  BY <1>1, <1>2 DEF Standing

\* A step of the request itself keeps its parts abreast.
LEMMA OwnAbreast ==
    ASSUME ApiTypeOK, SP!TypeOK, Abreast, NEW c \in Calls, Go(c)
    PROVE  AbreastOf(c)'
<1> USE DEF Abreast, AbreastOf
<1>0. /\ stage \in [Calls -> {"idle", "routed", "auth", "handler", "controller", "answered"}]
      /\ asked \in [Calls -> AllRequests \cup {NULL}]
  BY DEF ApiTypeOK
<1>1. CASE Plain(c)
  <2>1. at' = at /\ does' = does /\ verdict' = verdict
    BY <1>1 DEF Plain, sessionVars
  <2>2. CASE Receive(c) \/ BadRequest(c) \/ Unavailable(c) \/ Route(c) \/ Close(c)
    BY <1>0, <2>1, <2>2 DEF Receive, BadRequest, Unavailable, Route, Close, Reject, Move
  <2>3. CASE BadBody(c) \/ Handle(c)
    <3>1. asked[c] # "AuthLogout"
      BY <2>3 DEF BadBody, BodyOps, EmployeeFormOps, DepartmentFormOps, Handle, Invoke,
         GetEmployees, GetEmployeeByID, CreateEmployee, RequestVacation, UpdateEmployee,
         DeleteEmployee, GetDepartments, GetDepartmentByID, CreateDepartment,
         UpdateDepartment, DeleteDepartment, AuthLogin, Start, TurnDown, ApiTypeOK, TypeOK
    <3> QED  BY <1>0, <2>1, <2>3, <3>1 DEF BadBody, Handle, Reject, Move
  <2>4. CASE Work(c) \/ GiveUp(c)
    BY <1>0, <2>1, <2>4 DEF Work, GiveUp, handlers
  <2> QED  BY <1>1, <2>2, <2>3, <2>4 DEF Plain
<1>2. CASE Present(c)
  <2>1. /\ stage[c] = "auth" /\ stage' = stage /\ asked' = asked
        /\ \/ does'[c] = "LogoutGRPC" /\ asked[c] = "AuthLogout"
           \/ does'[c] = "Protected"
        /\ at'[c] = "get" \/ (at'[c] = "done" /\ verdict'[c] = "unauthorized")
    BY <1>2 DEF Present, S!LogoutGRPC, S!Protected, S!Authenticate, S!Arrive, S!Continue,
       S!Finish, SP!TypeOK, apiVars, handlers
  <2> QED  BY <2>1
<1>3. CASE CheckToken(c)
  <2>1. stage' = stage /\ asked' = asked /\ does' = does /\ at[c] \in {"get", "parse"}
    BY <1>3 DEF CheckToken, S!GetKey, S!Parse, S!calls, apiVars, handlers
  <2>2. stage[c] = "auth"
    BY <1>0, <2>1
  <2>3. \/ at'[c] = "parse"
        \/ at'[c] = "done" /\ verdict'[c] = "unauthorized"
        \/ at'[c] = "done" /\ does[c] # "LogoutGRPC"
        \/ at'[c] = "del_access" /\ does[c] = "LogoutGRPC"
    BY <1>3 DEF CheckToken, S!GetKey, S!Parse, S!Continue, S!Finish, SP!TypeOK
  <2> QED  BY <2>1, <2>2, <2>3
<1>4. CASE Admit(c) \/ TurnAway(c)
  <2>1. /\ stage[c] = "auth" /\ asked' = asked
        /\ \/ stage'[c] = "handler" /\ at'[c] \in {"idle", "del_access"}
           \/ stage'[c] = "answered" /\ at'[c] = "idle"
        /\ at'[c] = "del_access" => at[c] = "del_access"
    BY <1>0, <1>4 DEF Admit, TurnAway, Authorized, Unauthorized, Reject, Move, S!Return,
       sessionVars, SP!TypeOK
  <2> QED  BY <2>1
<1>5. CASE AskLogout(c) \/ DeleteKeys(c)
  <2>1. /\ stage[c] = "handler" /\ stage' = stage /\ asked' = asked
        /\ at'[c] \in {"del_access", "del_refresh", "done"}
        /\ asked[c] = "AuthLogout"
    BY <1>5 DEF AskLogout, DeleteKeys, S!LogoutREST, S!Arrive, S!DeleteAccess,
       S!DeleteRefresh, S!Continue, S!Finish, SP!TypeOK, apiVars, handlers
  <2> QED  BY <2>1
<1>6. CASE Mint(c) \/ StoreKeys(c)
  <2>1. stage' = stage /\ asked' = asked /\ at'[c] \in {"set_access", "set_refresh", "done"}
    BY <1>6 DEF Mint, StoreKeys, S!Login, S!SetAccess, S!SetRefresh, S!Continue, S!Finish,
       SP!TypeOK, apiVars, handlers
  <2>2. stage[c] = "controller" /\ asked[c] = "AuthLogin"
    BY <1>0, <1>6 DEF Mint, StoreKeys, S!SetAccess, S!SetRefresh
  <2> QED  BY <2>1, <2>2
<1>7. CASE LoggedOut(c) \/ Reply(c)
  <2>1. stage'[c] = "answered" /\ asked' = asked
    BY <1>0, <1>7 DEF LoggedOut, Logout, Reply, RespondWith, Reject, Move
  <2>2. at'[c] = "idle"
    <3>1. CASE LoggedOut(c)
      BY <3>1 DEF LoggedOut, S!Return, SP!TypeOK
    <3>2. CASE Reply(c)
      <4>1. stage[c] = "controller"
        BY <3>2 DEF Reply, RespondWith, Move
      <4> QED  BY <3>2, <4>1 DEF Reply, S!Return, sessionVars, SP!TypeOK
    <3> QED  BY <1>7, <3>1, <3>2
  <2> QED  BY <2>1, <2>2
<1> QED  BY <1>1, <1>2, <1>3, <1>4, <1>5, <1>6, <1>7 DEF Go

\* Each step keeps Abreast.
LEMMA AbreastStep == ApiTypeOK /\ SP!TypeOK /\ Abreast /\ [ServiceNext]_serviceVars => Abreast'
<1> SUFFICES ASSUME ApiTypeOK, SP!TypeOK, Abreast, [ServiceNext]_serviceVars  PROVE Abreast'
  OBVIOUS
<1>1. ASSUME NEW b \in Calls, Standing(b)' = Standing(b)  PROVE AbreastOf(b)'
  BY <1>1 DEF Standing, Abreast, AbreastOf
<1>2. ASSUME NEW c \in Calls, Go(c)  PROVE Abreast'
  <2>1. \A b \in Calls : b # c => AbreastOf(b)'
    BY <1>1, <1>2, OthersStand
  <2> QED  BY <1>2, <2>1, OwnAbreast DEF Abreast
<1>3. CASE Die
  BY <1>3 DEF Die, Crash, S!Restart, Abreast, AbreastOf
<1>4. CASE Boot \/ Tick \/ Expire \/ Forget \/ UNCHANGED serviceVars
  <2>1. UNCHANGED <<stage, asked, at, does, verdict>>
    BY <1>4 DEF Boot, Tick, Expire, Forget, ServeGRPC, ServeHTTP, S!Tick, S!Expire, S!Forget,
       S!calls, serviceVars, apiVars, handlers, sessionVars
  <2> QED  BY <1>1, <2>1 DEF Standing, Abreast
<1> QED  BY <1>2, <1>3, <1>4 DEF ServiceNext

\* The sessions behind the service are well formed, and what passes their
\* check has what it takes.
LEMMA SessionFacts == ServiceSpec => [](SP!TypeOK /\ SP!LoginsOK /\ SP!PassesOK)
<1>1. SP!Typed => SP!TypeOK /\ SP!LoginsOK
  BY DEF SP!Typed
<1>2. SP!Spec => []SP!Typed /\ []SP!PassesOK
  BY SP!TypedAlways, SP!PassesAlways, SessionsAssumptions
<1> QED  BY <1>1, <1>2, SessionsRun, PTL

LEMMA AbreastAlways == ServiceSpec => []Abreast
<1>1. ServiceInit => Abreast
  BY DEF ServiceInit, ApiInit, S!Init, Abreast, AbreastOf
<1>2. World => ApiTypeOK
  BY DEF World
<1> QED  BY <1>1, <1>2, WorldAlways, SessionFacts, AbreastStep, PTL DEF ServiceSpec

\* Tokens name employees who were in the table.
ClaimsUsed == \A s \in Sessions : claims[s] \in usedEmployees \cup {NULL}

LEMMA ClaimsStep ==
    World /\ FoundsOK /\ TokensOK /\ ClaimsUsed /\ [ServiceNext]_serviceVars => ClaimsUsed'
<1> SUFFICES ASSUME World, FoundsOK, TokensOK, ClaimsUsed, [ServiceNext]_serviceVars
             PROVE  ClaimsUsed'
  OBVIOUS
<1>1. usedEmployees \subseteq usedEmployees'
  BY ServersStep, HandlerStep, TablesGrow DEF World, ApiTypeOK
<1>2. CASE claims' = claims
  BY <1>1, <1>2 DEF ClaimsUsed
<1>3. ASSUME NEW c \in Calls, Mint(c)  PROVE ClaimsUsed'
  BY <1>1, <1>3, MintMints DEF ClaimsUsed, TokensOK, TokensTyped
<1>4. CASE Forget
  BY <1>1, <1>4 DEF Forget, ClaimsUsed, TokensOK, TokensTyped
<1>5. ASSUME NEW c \in Calls, Go(c), ~ Mint(c)  PROVE claims' = claims
  BY <1>5, OnlyLoginsMint DEF TokensOK
<1>6. CASE Die \/ Boot \/ Tick \/ Expire \/ UNCHANGED serviceVars
  BY <1>2, <1>6 DEF Die, Boot, Tick, Expire, serviceVars
<1> QED  BY <1>2, <1>3, <1>4, <1>5, <1>6 DEF ServiceNext

LEMMA ClaimsAlways == ServiceSpec => []ClaimsUsed
<1>1. ServiceInit => ClaimsUsed
  BY DEF ServiceInit, ClaimsUsed
<1> QED
  BY <1>1, WorldAlways, FoundsAlways, TokensAlways, ClaimsStep, PTL DEF ServiceSpec

\* AdmittedRightly of one step.
Admitted ==
    \A c \in Calls : stage[c] = "auth" /\ stage'[c] = "handler" =>
        LET t == header[c].jwt
        IN  /\ header[c].bearer /\ t \in S!Tokens /\ t.session \in handed
            /\ claims[t.session] \in usedEmployees
            /\ ~ blind[c] => t.kind = "access" /\ ~ late[c]

\* The way from authentication to the handler is by Admit alone.
LEMMA InByAdmit ==
    ASSUME ApiTypeOK, SP!TypeOK, ServiceNext,
           NEW b \in Calls, stage[b] = "auth", stage'[b] = "handler"
    PROVE  Admit(b)
<1>1. ~ Die
  BY DEF Die, Crash
<1>2. ~ (Boot \/ Tick \/ Expire \/ Forget)
  BY DEF Boot, Tick, Expire, Forget, ServeGRPC, ServeHTTP, apiVars, handlers
<1>3. PICK c \in Calls : Go(c)
  BY <1>1, <1>2 DEF ServiceNext
<1>4. b = c
  BY <1>3, OthersStand DEF Standing
<1>5. Go(b) => Admit(b)
  <2>1. ~ Plain(b)
    BY DEF Plain, Receive, BadRequest, Unavailable, Route, BadBody, Handle, Work, GiveUp,
       Close, Reject, Move, handlers, ApiTypeOK
  <2>2. ~ (Present(b) \/ CheckToken(b) \/ AskLogout(b) \/ DeleteKeys(b) \/ Mint(b) \/ StoreKeys(b))
    BY DEF Present, CheckToken, AskLogout, DeleteKeys, Mint, StoreKeys, apiVars, handlers
  <2>3. ~ (TurnAway(b) \/ LoggedOut(b) \/ Reply(b))
    BY DEF TurnAway, LoggedOut, Reply, Unauthorized, Logout, RespondWith, Reject, Move, ApiTypeOK
  <2> QED  BY <2>1, <2>2, <2>3 DEF Go
<1> QED  BY <1>3, <1>4, <1>5

\* Whoever is admitted has passed, with a token that names somebody.
LEMMA AdmittedStep ==
    /\ ApiTypeOK /\ SP!TypeOK /\ SP!LoginsOK /\ SP!PassesOK
    /\ Abreast /\ TokensOK /\ ClaimsUsed /\ [ServiceNext]_serviceVars
    => [Admitted]_serviceVars
<1> SUFFICES ASSUME ApiTypeOK, SP!TypeOK, SP!LoginsOK, SP!PassesOK, Abreast, TokensOK,
                    ClaimsUsed, ServiceNext,
                    NEW c \in Calls, stage[c] = "auth", stage'[c] = "handler"
             PROVE  LET t == header[c].jwt
                    IN  /\ header[c].bearer /\ t \in S!Tokens /\ t.session \in handed
                        /\ claims[t.session] \in usedEmployees
                        /\ ~ blind[c] => t.kind = "access" /\ ~ late[c]
  BY DEF Admitted
<1> DEFINE t == header[c].jwt
<1>1. (at[c] = "done" /\ verdict[c] = "ok") \/ at[c] = "del_access"
  BY InByAdmit DEF Admit
<1>2. SP!Passed(c)
  BY <1>1 DEF Abreast, AbreastOf, SP!Passed, SP!LogoutStages
<1>3. /\ header[c].bearer /\ t \in SP!Tokens /\ t.session \in handed
      /\ ~ blind[c] => t.kind = "access" /\ ~ late[c]
  BY <1>2 DEF SP!PassesOK, SP!PassOK
<1>4. t.session \in Sessions /\ jwt[SP!Access(t.session)] # NULL
  BY <1>3 DEF SP!LoginsOK, SP!TypeOK
<1>5. SP!Access(t.session) \in S!Tokens /\ SP!Access(t.session).session = t.session
  BY <1>4, TokenFacts DEF SP!Access
<1>6. claims[t.session] # NULL
  BY <1>4, <1>5 DEF TokensOK, Claimed
<1> QED  BY <1>3, <1>4, <1>6, SameTexts DEF ClaimsUsed

\* However requests, logouts, restarts and failures of Redis interleave, no
\* handler that checks is entered without a token a login handed out for an
\* employee of the table, and while Redis answers, none with a refresh token
\* or one whose logout had been through before.
THEOREM OnlyTheRightAreAdmitted == ServiceSpec => AdmittedRightly
<1>1. World => ApiTypeOK
  BY DEF World
<1>2. ServiceSpec => [][Admitted]_serviceVars
  BY <1>1, WorldAlways, SessionFacts, AbreastAlways, TokensAlways, ClaimsAlways, AdmittedStep,
     PTL DEF ServiceSpec
<1> QED  BY <1>2, PTL DEF AdmittedRightly, Admitted

----
(***************************************************************************)
(* To its clients the whole service is Tickets.                            *)
(***************************************************************************)
\* Both instances map the sessions the same way.
LEMMA SameMapping ==
    /\ S!Phase = SP!Phase /\ S!State = SP!State /\ S!Remaining = SP!Remaining
    /\ S!Phase' = SP!Phase' /\ S!State' = SP!State' /\ S!Remaining' = SP!Remaining'
    /\ S!T!Tickets = SP!T!Tickets /\ S!T!Headers = SP!T!Headers
    /\ S!T!Entries = SP!T!Entries /\ S!T!Logouts = SP!T!Logouts
    /\ \A kind : S!T!TTL(kind) = SP!T!TTL(kind)
<1>1. /\ S!Phase = SP!Phase /\ S!State = SP!State /\ S!Remaining = SP!Remaining
      /\ S!Phase' = SP!Phase' /\ S!State' = SP!State' /\ S!Remaining' = SP!Remaining'
  BY SameTexts DEF S!Phase, SP!Phase, S!State, SP!State, S!Remaining, SP!Remaining
<1>2. /\ S!T!Tickets = SP!T!Tickets /\ S!T!Headers = SP!T!Headers
      /\ S!T!Entries = SP!T!Entries /\ S!T!Logouts = SP!T!Logouts
      /\ \A kind : S!T!TTL(kind) = SP!T!TTL(kind)
  BY DEF S!T!Kinds, SP!T!Kinds, S!T!Tickets, SP!T!Tickets, S!T!Headers, SP!T!Headers,
         S!T!Entries, SP!T!Entries, S!T!Logouts, SP!T!Logouts, S!T!TTL, SP!T!TTL
<1> QED  BY <1>1, <1>2

LEMMA SameTicketSteps == SP!T!Next => S!T!Next
<1> USE SameMapping DEF S!T!Answer, SP!T!Answer, S!T!Checked, SP!T!Checked
<1>1. ASSUME NEW c \in Calls
      PROVE  (SP!T!AskIn(c) => S!T!AskIn(c)) /\ (SP!T!HandOut(c) => S!T!HandOut(c))
  BY DEF S!T!AskIn, SP!T!AskIn, S!T!HandOut, SP!T!HandOut
<1>2. ASSUME NEW c \in Calls
      PROVE  (SP!T!Come(c) => S!T!Come(c)) /\ (SP!T!Blind(c) => S!T!Blind(c))
  BY DEF S!T!Come, SP!T!Come, S!T!Blind, SP!T!Blind
<1>3. ASSUME NEW c \in Calls
      PROVE  (SP!T!Admit(c) => S!T!Admit(c)) /\ (SP!T!Refuse(c) => S!T!Refuse(c))
  BY DEF S!T!Admit, SP!T!Admit, S!T!Refuse, SP!T!Refuse, S!T!InOrder, SP!T!InOrder
<1>4. ASSUME NEW c \in Calls
      PROVE  /\ SP!T!TakeOut(c) => S!T!TakeOut(c)
             /\ SP!T!Fail(c) => S!T!Fail(c)
             /\ SP!T!Return(c) => S!T!Return(c)
  BY DEF S!T!TakeOut, SP!T!TakeOut, S!T!Fail, SP!T!Fail, S!T!Return, SP!T!Return
<1>5. (SP!T!Restart => S!T!Restart) /\ (SP!T!Tick => S!T!Tick)
  BY DEF S!T!Restart, SP!T!Restart, S!T!Tick, SP!T!Tick
<1>6. ASSUME NEW s \in Sessions  PROVE SP!T!Forget(s) => S!T!Forget(s)
  BY DEF S!T!Forget, SP!T!Forget
<1> QED  BY <1>1, <1>2, <1>3, <1>4, <1>5, <1>6 DEF S!T!Next, SP!T!Next

\* Whatever happens to the servers, the handlers and the database around
\* them, each request is admitted or refused as if its ticket had been looked
\* at in one step, and a login or logout takes effect with its answer.
THEOREM ServiceImplementsTickets == ServiceSpec => S!TicketsSpec
<1>1. SP!Spec => SP!TicketsSpec
  BY SP!SessionsImplementTickets, SessionsAssumptions
<1>2. SP!T!Init => S!T!Init
  BY SameMapping DEF S!T!Init, SP!T!Init
<1>3. [SP!T!Next]_(SP!T!vars) => [S!T!Next]_(S!T!vars)
  BY SameMapping, SameTicketSteps DEF S!T!vars, SP!T!vars
<1>4. SP!TicketsSpec => S!TicketsSpec
  BY <1>2, <1>3, PTL DEF SP!TicketsSpec, S!TicketsSpec, SP!T!Spec, S!T!Spec
<1> QED  BY <1>1, <1>4, SessionsRun

====
