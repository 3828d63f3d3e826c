---- MODULE Service ----
(***************************************************************************)
(* The whole service: the servers, handlers and controllers of Api.tla     *)
(* together with the sessions of Sessions.tla, over PostgreSQL and Redis.  *)
(*                                                                         *)
(* Where Api lets a token pass or not, here the request presents a header  *)
(* and CheckUserToken decides; where Sessions lets a password match or     *)
(* not, here AuthLogin reads the employees table.  What that read found is *)
(* all the tokens say of their employee from then on.                      *)
(***************************************************************************)
EXTENDS Api

CONSTANTS
    Sessions,    \* logins that get as far as minting tokens
    AccessTTL,   \* redis.access_token_ttl
    RefreshTTL,  \* redis.refresh_token_ttl
    SessionOps,  \* operations of Sessions
    Presents,    \* Authorization headers the clients of a run send
    NoExpiry     \* remaining time of a key without one

ASSUME LifetimesAssumption ==
    /\ AccessTTL \in Nat /\ RefreshTTL \in Nat
    /\ NULL \notin Nat /\ NoExpiry \notin Nat \cup {NULL}

VARIABLES
    redis, jwt,        \* keys and tokens
    at, does,          \* where each request is in Sessions, and with what
    session, header,   \* the session it creates, the header it sent
    verdict,           \* what came out
    handed, out, late, blind,  \* histories of Sessions
    found,             \* the employee whose row each AuthLogin has read
    claims,            \* the employee the tokens of a session name
    gone               \* history: seconds an employee has been deleted, with
                       \* no login at work that had still read the row

S == INSTANCE Sessions WITH
        Ops <- SessionOps, pc <- at, op <- does, reply <- verdict

ASSUME SessionsAssumption ==
    /\ SessionOps \subseteq S!AllOps
    /\ NULL \notin Sessions \cup S!Tokens \cup S!Headers

sessionVars == <<redis, jwt, at, does, session, header, verdict, handed, out, late, blind>>
serviceVars == <<apiVars, sessionVars, found, claims, gone>>

Longest == IF AccessTTL > RefreshTTL THEN AccessTTL ELSE RefreshTTL

(***************************************************************************)
(* Steps of the request that are none of its session.                      *)
(***************************************************************************)
\* The row AuthLogin reads; emails are unique.
RowFound(c) ==
    IF asked[c] = "AuthLogin" /\ pc[c] = "read" /\ pc'[c] = "done" /\ reply'[c] = "ok"
    THEN CHOOSE e \in Ids(employees) : employees[e].email = req[c].email
    ELSE found[c]

Plain(c) ==
    /\ \/ Receive(c) \/ BadRequest(c) \/ Unavailable(c) \/ Route(c)
       \/ BadBody(c) \/ Handle(c) \/ Work(c) \/ GiveUp(c) \/ Close(c)
    /\ found' = [found EXCEPT ![c] = RowFound(c)]
    /\ UNCHANGED <<sessionVars, claims, gone>>

(***************************************************************************)
(* checkAuthUser.                                                          *)
(***************************************************************************)
Present(c) ==
    /\ stage[c] = "auth" /\ at[c] = "idle"
    /\ IF asked[c] = "AuthLogout" THEN S!LogoutGRPC(c) ELSE S!Protected(c)
    /\ header'[c] \in Presents
    /\ UNCHANGED <<apiVars, found, claims, gone>>

CheckToken(c) ==
    /\ S!GetKey(c) \/ S!Parse(c)
    /\ UNCHANGED <<apiVars, found, claims, gone>>

Admit(c) ==
    /\ Authorized(c)
    /\ \/ at[c] = "done" /\ verdict[c] = "ok" /\ S!Return(c)
       \/ at[c] = "del_access" /\ UNCHANGED sessionVars
    /\ UNCHANGED <<found, claims, gone>>

TurnAway(c) ==
    /\ at[c] = "done" /\ verdict[c] # "ok"
    /\ Unauthorized(c) /\ S!Return(c)
    /\ UNCHANGED <<found, claims, gone>>

(***************************************************************************)
(* AuthLogout.                                                             *)
(***************************************************************************)
AskLogout(c) ==
    /\ stage[c] = "handler" /\ asked[c] = "AuthLogout" /\ door[c] = "rest" /\ at[c] = "idle"
    /\ S!LogoutREST(c) /\ header'[c] \in Presents
    /\ UNCHANGED <<apiVars, found, claims, gone>>

DeleteKeys(c) ==
    /\ stage[c] = "handler"
    /\ S!DeleteAccess(c) \/ S!DeleteRefresh(c)
    /\ UNCHANGED <<apiVars, found, claims, gone>>

LoggedOut(c) ==
    /\ Logout(c)
    /\ at[c] = "done" /\ S!Return(c)
    /\ answer'[c] = 200 <=> verdict[c] = "ok"
    /\ UNCHANGED <<found, claims, gone>>

(***************************************************************************)
(* AuthLogin, and the answers of all operations.                           *)
(***************************************************************************)
\* The password matched: two tokens for the row that was read.
Mint(c) ==
    /\ stage[c] = "controller" /\ asked[c] = "AuthLogin"
    /\ pc[c] = "done" /\ reply[c] = "ok" /\ at[c] = "idle"
    /\ S!Login(c)
    /\ claims' = [claims EXCEPT ![session'[c]] = found[c]]
    /\ UNCHANGED <<apiVars, found, gone>>

StoreKeys(c) ==
    /\ S!SetAccess(c) \/ S!SetRefresh(c)
    /\ UNCHANGED <<apiVars, found, claims, gone>>

\* An AuthLogin succeeds when both its keys are stored.
Reply(c) ==
    /\ \E status \in StatusesOf(c) :
         /\ RespondWith(c, status)
         /\ \/ asked[c] # "AuthLogin" /\ UNCHANGED sessionVars
            \/ asked[c] = "AuthLogin" /\ status # 200 /\ at[c] = "idle" /\ UNCHANGED sessionVars
            \/ /\ asked[c] = "AuthLogin" /\ at[c] = "done" /\ S!Return(c)
               /\ status = 200 <=> verdict[c] = "ok"
    /\ found' = [found EXCEPT ![c] = NULL]
    /\ UNCHANGED <<claims, gone>>

(***************************************************************************)
(* The rest of the world.                                                  *)
(***************************************************************************)
Die ==
    /\ Crash /\ S!Restart
    /\ found' = [c \in Calls |-> NULL]
    /\ UNCHANGED <<claims, gone>>

Boot ==
    /\ ServeGRPC \/ ServeHTTP
    /\ UNCHANGED <<sessionVars, found, claims, gone>>

\* A second passes; the count of those who are gone ends with the longest
\* lifetime of a token.
Tick ==
    /\ S!Tick
    /\ gone' = [e \in EmployeeIds |->
                 IF e \notin usedEmployees \ Ids(employees) \/ \E c \in Calls : found[c] = e THEN 0
                 ELSE IF gone[e] < Longest THEN gone[e] + 1 ELSE gone[e]]
    /\ UNCHANGED <<apiVars, found, claims>>

Expire ==
    /\ S!Expire
    /\ UNCHANGED <<apiVars, found, claims, gone>>

Forget ==
    /\ \E s \in Sessions : S!Forget(s) /\ claims' = [claims EXCEPT ![s] = NULL]
    /\ UNCHANGED <<apiVars, found, gone>>

----
ServiceInit ==
    /\ ApiInit /\ S!Init
    /\ found = [c \in Calls |-> NULL]
    /\ claims = [s \in Sessions |-> NULL]
    /\ gone = [e \in EmployeeIds |-> 0]

Go(c) ==
    \/ Plain(c)     \/ Present(c)    \/ CheckToken(c) \/ Admit(c) \/ TurnAway(c)
    \/ AskLogout(c) \/ DeleteKeys(c) \/ LoggedOut(c)
    \/ Mint(c)      \/ StoreKeys(c)  \/ Reply(c)

ServiceNext == (\E c \in Calls : Go(c)) \/ Die \/ Boot \/ Tick \/ Expire \/ Forget

ServiceSpec == ServiceInit /\ [][ServiceNext]_serviceVars

----
(***************************************************************************)
(* Properties.                                                             *)
(***************************************************************************)

\* Tokens are minted only for an employee who was given, some time, the very
\* password the request brought, although the row may have changed or gone
\* between the query and the minting; and they go on naming that employee.
MintedForOwner ==
    [][\A c \in Calls, s \in Sessions :
         /\ at[c] = "idle" /\ at'[c] = "set_access" /\ session'[c] = s
         => /\ claims[s] = NULL
            /\ claims'[s] \in usedEmployees
            /\ Hash(req[c].password) \in given[claims'[s]]]_serviceVars

\* No request comes by checkAuthUser but with a Bearer token that a client was
\* handed for an employee who was in the table; and unless Redis failed to
\* answer, it is an access token whose logout had not been through before.
AdmittedRightly ==
    [][\A c \in Calls : stage[c] = "auth" /\ stage'[c] = "handler" =>
         LET t == header[c].jwt
         IN  /\ header[c].bearer /\ t \in S!Tokens /\ t.session \in handed
             /\ claims[t.session] \in usedEmployees
             /\ ~ blind[c] => t.kind = "access" /\ ~ late[c]]_serviceVars

\* Nobody compares a token with the employees table again.  Still a deleted
\* employee is locked out in time: no token lets a request in when the
\* employee it names has been gone for its lifetime.
DeletedIsLockedOut ==
    [][\A c \in Calls, t \in S!Tokens :
         /\ at[c] = "parse" /\ at'[c] = "done" /\ verdict'[c] = "ok"
         /\ header[c].jwt = t
         => gone[claims[t.session]] < S!TTL(t.kind)]_serviceVars

====
