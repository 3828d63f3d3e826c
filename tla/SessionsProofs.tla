---- MODULE SessionsProofs ----
(***************************************************************************)
(* Theorems about Sessions, for any number of calls and sessions and any   *)
(* lifetimes, zero included.                                               *)
(***************************************************************************)
EXTENDS Sessions, TLAPS

LoginStages  == {"set_access", "set_refresh"}
CheckStages  == {"get", "parse"}
LogoutStages == {"del_access", "del_refresh"}
Logouts      == {"LogoutREST", "LogoutGRPC"}

Access(s) == [session |-> s, kind |-> "access"]

\* What Redis holds for the token where the endpoints look.
Left(t) == redis[AccessKey(Bare(t))]

\* A login under way stores the keys of a session that is its own: minted,
\* and in nobody's hands yet.
LoginOK(c) ==
    pc[c] \in LoginStages =>
        /\ op[c] = "AuthLogin"
        /\ session[c] \in Sessions \ handed
        /\ jwt[Access(session[c])] # NULL

LoginsOK ==
    /\ \A c \in Calls : LoginOK(c)
    /\ \A c, d \in Calls :
         pc[c] \in LoginStages /\ pc[d] \in LoginStages /\ session[c] = session[d] => c = d
    /\ \A s \in handed : jwt[Access(s)] # NULL

\* A request under way carries a header whose token, if it has one, was
\* handed out; a logout has been noted, and so has one that came before.
RequestOK(c) ==
    /\ pc[c] \in CheckStages => op[c] \in {"Protected", "LogoutGRPC"}
    /\ pc[c] \in LogoutStages => op[c] \in Logouts
    /\ pc[c] \in CheckStages \cup LogoutStages =>
         /\ header[c] \in Headers
         /\ header[c].jwt # NULL => /\ header[c].jwt.session \in handed
                                    /\ op[c] \in Logouts => out[header[c].jwt] # "no"
         /\ late[c] => header[c].jwt # NULL /\ out[header[c].jwt] = "done"

RequestsOK == \A c \in Calls : RequestOK(c)

\* TypeOK with what makes it inductive.
Typed == TypeOK /\ LoginsOK /\ RequestsOK

(***************************************************************************)
(* Keys and times.                                                         *)
(***************************************************************************)

\* The keys of the tokens are keys of Redis and tell the tokens apart.
LEMMA KeyFacts ==
    /\ \A t \in Tokens : AccessKey(Bare(t)) \in Keys /\ RefreshKey(Bare(t)) \in Keys
    /\ \A t, u : AccessKey(Bare(t)) = AccessKey(Bare(u)) => t = u
    /\ \A x, y : AccessKey(x) # RefreshKey(y)
    /\ \A t \in Tokens : RefreshKey(Star) # RefreshKey(Bare(t))
    /\ \A h \in Headers : TrimBearer(h) = Bare(h.jwt)
    /\ \A s \in Sessions, k \in Kinds : [session |-> s, kind |-> k] \in Tokens
  BY NullAssumption DEF AccessKey, RefreshKey, Bare, Star, TrimBearer, Headers, Keys, Tokens, Kinds

\* Lifetimes are among the values a key may have left, and stay there as
\* seconds pass.
LEMMA LivesOK ==
    /\ \A k \in Kinds : TTL(k) \in Lives
    /\ \A n \in Lives : OneLess(n) \in Lives
    /\ OneLess(NULL) = NULL /\ OneLess(NoExpiry) = NoExpiry
    /\ Lives \subseteq Nat
  BY TTLAssumption, NullAssumption DEF TTL, Lives, OneLess, Kinds

----
(***************************************************************************)
(* Type correctness.                                                       *)
(***************************************************************************)

\* A SET leaves a well-formed Redis.
LEMMA SetKeyType ==
    ASSUME TypeOK, NEW key, NEW kind \in Kinds, SetKey(key, kind)
    PROVE  redis' \in [Keys -> Lives \cup {NULL, NoExpiry}]
  BY LivesOK DEF TypeOK, SetKey

\* Every step leaves values of their kinds.
LEMMA TypeStep == Typed /\ [Step]_vars => TypeOK'
<1> SUFFICES ASSUME Typed, [Step]_vars  PROVE TypeOK'
  OBVIOUS
<1> USE DEF Typed, TypeOK, Stages, AllOps, Finish, Continue, calls
<1>1. ASSUME NEW c \in Calls, LoginDenied(c)  PROVE TypeOK'
  BY <1>1 DEF LoginDenied
<1>2. ASSUME NEW c \in Calls, Login(c)  PROVE TypeOK'
  <2>0. \A t \in Tokens : TTL(t.kind) \in Lives
    BY LivesOK DEF Tokens
  <2>1. jwt' \in [Tokens -> Lives \cup {NULL}]
    BY <1>2, <2>0 DEF Login
  <2> QED  BY <1>2, <2>1 DEF Login
<1>3. ASSUME NEW c \in Calls, NEW h \in Headers, NEW o, Arrive(c, o, h)
      PROVE  /\ op' \in [Calls -> AllOps \cup {NULL}]
             /\ header' \in [Calls -> Headers \cup {NULL}]
             /\ late' \in [Calls -> BOOLEAN]
             /\ Asked(h) \in [Tokens -> {"no", "asked", "done"}]
  <2>1. h.jwt \in Tokens \cup {NULL}
    BY DEF Headers
  <2> QED  BY <1>3, <2>1, OpsAssumption DEF Arrive, Asked
<1>4. ASSUME NEW c \in Calls, Protected(c)  PROVE TypeOK'
  BY <1>3, <1>4 DEF Protected, Authenticate
<1>5. ASSUME NEW c \in Calls, LogoutREST(c)  PROVE TypeOK'
  BY <1>3, <1>5 DEF LogoutREST
<1>6. ASSUME NEW c \in Calls, LogoutGRPC(c)  PROVE TypeOK'
  BY <1>3, <1>6 DEF LogoutGRPC, Authenticate
<1>7. ASSUME NEW c \in Calls, SetAccess(c)  PROVE TypeOK'
  <2>1. redis' \in [Keys -> Lives \cup {NULL, NoExpiry}]
    BY <1>7, SetKeyType DEF SetAccess, Kinds
  <2> QED  BY <1>7, <2>1 DEF SetAccess
<1>8. ASSUME NEW c \in Calls, SetRefresh(c)  PROVE TypeOK'
  <2>1. redis' \in [Keys -> Lives \cup {NULL, NoExpiry}]
    BY <1>8, SetKeyType DEF SetRefresh, Kinds
  <2>2. session[c] \in Sessions
    BY <1>8 DEF SetRefresh, LoginsOK, LoginOK, LoginStages
  <2> QED  BY <1>8, <2>1, <2>2 DEF SetRefresh
<1>9. ASSUME NEW c \in Calls, GetKey(c)  PROVE TypeOK'
  BY <1>9 DEF GetKey
<1>10. ASSUME NEW c \in Calls, Parse(c)  PROVE TypeOK'
  BY <1>10 DEF Parse
<1>11. ASSUME NEW c \in Calls, DeleteAccess(c)  PROVE TypeOK'
  BY <1>11 DEF DeleteAccess, Del
<1>12. ASSUME NEW c \in Calls, DeleteRefresh(c)  PROVE TypeOK'
  BY <1>12 DEF DeleteRefresh, Del
<1>13. ASSUME NEW c \in Calls, Return(c)  PROVE TypeOK'
  BY <1>13 DEF Return
<1>14. CASE Restart
  BY <1>14 DEF Restart
<1>15. CASE Tick
  BY <1>15, LivesOK DEF Tick
<1>16. CASE Expire
  BY <1>16 DEF Expire
<1>17. CASE UNCHANGED vars
  BY <1>17 DEF vars
<1> QED
  BY <1>1, <1>2, <1>4, <1>5, <1>6, <1>7, <1>8, <1>9, <1>10, <1>11, <1>12, <1>13,
     <1>14, <1>15, <1>16, <1>17 DEF Step, Invoke, Proceed

----
(***************************************************************************)
(* Logins and requests under way.                                          *)
(***************************************************************************)

\* Tokens once minted stay minted, tokens handed out stay handed out, and a
\* token once logged out stays so.
LEMMA NothingForgotten ==
    ASSUME TypeOK, [Step]_vars
    PROVE  /\ \A t \in Tokens : jwt[t] # NULL => jwt'[t] # NULL
           /\ handed \subseteq handed'
           /\ \A t \in Tokens : out[t] = "done" => out'[t] = "done"
           /\ \A t \in Tokens : out[t] # "no" => out'[t] # "no"
<1> USE DEF TypeOK
<1>1. \A t \in Tokens : jwt[t] # NULL => jwt'[t] # NULL
  <2>1. \A n \in Lives : n # NULL
    BY LivesOK, NullAssumption
  <2>2. \A t \in Tokens : TTL(t.kind) \in Lives
    BY LivesOK DEF Tokens
  <2>3. ASSUME NEW c \in Calls, Login(c)  PROVE \A t \in Tokens : jwt[t] # NULL => jwt'[t] # NULL
    BY <2>1, <2>2, <2>3 DEF Login
  <2>4. CASE Tick
    BY <2>1, <2>4, LivesOK DEF Tick
  <2>5. CASE Restart \/ Expire \/ UNCHANGED vars
    BY <2>5 DEF Restart, Expire, vars
  <2>6. ASSUME NEW c \in Calls, Invoke(c) \/ Proceed(c), ~ Login(c)  PROVE UNCHANGED jwt
    BY <2>6 DEF Invoke, Proceed, LoginDenied, Protected, LogoutREST, LogoutGRPC,
                Authenticate, Arrive, SetAccess, SetRefresh, GetKey, Parse, DeleteAccess,
                DeleteRefresh, Return
  <2> QED  BY <2>3, <2>4, <2>5, <2>6 DEF Step
<1>2. handed \subseteq handed'
  <2>1. ASSUME NEW c \in Calls, SetRefresh(c)  PROVE handed \subseteq handed'
    BY <2>1 DEF SetRefresh
  <2>2. ASSUME NEW c \in Calls, Invoke(c) \/ Proceed(c), ~ SetRefresh(c)  PROVE UNCHANGED handed
    BY <2>2 DEF Invoke, Proceed, LoginDenied, Login, Protected, LogoutREST, LogoutGRPC,
                Authenticate, Arrive, SetAccess, GetKey, Parse, DeleteAccess,
                DeleteRefresh, Return
  <2>3. CASE Restart \/ Tick \/ Expire \/ UNCHANGED vars
    BY <2>3 DEF Restart, Tick, Expire, vars
  <2> QED  BY <2>1, <2>2, <2>3 DEF Step
<1>3. \A t \in Tokens : /\ out[t] = "done" => out'[t] = "done"
                        /\ out[t] # "no" => out'[t] # "no"
  <2>1. ASSUME NEW h \in Headers, NEW t \in Tokens
        PROVE  /\ out[t] = "done" => Asked(h)[t] = "done"
               /\ out[t] # "no" => Asked(h)[t] # "no"
    BY DEF Asked
  <2>2. ASSUME NEW c \in Calls, Protected(c) \/ LogoutREST(c) \/ LogoutGRPC(c)
        PROVE  out' = out \/ \E h \in Headers : out' = Asked(h)
    BY <2>2 DEF Protected, LogoutREST, LogoutGRPC
  <2>3. ASSUME NEW c \in Calls, DeleteRefresh(c), NEW t \in Tokens
        PROVE  out'[t] = out[t] \/ out'[t] = "done"
    BY <2>3 DEF DeleteRefresh
  <2>4. ASSUME NEW c \in Calls, Invoke(c) \/ Proceed(c),
               ~ (Protected(c) \/ LogoutREST(c) \/ LogoutGRPC(c) \/ DeleteRefresh(c))
        PROVE  UNCHANGED out
    BY <2>4 DEF Invoke, Proceed, LoginDenied, Login, SetAccess, SetRefresh, GetKey, Parse,
                DeleteAccess, Return
  <2>5. CASE Restart \/ Tick \/ Expire \/ UNCHANGED vars
    BY <2>5 DEF Restart, Tick, Expire, vars
  <2> QED  BY <2>1, <2>2, <2>3, <2>4, <2>5 DEF Step
<1> QED  BY <1>1, <1>2, <1>3

\* A step of one call leaves what the others are at.
LEMMA OthersUntouched ==
    ASSUME TypeOK, NEW c \in Calls, Invoke(c) \/ Proceed(c), NEW d \in Calls, d # c
    PROVE  /\ pc'[d] = pc[d] /\ op'[d] = op[d] /\ session'[d] = session[d]
           /\ header'[d] = header[d] /\ reply'[d] = reply[d]
           /\ late'[d] = late[d] /\ blind'[d] = blind[d]
<1> USE DEF TypeOK, Finish, Continue, calls
<1>1. CASE Invoke(c)
  BY <1>1 DEF Invoke, LoginDenied, Login, Protected, LogoutREST, LogoutGRPC, Authenticate, Arrive
<1>2. CASE Proceed(c)
  BY <1>2 DEF Proceed, SetAccess, SetRefresh, GetKey, Parse, DeleteAccess, DeleteRefresh, Return
<1> QED  BY <1>1, <1>2

\* Logins go on as described.
LEMMA LoginsStep == Typed /\ [Step]_vars => LoginsOK'
<1> SUFFICES ASSUME Typed, [Step]_vars  PROVE LoginsOK'
  OBVIOUS
<1> USE DEF Typed
<1>1. \A s \in Sessions : Access(s) \in Tokens
  BY KeyFacts DEF Access, Kinds
<1>2. \A s \in Sessions : jwt[Access(s)] # NULL => jwt'[Access(s)] # NULL
  BY <1>1, NothingForgotten
<1>3. ASSUME NEW c \in Calls, Login(c)  PROVE LoginsOK'
  <2>1. PICK s \in Sessions :
          /\ jwt[Access(s)] = NULL
          /\ jwt' = [t \in Tokens |-> IF t.session = s THEN TTL(t.kind) ELSE jwt[t]]
          /\ session' = [session EXCEPT ![c] = s]
    BY <1>3 DEF Login, Access
  <2>2. s \notin handed
    BY <2>1 DEF LoginsOK
  <2>3. jwt'[Access(s)] # NULL
    <3>1. jwt'[Access(s)] = TTL("access")
      BY <1>1, <2>1 DEF Access
    <3> QED  BY <3>1, LivesOK, NullAssumption DEF Kinds
  <2>4. /\ pc'[c] = "set_access" /\ op'[c] = "AuthLogin" /\ session'[c] = s
        /\ handed' = handed
    BY <1>3, <2>1 DEF Login, Continue, TypeOK
  <2>5. \A d \in Calls : d # c => pc'[d] = pc[d] /\ op'[d] = op[d] /\ session'[d] = session[d]
    BY <1>3, OthersUntouched DEF Invoke
  <2>6. \A d \in Calls : d # c /\ pc[d] \in LoginStages => session[d] # s
    BY <2>1 DEF LoginsOK, LoginOK
  <2>7. \A d \in Calls : LoginOK(d)'
    BY <1>2, <2>2, <2>3, <2>4, <2>5 DEF LoginsOK, LoginOK
  <2>8. \A r \in handed' : jwt'[Access(r)] # NULL
    BY <1>2, <2>4 DEF LoginsOK, TypeOK
  <2> QED  BY <2>4, <2>5, <2>6, <2>7, <2>8 DEF LoginsOK
<1>4. ASSUME NEW c \in Calls, SetRefresh(c)  PROVE LoginsOK'
  <2>1. pc'[c] = "done" /\ handed' \subseteq handed \cup {session[c]}
    BY <1>4 DEF SetRefresh, Finish, TypeOK
  <2>2. pc[c] \in LoginStages
    BY <1>4 DEF SetRefresh, LoginStages
  <2>3. \A d \in Calls : d # c => pc'[d] = pc[d] /\ op'[d] = op[d] /\ session'[d] = session[d]
    BY <1>4, OthersUntouched DEF Proceed
  <2>4. session[c] \in Sessions /\ jwt[Access(session[c])] # NULL
    BY <2>2 DEF LoginsOK, LoginOK
  <2>5. \A d \in Calls : LoginOK(d)'
    <3>1. "done" \notin LoginStages
      BY DEF LoginStages
    <3> QED  BY <1>2, <2>1, <2>2, <2>3, <3>1 DEF LoginsOK, LoginOK
  <2>6. \A r \in handed' : jwt'[Access(r)] # NULL
    BY <1>2, <2>1, <2>4 DEF LoginsOK, TypeOK
  <2> QED  BY <2>1, <2>3, <2>5, <2>6 DEF LoginsOK, LoginStages
<1>5. ASSUME NEW c \in Calls, Invoke(c) \/ Proceed(c), ~ Login(c), ~ SetRefresh(c)
      PROVE  LoginsOK'
  <2>1. /\ handed' = handed
        /\ pc'[c] \in LoginStages =>
             pc[c] \in LoginStages /\ op'[c] = op[c] /\ session'[c] = session[c]
    BY <1>5 DEF TypeOK, LoginStages, Finish, Continue, calls, Invoke, Proceed, LoginDenied,
                Protected, LogoutREST, LogoutGRPC, Authenticate, Arrive, SetAccess, GetKey,
                Parse, DeleteAccess, DeleteRefresh, Return
  <2>2. \A d \in Calls : d # c => pc'[d] = pc[d] /\ op'[d] = op[d] /\ session'[d] = session[d]
    BY <1>5, OthersUntouched
  <2>3. \A d \in Calls : LoginOK(d)'
    BY <1>2, <2>1, <2>2 DEF LoginsOK, LoginOK
  <2>4. \A r \in handed' : jwt'[Access(r)] # NULL
    BY <1>2, <2>1 DEF LoginsOK, TypeOK
  <2> QED  BY <2>1, <2>2, <2>3, <2>4 DEF LoginsOK
<1>6. CASE Restart
  <2>1. \A d \in Calls : pc'[d] = "idle"
    BY <1>6 DEF Restart
  <2>2. handed' = handed
    BY <1>6 DEF Restart
  <2> QED  BY <1>2, <2>1, <2>2 DEF LoginsOK, LoginOK, LoginStages, TypeOK
<1>7. CASE Tick \/ Expire \/ UNCHANGED vars
  <2>1. UNCHANGED <<pc, op, session, handed>>
    BY <1>7 DEF Tick, Expire, vars, calls
  <2> QED  BY <1>2, <2>1 DEF LoginsOK, LoginOK, TypeOK
<1> QED  BY <1>3, <1>4, <1>5, <1>6, <1>7 DEF Step

\* Requests go on as described.
LEMMA RequestsStep == Typed /\ [Step]_vars => RequestsOK'
<1> SUFFICES ASSUME Typed, [Step]_vars  PROVE RequestsOK'
  OBVIOUS
<1> USE DEF Typed
<1>1. \A h \in Headers : h.jwt # NULL => h.jwt \in Tokens
  BY DEF Headers
<1>2. ASSUME NEW c \in Calls,
             /\ pc'[c] = pc[c] /\ op'[c] = op[c]
             /\ header'[c] = header[c] /\ late'[c] = late[c]
      PROVE  RequestOK(c)'
  BY <1>1, <1>2, NothingForgotten DEF RequestsOK, RequestOK
<1>3. ASSUME NEW c \in Calls, Invoke(c) \/ Proceed(c), NEW d \in Calls, d # c
      PROVE  RequestOK(d)'
  BY <1>2, <1>3, OthersUntouched
<1>4. ASSUME NEW c \in Calls, NEW h \in Headers, NEW o, Arrive(c, o, h), handed' = handed,
             out' = Asked(h) \/ (out' = out /\ o = "Protected"),
             \/ pc'[c] = "done"
             \/ pc'[c] = "get" /\ o \in {"Protected", "LogoutGRPC"}
             \/ pc'[c] = "del_access" /\ o = "LogoutREST"
      PROVE  RequestOK(c)'
  <2>1. op'[c] = o /\ header'[c] = h
    BY <1>4 DEF Arrive, TypeOK
  <2>2. late'[c] => h.jwt # NULL /\ out[h.jwt] = "done"
    BY <1>4 DEF Arrive, TypeOK
  <2>3. h.jwt # NULL => h.jwt.session \in handed'
    BY <1>4 DEF Arrive
  <2>4. h.jwt # NULL /\ o # "Protected" => out'[h.jwt] # "no"
    BY <1>1, <1>4 DEF Asked, TypeOK
  <2>5. late'[c] => out'[h.jwt] = "done"
    BY <1>1, <2>2, NothingForgotten
  <2> QED
    BY <1>4, <2>1, <2>2, <2>3, <2>4, <2>5
    DEF RequestOK, CheckStages, LogoutStages, Logouts
<1>5. ASSUME NEW c \in Calls, Protected(c) \/ LogoutREST(c) \/ LogoutGRPC(c)
      PROVE  RequestOK(c)'
  <2>1. CASE Protected(c)
    BY <1>4, <2>1 DEF Protected, Authenticate, Finish, Continue, TypeOK
  <2>2. CASE LogoutREST(c)
    BY <1>4, <2>2 DEF LogoutREST, Finish, Continue, TypeOK
  <2>3. CASE LogoutGRPC(c)
    BY <1>4, <2>3 DEF LogoutGRPC, Authenticate, Finish, Continue, TypeOK
  <2> QED  BY <1>5, <2>1, <2>2, <2>3
<1>6. ASSUME NEW c \in Calls, LoginDenied(c) \/ Login(c) \/ SetAccess(c) \/ SetRefresh(c) \/ Return(c)
      PROVE  RequestOK(c)'
  <2>1. pc'[c] \in {"done", "set_access", "set_refresh", "idle"}
    BY <1>6 DEF LoginDenied, Login, SetAccess, SetRefresh, Return, Finish, Continue, TypeOK
  <2> QED  BY <2>1 DEF RequestOK, CheckStages, LogoutStages
<1>7. ASSUME NEW c \in Calls, GetKey(c) \/ Parse(c) \/ DeleteAccess(c) \/ DeleteRefresh(c)
      PROVE  RequestOK(c)'
  <2>1. op'[c] = op[c] /\ header'[c] = header[c] /\ late'[c] = late[c]
    BY <1>7 DEF GetKey, Parse, DeleteAccess, DeleteRefresh, calls
  <2>2. pc[c] \in CheckStages \cup LogoutStages
    BY <1>7 DEF GetKey, Parse, DeleteAccess, DeleteRefresh, CheckStages, LogoutStages
  <2>3. \/ pc'[c] = "done"
        \/ pc[c] \in CheckStages /\ pc'[c] = "parse"
        \/ op[c] = "LogoutGRPC" /\ pc'[c] = "del_access"
        \/ pc[c] \in LogoutStages /\ pc'[c] = "del_refresh"
    BY <1>7 DEF GetKey, Parse, DeleteAccess, DeleteRefresh, Finish, Continue, TypeOK,
                CheckStages, LogoutStages
  <2>4. /\ header[c] \in Headers
        /\ header[c].jwt # NULL => /\ header[c].jwt.session \in handed'
                                   /\ op[c] \in Logouts => out'[header[c].jwt] # "no"
        /\ late[c] => header[c].jwt # NULL /\ out'[header[c].jwt] = "done"
    BY <1>1, <2>2, NothingForgotten DEF RequestsOK, RequestOK
  <2>5. /\ pc'[c] \in CheckStages => op'[c] \in {"Protected", "LogoutGRPC"}
        /\ pc'[c] \in LogoutStages => op'[c] \in Logouts
    BY <2>1, <2>3 DEF RequestsOK, RequestOK, CheckStages, LogoutStages, Logouts
  <2> QED  BY <2>1, <2>4, <2>5 DEF RequestOK
<1>8. CASE Restart
  <2>1. \A d \in Calls : pc'[d] = "idle"
    BY <1>8 DEF Restart
  <2> QED  BY <2>1 DEF RequestsOK, RequestOK, CheckStages, LogoutStages
<1>9. CASE Tick \/ Expire \/ UNCHANGED vars
  <2>1. UNCHANGED <<pc, op, header, late>>
    BY <1>9 DEF Tick, Expire, vars, calls
  <2> QED  BY <1>2, <2>1 DEF RequestsOK
<1>10. ASSUME NEW c \in Calls, Invoke(c) \/ Proceed(c)  PROVE RequestsOK'
  <2>1. RequestOK(c)'
    BY <1>5, <1>6, <1>7, <1>10 DEF Invoke, Proceed
  <2> QED  BY <1>3, <1>10, <2>1 DEF RequestsOK
<1> QED  BY <1>8, <1>9, <1>10 DEF Step

\* A session forgotten takes nothing from the others, and no request is
\* about it.
LEMMA ForgetTyped ==
    ASSUME Typed, NEW s \in Sessions, Forget(s)
    PROVE  Typed'
<1> USE DEF Forget, Typed, TypeOK, calls
<1>1. TypeOK'
  OBVIOUS
<1>2. LoginsOK'
  <2>1. \A r \in Sessions \ {s} : Access(r) \in Tokens /\ jwt'[Access(r)] = jwt[Access(r)]
    BY KeyFacts DEF Access, Kinds
  <2>2. \A c \in Calls : LoginOK(c)'
    BY <2>1 DEF LoginsOK, LoginOK
  <2> QED  BY <2>1, <2>2 DEF LoginsOK
<1>3. RequestsOK'
  <2>1. \A h \in Headers : h.jwt # NULL => h.jwt \in Tokens
    BY DEF Headers
  <2> SUFFICES ASSUME NEW c \in Calls  PROVE RequestOK(c)'
    BY DEF RequestsOK
  <2>2. CASE pc[c] \in CheckStages \cup LogoutStages
    <3>1. header[c] \in Headers /\ header[c] # NULL
      BY <2>2, HeadersAssumption DEF RequestsOK, RequestOK, Headers
    <3>2. header[c].jwt # NULL => header[c].jwt \in Tokens /\ header[c].jwt.session # s
      BY <2>1, <3>1
    <3>3. header[c].jwt # NULL => out'[header[c].jwt] = out[header[c].jwt]
      BY <3>2
    <3> QED  BY <2>2, <3>1, <3>2, <3>3 DEF RequestsOK, RequestOK
  <2>3. CASE pc[c] \notin CheckStages \cup LogoutStages
    BY <2>3 DEF RequestOK
  <2> QED  BY <2>2, <2>3
<1> QED  BY <1>1, <1>2, <1>3

\* Whatever the calls, the sessions and the lifetimes: every reachable state
\* is well-formed, no two logins share a session, and a request that is on
\* its way carries a token somebody was handed, or none.
LEMMA TypedAlways == Spec => []Typed
<1>1. Init => Typed
  BY NullAssumption
  DEF Init, Typed, TypeOK, LoginsOK, LoginOK, RequestsOK, RequestOK, Stages,
      LoginStages, CheckStages, LogoutStages
<1>2. Typed /\ [Next]_vars => Typed'
  BY TypeStep, LoginsStep, RequestsStep, ForgetTyped DEF Typed, Next
<1> QED  BY <1>1, <1>2, PTL DEF Spec

\* Every variable of Sessions holds a value of its kind in every reachable
\* state: no command of Redis and no tick leads out of the lifetimes the
\* configuration gives, and every stage of a call is one its code knows.
THEOREM TypeCorrect == Spec => []TypeOK
<1>1. Typed => TypeOK
  BY DEF Typed
<1> QED  BY <1>1, TypedAlways, PTL

----
(***************************************************************************)
(* What the steps do to the keys the endpoints look at.                    *)
(***************************************************************************)

\* A login stores the key of its own token with its whole lifetime.
LEMMA SetAccessKey ==
    ASSUME Typed, NEW c \in Calls, SetAccess(c), NEW t \in Tokens
    PROVE  \/ Left(t)' = Left(t) /\ pc'[c] # "set_refresh"
           \/ Left(t)' = Left(t) /\ t # Access(session[c])
           \/ /\ t = Access(session[c])
              /\ Left(t)' = IF TTL("access") = 0 THEN NoExpiry ELSE TTL("access")
<1>1. pc[c] \in LoginStages /\ session[c] \in Sessions
  BY DEF SetAccess, LoginStages, Typed, LoginsOK, LoginOK
<1>2. Own(c, "access") = Bare(Access(session[c])) /\ Access(session[c]) \in Tokens
  BY <1>1, KeyFacts DEF Own, Access, Kinds
<1> DEFINE key == AccessKey(Bare(Access(session[c])))
<1>3. CASE UNCHANGED redis /\ Finish(c, "error")
  BY <1>3 DEF Left, Finish, Typed, TypeOK
<1>4. CASE SetKey(key, "access")
  BY <1>2, <1>4, KeyFacts DEF Left, SetKey, Typed, TypeOK
<1> QED  BY <1>2, <1>3, <1>4 DEF SetAccess

\* A logout deletes the key of the token it was asked with, or none; the
\* REST one the key, when it goes on.
LEMMA DeleteAccessKey ==
    ASSUME Typed, NEW c \in Calls, DeleteAccess(c), NEW t \in Tokens
    PROVE  /\ header[c].jwt # t => Left(t)' = Left(t)
           /\ Left(t)' = Left(t) \/ Left(t)' = NULL
           /\ pc'[c] = "del_refresh" /\ op[c] = "LogoutREST" /\ header[c].jwt = t
                => Left(t)' = NULL
<1>1. header[c] \in Headers
  BY DEF DeleteAccess, Typed, RequestsOK, RequestOK, LogoutStages
<1>2. AccessKey(Bare(t)) = LogoutKey(c) => header[c].jwt = t
  BY <1>1, KeyFacts DEF LogoutKey, TrimBearer, AccessKey, Bare, Headers
<1>3. op[c] = "LogoutREST" /\ header[c].jwt = t => LogoutKey(c) = AccessKey(Bare(t))
  BY <1>1, KeyFacts DEF LogoutKey
<1>4. CASE UNCHANGED redis /\ Finish(c, "error")
  BY <1>4 DEF Left, Finish, Typed, TypeOK
<1>5. CASE Del(LogoutKey(c))
  BY <1>2, <1>3, <1>5, KeyFacts DEF Left, Del, Typed, TypeOK
<1> QED  BY <1>4, <1>5 DEF DeleteAccess

\* No other step of a call touches these keys: the refresh keys are others,
\* and the "*" of the logouts names none.
LEMMA OtherKeys ==
    ASSUME Typed, NEW c \in Calls, Invoke(c) \/ Proceed(c), ~ SetAccess(c), ~ DeleteAccess(c),
           NEW t \in Tokens
    PROVE  Left(t)' = Left(t)
<1>1. CASE SetRefresh(c)
  <2>1. session[c] \in Sessions
    BY <1>1 DEF SetRefresh, LoginStages, Typed, LoginsOK, LoginOK
  <2>2. ASSUME SetKey(RefreshKey(Own(c, "refresh")), "refresh")  PROVE Left(t)' = Left(t)
    BY <2>2, KeyFacts DEF SetKey, Left, Typed, TypeOK
  <2> QED  BY <1>1, <2>2 DEF SetRefresh, Left
<1>2. CASE DeleteRefresh(c)
  <2>1. ASSUME Del(RefreshKey(Star))  PROVE Left(t)' = Left(t)
    BY <2>1, KeyFacts DEF Del, Left, Typed, TypeOK
  <2> QED  BY <1>2, <2>1 DEF DeleteRefresh, Left
<1>3. CASE ~ SetRefresh(c) /\ ~ DeleteRefresh(c)
  <2>1. UNCHANGED redis
    BY <1>3 DEF Invoke, Proceed, LoginDenied, Login, Protected, LogoutREST, LogoutGRPC,
                Authenticate, Arrive, GetKey, Parse, Return
  <2> QED  BY <2>1 DEF Left
<1> QED  BY <1>1, <1>2, <1>3

\* Without a call at work a key only runs down.
LEMMA KeysRunDown ==
    ASSUME Typed, Restart \/ Tick \/ Expire \/ UNCHANGED vars, NEW t \in Tokens
    PROVE  \/ Left(t)' = Left(t) /\ jwt' = jwt
           \/ Expire /\ Left(t) = 0 /\ Left(t)' = NULL
           \/ Tick /\ Left(t) # 0 /\ Left(t)' = OneLess(Left(t))
<1>1. CASE Restart \/ UNCHANGED vars
  BY <1>1 DEF Restart, vars, Left
<1>2. CASE Tick
  BY <1>2, KeyFacts DEF Tick, Left
<1>3. CASE Expire
  BY <1>3, KeyFacts DEF Expire, Left, Typed, TypeOK
<1> QED  BY <1>1, <1>2, <1>3

\* A key that is not there does not come back by time passing.
LEMMA NoKeyFromNothing ==
    ASSUME Typed, Restart \/ Tick \/ Expire \/ UNCHANGED vars, NEW t \in Tokens, Left(t) = NULL
    PROVE  Left(t)' = NULL
  BY KeysRunDown, LivesOK

----
(***************************************************************************)
(* Only access tokens pass.                                                *)
(***************************************************************************)
\* A request that found its key is one with an access token.
KindOK(c) ==
    /\ pc[c] = "parse" /\ ~ blind[c] => header[c].jwt \in Tokens /\ header[c].jwt.kind = "access"
    /\ pc[c] = "done" /\ op[c] = "Protected" /\ reply[c] = "ok" /\ ~ blind[c]
         => header[c].jwt.kind = "access"

\* Only access tokens have a key where the endpoints look.
KindsOK ==
    /\ \A t \in Tokens : Left(t) # NULL => t.kind = "access"
    /\ \A c \in Calls : KindOK(c)

\* GET finds the key of a token handed out.
LEMMA KeyFound ==
    ASSUME Typed, NEW c \in Calls, GetKey(c), pc'[c] = "parse", ~ blind'[c]
    PROVE  /\ header[c].jwt \in Tokens /\ Left(header[c].jwt) # NULL
           /\ UNCHANGED <<header, op, late>>
<1>1. header[c] \in Headers
  BY DEF GetKey, Typed, RequestsOK, RequestOK, CheckStages
<1>2. AccessKey(TrimBearer(header[c])) \in Keys /\ redis[AccessKey(TrimBearer(header[c]))] # NULL
  BY DEF GetKey, Finish, Continue, Typed, TypeOK
<1>3. header[c].jwt \in Tokens
  BY <1>2 DEF AccessKey, RefreshKey, Keys, TrimBearer, Bare
<1> QED  BY <1>1, <1>2, <1>3, KeyFacts DEF Left, GetKey, calls

\* Each step keeps KindsOK.
LEMMA KindsStep == Typed /\ KindsOK /\ [Step]_vars => KindsOK'
<1> SUFFICES ASSUME Typed, KindsOK, [Step]_vars  PROVE KindsOK'
  OBVIOUS
<1>1. ASSUME NEW t \in Tokens, Left(t)' # NULL  PROVE t.kind = "access"
  <2>1. ASSUME NEW c \in Calls, SetAccess(c)  PROVE Left(t) # NULL \/ t = Access(session[c])
    BY <1>1, <2>1, SetAccessKey
  <2>2. ASSUME NEW c \in Calls, DeleteAccess(c)  PROVE Left(t) # NULL
    BY <1>1, <2>2, DeleteAccessKey
  <2>3. ASSUME NEW c \in Calls, Invoke(c) \/ Proceed(c), ~ SetAccess(c), ~ DeleteAccess(c)
        PROVE  Left(t) # NULL
    BY <1>1, <2>3, OtherKeys
  <2>4. CASE Restart \/ Tick \/ Expire \/ UNCHANGED vars
    BY <1>1, <2>4, NoKeyFromNothing DEF KindsOK
  <2> QED  BY <2>1, <2>2, <2>3, <2>4 DEF Step, KindsOK, Access
<1>2. ASSUME NEW c \in Calls, Invoke(c) \/ Proceed(c)  PROVE KindOK(c)'
  <2>1. CASE GetKey(c)
    <3>1. pc'[c] = "parse" \/ reply'[c] = "unauthorized"
      BY <2>1 DEF GetKey, Finish, Continue, Typed, TypeOK
    <3>2. pc'[c] = "parse" /\ ~ blind'[c] => header'[c].jwt \in Tokens /\ header'[c].jwt.kind = "access"
      BY <2>1, KeyFound DEF KindsOK
    <3>3. reply'[c] = "unauthorized" /\ pc'[c] # "parse" => KindOK(c)'
      BY DEF KindOK
    <3> QED  BY <3>1, <3>2, <3>3 DEF KindOK
  <2>2. CASE Parse(c)
    <3>1. pc[c] = "parse" /\ header'[c] = header[c] /\ blind'[c] = blind[c] /\ pc'[c] # "parse"
      BY <2>2 DEF Parse, calls, Finish, Continue, Typed, TypeOK
    <3> QED  BY <3>1 DEF KindsOK, KindOK
  <2>3. CASE SetRefresh(c) \/ DeleteRefresh(c)
    <3>1. op'[c] = op[c] /\ op[c] # "Protected" /\ pc'[c] # "parse"
      BY <2>3 DEF SetRefresh, DeleteRefresh, calls, Finish, Typed, TypeOK, LoginsOK, LoginOK,
                  RequestsOK, RequestOK, LoginStages, LogoutStages, Logouts
    <3> QED  BY <3>1 DEF KindOK
  <2>4. CASE ~ GetKey(c) /\ ~ Parse(c) /\ ~ SetRefresh(c) /\ ~ DeleteRefresh(c)
    <3>1. pc'[c] # "parse" /\ (pc'[c] = "done" => reply'[c] # "ok")
      BY <1>2, <2>4
      DEF Invoke, Proceed, LoginDenied, Login, Protected, LogoutREST, LogoutGRPC, Authenticate,
          Arrive, SetAccess, DeleteAccess, Return, Finish, Continue, Typed, TypeOK
    <3> QED  BY <3>1 DEF KindOK
  <2> QED  BY <2>1, <2>2, <2>3, <2>4
<1>3. ASSUME NEW c \in Calls, Invoke(c) \/ Proceed(c), NEW d \in Calls, d # c  PROVE KindOK(d)'
  BY <1>3, OthersUntouched DEF KindsOK, KindOK, Typed
<1>4. CASE Restart
  <2>1. \A d \in Calls : pc'[d] = "idle"
    BY <1>4 DEF Restart
  <2> QED  BY <1>1, <2>1 DEF KindsOK, KindOK
<1>5. CASE Tick \/ Expire \/ UNCHANGED vars
  <2>1. UNCHANGED <<pc, op, header, reply, blind>>
    BY <1>5 DEF Tick, Expire, vars, calls
  <2> QED  BY <1>1, <2>1 DEF KindsOK, KindOK
<1> QED  BY <1>1, <1>2, <1>3, <1>4, <1>5 DEF Step, KindsOK

\* Only access tokens have a key where the endpoints look, always.
LEMMA KindsAlways == Spec => []KindsOK
<1>1. Init => KindsOK
  BY KeyFacts DEF Init, KindsOK, KindOK, Left
<1>2. ASSUME NEW s \in Sessions, KindsOK, Forget(s)  PROVE KindsOK'
  BY <1>2 DEF Forget, KindsOK, KindOK, Left, calls
<1>3. Typed /\ KindsOK /\ [Next]_vars => KindsOK'
  BY <1>2, KindsStep DEF Next
<1> QED  BY <1>1, <1>3, TypedAlways, PTL DEF Spec

\* As long as Redis answers, no refresh token opens an endpoint: whatever
\* the order of logins, logouts and expiries, the keys that CheckUserToken
\* looks up are those of access tokens.
THEOREM OnlyAccessPasses == Spec => []OnlyAccessTokensPass
<1>1. KindsOK => OnlyAccessTokensPass
  BY DEF KindsOK, KindOK, OnlyAccessTokensPass
<1> QED  BY <1>1, KindsAlways, PTL

----
(***************************************************************************)
(* What is logged out stays out.                                           *)
(***************************************************************************)
\* A REST logout that has got past its first deletion has deleted the key; a
\* request that came after a finished logout finds none.
LogoutOK(c) ==
    /\ pc[c] = "del_refresh" /\ op[c] = "LogoutREST" /\ header[c].jwt # NULL
         => Left(header[c].jwt) = NULL
    /\ pc[c] = "parse" /\ late[c] => blind[c]
    /\ pc[c] = "done" /\ op[c] = "Protected" /\ late[c] /\ ~ blind[c]
         => reply[c] = "unauthorized"

\* Logouts are asked for tokens that were handed out; the key of a token that
\* is logged out is gone.
LogoutsOK ==
    /\ \A t \in Tokens : /\ out[t] # "no" => t.session \in handed
                         /\ out[t] = "done" => Left(t) = NULL
    /\ \A c \in Calls : LogoutOK(c)

\* Nobody stores a key for a session that is handed out already.
LEMMA NoKeyForHanded ==
    ASSUME Typed, [Step]_vars, NEW t \in Tokens, t.session \in handed, Left(t) = NULL
    PROVE  Left(t)' = NULL
<1>1. ASSUME NEW c \in Calls, SetAccess(c)  PROVE Left(t)' = NULL
  <2>1. session[c] \notin handed
    BY <1>1 DEF SetAccess, LoginStages, Typed, LoginsOK, LoginOK
  <2> QED  BY <1>1, <2>1, SetAccessKey DEF Access
<1>2. ASSUME NEW c \in Calls, DeleteAccess(c)  PROVE Left(t)' = NULL
  BY <1>2, DeleteAccessKey
<1>3. ASSUME NEW c \in Calls, Invoke(c) \/ Proceed(c), ~ SetAccess(c), ~ DeleteAccess(c)
      PROVE  Left(t)' = NULL
  BY <1>3, OtherKeys
<1> QED  BY <1>1, <1>2, <1>3, NoKeyFromNothing DEF Step

\* Who has a say in what is logged out: a request for the token it carries,
\* and a logout at its last deletion.
LEMMA OutChanges ==
    ASSUME Typed, [Step]_vars, NEW t \in Tokens, out'[t] # out[t]
    PROVE  \/ t.session \in handed /\ out'[t] = "asked"
           \/ \E c \in Calls : /\ pc[c] = "del_refresh" /\ op[c] = "LogoutREST"
                               /\ header[c].jwt = t /\ out'[t] = "done"
<1> USE DEF Typed, TypeOK
<1>1. ASSUME NEW c \in Calls, NEW o, NEW h \in Headers, Arrive(c, o, h), out' = Asked(h)
      PROVE  t.session \in handed /\ out'[t] = "asked"
  BY <1>1 DEF Arrive, Asked
<1>2. ASSUME NEW c \in Calls, Protected(c) \/ LogoutREST(c) \/ LogoutGRPC(c)
      PROVE  t.session \in handed /\ out'[t] = "asked"
  BY <1>1, <1>2 DEF Protected, LogoutREST, LogoutGRPC, Authenticate
<1>3. ASSUME NEW c \in Calls, DeleteRefresh(c)
      PROVE  /\ pc[c] = "del_refresh" /\ op[c] = "LogoutREST"
             /\ header[c].jwt = t /\ out'[t] = "done"
  BY <1>3 DEF DeleteRefresh
<1>4. ASSUME NEW c \in Calls, Invoke(c) \/ Proceed(c),
             ~ (Protected(c) \/ LogoutREST(c) \/ LogoutGRPC(c) \/ DeleteRefresh(c))
      PROVE  FALSE
  BY <1>4 DEF Invoke, Proceed, LoginDenied, Login, SetAccess, SetRefresh, GetKey, Parse,
              DeleteAccess, Return
<1>5. CASE Restart \/ Tick \/ Expire \/ UNCHANGED vars
  BY <1>5 DEF Restart, Tick, Expire, vars
<1> QED  BY <1>2, <1>3, <1>4, <1>5 DEF Step

\* Each step keeps LogoutsOK.
LEMMA LogoutsStep == Typed /\ LogoutsOK /\ [Step]_vars => LogoutsOK'
<1> SUFFICES ASSUME Typed, LogoutsOK, [Step]_vars  PROVE LogoutsOK'
  OBVIOUS
<1>1. ASSUME NEW t \in Tokens
      PROVE  /\ out'[t] # "no" => t.session \in handed'
             /\ out'[t] = "done" => Left(t)' = NULL
  <2>1. CASE out'[t] = out[t]
    BY <2>1, NothingForgotten, NoKeyForHanded DEF LogoutsOK, Typed
  <2>2. CASE t.session \in handed /\ out'[t] = "asked"
    BY <2>2, NothingForgotten DEF Typed
  <2>3. ASSUME NEW c \in Calls, pc[c] = "del_refresh", op[c] = "LogoutREST",
               header[c].jwt = t, out'[t] = "done"
        PROVE  t.session \in handed' /\ Left(t)' = NULL
    <3>1. t # NULL
      BY NullAssumption
    <3>2. t.session \in handed
      BY <2>3, <3>1 DEF Typed, RequestsOK, RequestOK, LogoutStages
    <3>3. Left(t) = NULL
      BY <2>3, <3>1 DEF LogoutsOK, LogoutOK
    <3> QED  BY <3>2, <3>3, NoKeyForHanded, NothingForgotten DEF Typed
  <2> QED  BY <2>1, <2>2, <2>3, OutChanges
<1>2. ASSUME NEW c \in Calls, pc'[c] = pc[c], op'[c] = op[c], header'[c] = header[c],
             late'[c] = late[c], blind'[c] = blind[c], reply'[c] = reply[c]
      PROVE  LogoutOK(c)'
  <2>1. ASSUME pc[c] = "del_refresh", op[c] = "LogoutREST", header[c].jwt # NULL
        PROVE  Left(header[c].jwt)' = NULL
    <3>1. header[c].jwt \in Tokens /\ header[c].jwt.session \in handed
      BY <2>1 DEF Typed, RequestsOK, RequestOK, LogoutStages, Headers
    <3>2. Left(header[c].jwt) = NULL
      BY <2>1 DEF LogoutsOK, LogoutOK
    <3>3. \A t \in Tokens : t.session \in handed /\ Left(t) = NULL => Left(t)' = NULL
      BY NoKeyForHanded
    <3> QED  BY <1>2, <3>1, <3>2, <3>3 DEF Left
  <2> QED  BY <1>2, <2>1 DEF LogoutsOK, LogoutOK, Left
<1>3. ASSUME NEW c \in Calls, Invoke(c) \/ Proceed(c)  PROVE LogoutOK(c)'
  <2>1. CASE GetKey(c)
    <3>1. pc'[c] = "parse" \/ (reply'[c] = "unauthorized" /\ pc'[c] = "done")
      BY <2>1 DEF GetKey, Finish, Continue, Typed, TypeOK
    <3>2. ASSUME pc'[c] = "parse", late'[c], ~ blind'[c]  PROVE FALSE
      <4>1. Left(header[c].jwt) # NULL /\ header[c].jwt \in Tokens /\ late[c]
        BY <2>1, <3>2, KeyFound
      <4>2. out[header[c].jwt] = "done"
        BY <2>1, <4>1 DEF GetKey, Typed, RequestsOK, RequestOK, CheckStages
      <4> QED  BY <4>1, <4>2 DEF LogoutsOK
    <3> QED  BY <3>1, <3>2 DEF LogoutOK
  <2>2. CASE Parse(c)
    <3>1. /\ pc[c] = "parse" /\ late'[c] = late[c] /\ blind'[c] = blind[c]
          /\ pc'[c] # "parse" /\ pc'[c] # "del_refresh"
      BY <2>2 DEF Parse, calls, Finish, Continue, Typed, TypeOK
    <3> QED  BY <3>1 DEF LogoutsOK, LogoutOK
  <2>3. CASE DeleteAccess(c)
    <3>1. /\ header'[c] = header[c] /\ op'[c] = op[c] /\ pc[c] = "del_access"
          /\ pc'[c] # "parse" /\ op[c] # "Protected"
      BY <2>3 DEF DeleteAccess, calls, Finish, Continue, Typed, TypeOK, RequestsOK, RequestOK,
                  LogoutStages, Logouts
    <3>2. header[c].jwt # NULL => header[c].jwt \in Tokens
      BY <3>1 DEF Typed, RequestsOK, RequestOK, LogoutStages, Headers
    <3>3. ASSUME pc'[c] = "del_refresh", op[c] = "LogoutREST", header[c].jwt # NULL
          PROVE  redis'[AccessKey(Bare(header[c].jwt))] = NULL
      <4>1. \A t \in Tokens : header[c].jwt = t => Left(t)' = NULL
        BY <2>3, <3>3, DeleteAccessKey
      <4> QED  BY <3>2, <3>3, <4>1 DEF Left
    <3> QED  BY <3>1, <3>3 DEF LogoutOK, Left
  <2>4. CASE SetRefresh(c) \/ DeleteRefresh(c)
    <3>1. op'[c] = op[c] /\ op[c] # "Protected" /\ pc'[c] = "done"
      BY <2>4 DEF SetRefresh, DeleteRefresh, calls, Finish, Typed, TypeOK, LoginsOK, LoginOK,
                  RequestsOK, RequestOK, LoginStages, LogoutStages, Logouts
    <3> QED  BY <3>1 DEF LogoutOK
  <2>5. CASE ~ GetKey(c) /\ ~ Parse(c) /\ ~ DeleteAccess(c) /\ ~ SetRefresh(c) /\ ~ DeleteRefresh(c)
    <3>1. /\ pc'[c] # "parse" /\ pc'[c] # "del_refresh"
          /\ pc'[c] = "done" => op'[c] # "Protected" \/ reply'[c] = "unauthorized"
      BY <1>3, <2>5
      DEF Invoke, Proceed, LoginDenied, Login, Protected, LogoutREST, LogoutGRPC, Authenticate,
          Arrive, SetAccess, Return, Finish, Continue, calls, Typed, TypeOK, LoginsOK, LoginOK,
          LoginStages
    <3> QED  BY <3>1 DEF LogoutOK
  <2> QED  BY <2>1, <2>2, <2>3, <2>4, <2>5
<1>4. ASSUME NEW c \in Calls, Invoke(c) \/ Proceed(c), NEW d \in Calls, d # c  PROVE LogoutOK(d)'
  BY <1>2, <1>4, OthersUntouched DEF Typed
<1>5. CASE Restart
  <2>1. \A d \in Calls : pc'[d] = "idle"
    BY <1>5 DEF Restart
  <2> QED  BY <1>1, <2>1 DEF LogoutsOK, LogoutOK
<1>6. CASE Tick \/ Expire \/ UNCHANGED vars
  <2>1. UNCHANGED <<pc, op, header, late, reply, blind>>
    BY <1>6 DEF Tick, Expire, vars, calls
  <2> QED  BY <1>1, <1>2, <2>1 DEF LogoutsOK
<1> QED  BY <1>1, <1>3, <1>4, <1>5, <1>6 DEF Step, LogoutsOK

\* Who is logged out has no key left, always.
LEMMA LogoutsAlways == Spec => []LogoutsOK
<1>1. Init => LogoutsOK
  BY DEF Init, LogoutsOK, LogoutOK
<1>2. ASSUME NEW s \in Sessions, LogoutsOK, Forget(s)  PROVE LogoutsOK'
  BY <1>2 DEF Forget, LogoutsOK, LogoutOK, Left, calls
<1>3. Typed /\ LogoutsOK /\ [Next]_vars => LogoutsOK'
  BY <1>2, LogoutsStep DEF Next
<1> QED  BY <1>1, <1>3, TypedAlways, PTL DEF Spec

\* Once the REST AuthLogout has answered 200 for a token, no later request
\* with it passes CheckUserToken while Redis answers, whatever else goes on:
\* no login, however late its SETs, brings the key back.
THEOREM LogoutIsEffective == Spec => []LoggedOutIsRejected
<1>1. LogoutsOK => LoggedOutIsRejected
  BY DEF LogoutsOK, LogoutOK, LoggedOutIsRejected
<1> QED  BY <1>1, LogoutsAlways, PTL

----
(***************************************************************************)
(* What lets a request pass.                                               *)
(***************************************************************************)
\* CheckUserToken is through with c and had nothing against it.
Passed(c) ==
    \/ pc[c] = "done" /\ op[c] = "Protected" /\ reply[c] = "ok"
    \/ pc[c] \in LogoutStages /\ op[c] = "LogoutGRPC"

\* Only a Bearer header gets as far as Redis; and who passed has a token that
\* was handed out and, unless Redis failed, opens endpoints and is not logged
\* out since before the request came.
PassOK(c) ==
    /\ pc[c] \in CheckStages => header[c].bearer
    /\ Passed(c) => /\ header[c] \in Headers /\ header[c].bearer
                    /\ header[c].jwt \in Tokens /\ header[c].jwt.session \in handed
                    /\ ~ blind[c] => header[c].jwt.kind = "access" /\ ~ late[c]

PassesOK == \A c \in Calls : PassOK(c)

\* A request passes by a Parse that found its token valid.
LEMMA ParsePasses ==
    ASSUME Typed, KindsOK, LogoutsOK, PassesOK, NEW c \in Calls, Parse(c), Passed(c)'
    PROVE  PassOK(c)'
<1>1. pc[c] = "parse" /\ UNCHANGED <<header, handed, late, blind>> /\ header[c].bearer
  BY DEF Parse, calls, PassesOK, PassOK, CheckStages
<1>2. header[c] \in Headers /\ (header[c].jwt # NULL => header[c].jwt.session \in handed)
  BY <1>1 DEF Typed, RequestsOK, RequestOK, CheckStages
<1>3. header[c].jwt # NULL
  BY DEF Parse, Passed, Finish, Continue, Typed, TypeOK, LogoutStages
<1>4. header[c].jwt \in Tokens
  BY <1>2, <1>3 DEF Headers
<1>5. ~ blind[c] => header[c].jwt.kind = "access" /\ ~ late[c]
  BY <1>1 DEF KindsOK, KindOK, LogoutsOK, LogoutOK
<1> QED  BY <1>1, <1>2, <1>3, <1>4, <1>5 DEF PassOK

\* Each step keeps PassesOK.
LEMMA PassesStep == Typed /\ KindsOK /\ LogoutsOK /\ PassesOK /\ [Step]_vars => PassesOK'
<1> SUFFICES ASSUME Typed, KindsOK, LogoutsOK, PassesOK, [Step]_vars  PROVE PassesOK'
  OBVIOUS
<1>0. handed \subseteq handed'
  BY NothingForgotten DEF Typed
<1>1. ASSUME NEW d \in Calls,
             /\ pc'[d] = pc[d] /\ op'[d] = op[d] /\ reply'[d] = reply[d]
             /\ header'[d] = header[d] /\ late'[d] = late[d] /\ blind'[d] = blind[d]
      PROVE  PassOK(d)'
  BY <1>0, <1>1 DEF PassesOK, PassOK, Passed
<1>2. ASSUME NEW c \in Calls, NEW o, NEW h \in Headers, Authenticate(c, o, h)  PROVE PassOK(c)'
  BY <1>2 DEF Authenticate, Arrive, Continue, Finish, Typed, TypeOK, PassOK, Passed,
              CheckStages, LogoutStages
<1>3. ASSUME NEW c \in Calls, Invoke(c)  PROVE PassOK(c)'
  <2>1. CASE Protected(c) \/ LogoutGRPC(c)
    BY <1>2, <2>1 DEF Protected, LogoutGRPC
  <2>2. CASE LoginDenied(c) \/ Login(c) \/ LogoutREST(c)
    BY <2>2 DEF LoginDenied, Login, LogoutREST, Arrive, Continue, Finish, Typed, TypeOK,
                PassOK, Passed, CheckStages, LogoutStages
  <2> QED  BY <1>3, <2>1, <2>2 DEF Invoke
<1>4. ASSUME NEW c \in Calls, SetAccess(c) \/ SetRefresh(c) \/ Return(c)  PROVE PassOK(c)'
  <2>1. /\ pc'[c] \in LoginStages \cup {"done", "idle"}
        /\ pc'[c] = "done" => op'[c] = "AuthLogin"
    BY <1>4 DEF SetAccess, SetRefresh, Return, Continue, Finish, calls, Typed, TypeOK,
                LoginsOK, LoginOK, LoginStages
  <2> QED  BY <2>1 DEF PassOK, Passed, CheckStages, LogoutStages, LoginStages
<1>5. ASSUME NEW c \in Calls, GetKey(c)  PROVE PassOK(c)'
  <2>1. /\ header' = header /\ header[c].bearer
        /\ pc'[c] = "parse" \/ (pc'[c] = "done" /\ reply'[c] # "ok")
    BY <1>5 DEF GetKey, Continue, Finish, calls, Typed, TypeOK, PassesOK, PassOK, CheckStages
  <2> QED  BY <2>1 DEF PassOK, Passed, CheckStages, LogoutStages
<1>6. ASSUME NEW c \in Calls, Parse(c)  PROVE PassOK(c)'
  <2>1. pc'[c] \notin CheckStages
    BY <1>6 DEF Parse, Continue, Finish, Typed, TypeOK, CheckStages
  <2> QED  BY <1>6, <2>1, ParsePasses DEF PassOK
<1>7. ASSUME NEW c \in Calls, DeleteAccess(c) \/ DeleteRefresh(c)  PROVE PassOK(c)'
  <2>1. /\ pc[c] \in LogoutStages /\ UNCHANGED <<op, header, late, blind, handed>>
        /\ op[c] \in Logouts /\ pc'[c] \in {"del_refresh", "done"}
    BY <1>7 DEF DeleteAccess, DeleteRefresh, Continue, Finish, calls, LogoutStages,
                Typed, TypeOK, RequestsOK, RequestOK
  <2> QED  BY <2>1 DEF PassesOK, PassOK, Passed, CheckStages, LogoutStages, Logouts
<1>8. ASSUME NEW c \in Calls, Invoke(c) \/ Proceed(c)  PROVE PassesOK'
  <2>1. PassOK(c)'
    BY <1>3, <1>4, <1>5, <1>6, <1>7, <1>8 DEF Proceed
  <2>2. \A d \in Calls : d # c => PassOK(d)'
    BY <1>1, <1>8, OthersUntouched DEF Typed
  <2> QED  BY <2>1, <2>2 DEF PassesOK
<1>9. CASE Restart
  BY <1>9 DEF Restart, PassesOK, PassOK, Passed, CheckStages, LogoutStages
<1>10. CASE Tick \/ Expire \/ UNCHANGED vars
  <2>1. UNCHANGED <<pc, op, reply, header, late, blind>>
    BY <1>10 DEF Tick, Expire, vars, calls
  <2> QED  BY <1>1, <2>1 DEF PassesOK
<1> QED  BY <1>8, <1>9, <1>10 DEF Step

\* Whoever passes has what it takes, always.
LEMMA PassesAlways == Spec => []PassesOK
<1>1. Init => PassesOK
  BY DEF Init, PassesOK, PassOK, Passed, CheckStages, LogoutStages
<1>2. ASSUME NEW s \in Sessions, PassesOK, Forget(s)  PROVE PassesOK'
  <2>1. /\ UNCHANGED <<pc, op, reply, header, late, blind>> /\ handed' = handed \ {s}
        /\ \A c \in Calls : header[c] # NULL /\ header[c].jwt # NULL => header[c].jwt.session # s
    BY <1>2 DEF Forget, calls
  <2>2. \A t \in Tokens : t # NULL
    BY NullAssumption
  <2> QED  BY <1>2, <2>1, <2>2, HeadersAssumption DEF PassesOK, PassOK, Passed
<1>3. Typed /\ KindsOK /\ LogoutsOK /\ PassesOK /\ [Next]_vars => PassesOK'
  BY <1>2, PassesStep DEF Next
<1> QED  BY <1>1, <1>3, TypedAlways, KindsAlways, LogoutsAlways, PTL DEF Spec

----
(***************************************************************************)
(* What is not logged out stays in.                                        *)
(***************************************************************************)
\* A session is under way once its access key is set, and from then on.
UnderWay(s) ==
    s \in handed \/ \E c \in Calls : pc[c] = "set_refresh" /\ session[c] = s

\* The key outlasts the token, or the token is over already.
Outlasts(t) ==
    \/ jwt[t] = 0
    \/ Left(t) = NoExpiry
    \/ jwt[t] \in Nat /\ Left(t) \in Nat /\ jwt[t] <= Left(t)

\* No access token has more than its lifetime left, and while a session is
\* under way and no logout was asked for, its key outlasts its token.
ClockOK(t) ==
    /\ jwt[t] # NULL => jwt[t] <= TTL("access")
    /\ out[t] = "no" /\ UnderWay(t.session) => Outlasts(t)

ClocksOK == \A s \in Sessions : ClockOK(Access(s))

\* The values clocks take.
LEMMA Clocks ==
    ASSUME Typed
    PROVE  /\ \A t \in Tokens : jwt[t] \in Nat \cup {NULL}
           /\ \A t \in Tokens : Left(t) \in Nat \cup {NULL, NoExpiry}
           /\ TTL("access") \in Nat /\ TTL("refresh") \in Nat
           /\ \A n \in Nat : OneLess(n) = IF n = 0 THEN 0 ELSE n - 1
           /\ OneLess(NULL) = NULL /\ OneLess(NoExpiry) = NoExpiry
           /\ NULL \notin Nat /\ NoExpiry \notin Nat /\ NoExpiry # NULL
<1>1. NULL \notin Nat /\ NoExpiry \notin Nat /\ NoExpiry # NULL
  BY NullAssumption
<1>2. \A t \in Tokens : AccessKey(Bare(t)) \in Keys
  BY KeyFacts
<1> QED  BY <1>1, <1>2, LivesOK, TTLAssumption DEF Typed, TypeOK, Left, OneLess, TTL

\* The clock of an access token only runs down, and only with the time.
LEMMA JWTClock ==
    ASSUME Typed, [Step]_vars, NEW t \in Tokens, t.kind = "access", jwt[t] # NULL
    PROVE  /\ ~ Tick => jwt'[t] = jwt[t]
           /\ jwt'[t] = jwt[t] \/ jwt'[t] = OneLess(jwt[t])
<1> USE DEF Typed, TypeOK
<1>1. ASSUME NEW c \in Calls, Login(c)  PROVE jwt'[t] = jwt[t]
  <2>1. PICK s \in Sessions :
          /\ jwt[Access(s)] = NULL
          /\ jwt' = [u \in Tokens |-> IF u.session = s THEN TTL(u.kind) ELSE jwt[u]]
    BY <1>1 DEF Login, Access
  <2>2. t = Access(t.session)
    BY DEF Tokens, Access
  <2> QED  BY <2>1, <2>2
<1>2. ASSUME NEW c \in Calls, Invoke(c) \/ Proceed(c), ~ Login(c)  PROVE UNCHANGED jwt
  BY <1>2 DEF Invoke, Proceed, LoginDenied, Protected, LogoutREST, LogoutGRPC,
              Authenticate, Arrive, SetAccess, SetRefresh, GetKey, Parse, DeleteAccess,
              DeleteRefresh, Return
<1>3. CASE Tick
  BY <1>3 DEF Tick
<1>4. CASE Restart \/ Expire \/ UNCHANGED vars
  BY <1>4 DEF Restart, Expire, vars
<1> QED  BY <1>1, <1>2, <1>3, <1>4 DEF Step

\* A minted token starts with its lifetime, and runs down from there.
LEMMA LifetimeStep ==
    ASSUME Typed, [Step]_vars, NEW s \in Sessions, ClockOK(Access(s)), jwt'[Access(s)] # NULL
    PROVE  jwt'[Access(s)] <= TTL("access")
<1> DEFINE t == Access(s)
<1>1. t \in Tokens /\ t.kind = "access"
  BY KeyFacts DEF Access, Kinds
<1>2. CASE jwt[t] # NULL
  <2>1. jwt'[t] = jwt[t] \/ jwt'[t] = OneLess(jwt[t])
    BY <1>1, <1>2, JWTClock
  <2>2. jwt[t] \in Nat /\ jwt[t] <= TTL("access") /\ TTL("access") \in Nat
    BY <1>1, <1>2, Clocks DEF ClockOK
  <2>3. OneLess(jwt[t]) = IF jwt[t] = 0 THEN 0 ELSE jwt[t] - 1
    BY <2>2, Clocks
  <2> QED  BY <2>1, <2>2, <2>3
<1>3. CASE jwt[t] = NULL
  <2>1. PICK c \in Calls : Login(c)
    <3>1. ASSUME NEW c \in Calls, Invoke(c) \/ Proceed(c), ~ Login(c)  PROVE UNCHANGED jwt
      BY <3>1 DEF Invoke, Proceed, LoginDenied, Protected, LogoutREST, LogoutGRPC,
                  Authenticate, Arrive, SetAccess, SetRefresh, GetKey, Parse, DeleteAccess,
                  DeleteRefresh, Return
    <3>2. CASE Tick
      BY <1>1, <1>3, <3>2, Clocks DEF Tick
    <3>3. CASE Restart \/ Expire \/ UNCHANGED vars
      BY <1>3, <3>3 DEF Restart, Expire, vars
    <3> QED  BY <1>3, <3>1, <3>2, <3>3 DEF Step
  <2>2. PICK r \in Sessions :
          jwt' = [u \in Tokens |-> IF u.session = r THEN TTL(u.kind) ELSE jwt[u]]
    BY <2>1 DEF Login
  <2>3. jwt'[t] = TTL("access")
    BY <1>1, <1>3, <2>2
  <2> QED  BY <2>3, Clocks
<1> QED  BY <1>2, <1>3

\* A session is under way only by its access key having been set.
LEMMA UnderWayBy ==
    ASSUME Typed, [Step]_vars, NEW s \in Sessions, ~ UnderWay(s), UnderWay(s)'
    PROVE  \E c \in Calls : SetAccess(c) /\ session[c] = s /\ pc'[c] = "set_refresh"
<1> USE DEF Typed, TypeOK, UnderWay
<1>1. ASSUME NEW c \in Calls, SetAccess(c)
      PROVE  session[c] = s /\ pc'[c] = "set_refresh"
  BY <1>1, OthersUntouched DEF SetAccess, calls, Proceed
<1>2. ASSUME NEW c \in Calls, SetRefresh(c)  PROVE FALSE
  <2>1. handed' \subseteq handed \cup {session[c]} /\ pc[c] = "set_refresh" /\ pc'[c] = "done"
    BY <1>2 DEF SetRefresh, Finish
  <2>2. \A d \in Calls : d # c => pc'[d] = pc[d] /\ session'[d] = session[d]
    BY <1>2, OthersUntouched DEF Proceed
  <2> QED  BY <2>1, <2>2
<1>3. ASSUME NEW c \in Calls, Invoke(c) \/ Proceed(c), ~ SetAccess(c), ~ SetRefresh(c)
      PROVE  FALSE
  <2>1. handed' = handed /\ pc'[c] # "set_refresh"
    BY <1>3 DEF Invoke, Proceed, LoginDenied, Login, Protected, LogoutREST, LogoutGRPC,
                Authenticate, Arrive, GetKey, Parse, DeleteAccess, DeleteRefresh, Return,
                Finish, Continue
  <2>2. \A d \in Calls : d # c => pc'[d] = pc[d] /\ session'[d] = session[d]
    BY <1>3, OthersUntouched
  <2> QED  BY <2>1, <2>2
<1>4. CASE Restart
  BY <1>4 DEF Restart
<1>5. CASE Tick \/ Expire \/ UNCHANGED vars
  BY <1>5 DEF Tick, Expire, vars, calls
<1> QED  BY <1>1, <1>2, <1>3, <1>4, <1>5 DEF Step

\* A session under way is minted.
LEMMA UnderWayMinted ==
    ASSUME Typed, NEW s \in Sessions, UnderWay(s)
    PROVE  jwt[Access(s)] # NULL
  BY DEF Typed, LoginsOK, LoginOK, LoginStages, UnderWay

\* The key of a session under way goes on outlasting its token.
LEMMA OutlastsStep ==
    ASSUME Typed, [Step]_vars, NEW s \in Sessions, UnderWay(s), Outlasts(Access(s)),
           out'[Access(s)] = "no"
    PROVE  Outlasts(Access(s))'
<1> DEFINE t == Access(s)
<1>1. t \in Tokens /\ t.kind = "access" /\ t.session = s
  BY KeyFacts DEF Access, Kinds
<1>2. jwt[t] # NULL /\ jwt[t] \in Nat
  BY <1>1, UnderWayMinted, Clocks
<1>3. ~ Tick => jwt'[t] = jwt[t]
  BY <1>1, <1>2, JWTClock
<1>4. out[t] = "no"
  BY <1>1, NothingForgotten DEF Typed
<1>5. ASSUME Left(t)' = Left(t), ~ Tick  PROVE Outlasts(t)'
  BY <1>3, <1>5 DEF Outlasts
<1>6. CASE Tick
  <2>1. Left(t)' = OneLess(Left(t)) /\ Left(t) # 0 /\ jwt'[t] = OneLess(jwt[t])
    BY <1>1, <1>6, KeyFacts DEF Tick, Left
  <2>2. /\ OneLess(jwt[t]) = IF jwt[t] = 0 THEN 0 ELSE jwt[t] - 1
        /\ Left(t) \in Nat => OneLess(Left(t)) = Left(t) - 1
        /\ OneLess(NoExpiry) = NoExpiry
    BY <1>2, <2>1, Clocks
  <2> QED  BY <1>2, <2>1, <2>2 DEF Outlasts
<1>7. CASE Expire /\ ~ Tick
  <2>1. CASE Left(t)' = Left(t)
    BY <1>5, <1>7, <2>1
  <2>2. CASE Left(t) = 0
    <3>1. jwt[t] = 0
      BY <1>2, <2>2, Clocks DEF Outlasts
    <3> QED  BY <1>3, <1>7, <3>1 DEF Outlasts
  <2> QED  BY <1>1, <1>7, <2>1, <2>2, KeysRunDown
<1>8. CASE (Restart \/ UNCHANGED vars) /\ ~ Tick
  BY <1>5, <1>8 DEF Restart, vars, Left
<1>9. ASSUME NEW c \in Calls, SetAccess(c), ~ Tick  PROVE Outlasts(t)'
  <2>1. t # Access(session[c]) \/ Left(t)' = Left(t)
    <3>1. session[c] \notin handed /\ pc[c] = "set_access"
      BY <1>9 DEF SetAccess, Typed, LoginsOK, LoginOK, LoginStages
    <3>2. \A d \in Calls : pc[d] = "set_refresh" => session[d] # session[c]
      BY <3>1 DEF Typed, LoginsOK, LoginStages
    <3>3. session[c] # s
      BY <3>1, <3>2 DEF UnderWay
    <3> QED  BY <3>3 DEF Access
  <2> QED  BY <1>1, <1>5, <1>9, <2>1, SetAccessKey
<1>10. ASSUME NEW c \in Calls, DeleteAccess(c), ~ Tick  PROVE Outlasts(t)'
  <2>1. header[c].jwt # t
    <3>1. header[c].jwt # NULL => out[header[c].jwt] # "no"
      BY <1>10 DEF DeleteAccess, Typed, RequestsOK, RequestOK, LogoutStages, Logouts
    <3> QED  BY <1>1, <1>4, <3>1, NullAssumption
  <2> QED  BY <1>1, <1>5, <1>10, <2>1, DeleteAccessKey
<1>11. ASSUME NEW c \in Calls, Invoke(c) \/ Proceed(c), ~ SetAccess(c), ~ DeleteAccess(c), ~ Tick
       PROVE  Outlasts(t)'
  BY <1>1, <1>5, <1>11, OtherKeys
<1> QED  BY <1>6, <1>7, <1>8, <1>9, <1>10, <1>11 DEF Step

\* Each step keeps ClocksOK.
LEMMA ClocksStep == Typed /\ ClocksOK /\ [Step]_vars => ClocksOK'
<1> SUFFICES ASSUME Typed, ClocksOK, [Step]_vars, NEW s \in Sessions
             PROVE  ClockOK(Access(s))'
  BY DEF ClocksOK
<1> DEFINE t == Access(s)
<1>1. t \in Tokens /\ t.session = s
  BY KeyFacts DEF Access, Kinds
<1>2. jwt'[t] # NULL => jwt'[t] <= TTL("access")
  BY LifetimeStep DEF ClocksOK
<1>3. ASSUME out'[t] = "no", UnderWay(s)'  PROVE Outlasts(t)'
  <2>1. out[t] = "no"
    BY <1>1, <1>3, NothingForgotten DEF Typed
  <2>2. CASE UnderWay(s)
    BY <1>1, <1>3, <2>1, <2>2, OutlastsStep DEF ClocksOK, ClockOK
  <2>3. CASE ~ UnderWay(s)
    <3>1. PICK c \in Calls : SetAccess(c) /\ session[c] = s /\ pc'[c] = "set_refresh"
      BY <1>3, <2>3, UnderWayBy
    <3>2. Left(t)' = IF TTL("access") = 0 THEN NoExpiry ELSE TTL("access")
      BY <1>1, <3>1, SetAccessKey
    <3>3. jwt[t] # NULL
      BY <3>1 DEF SetAccess, Typed, LoginsOK, LoginOK, LoginStages
    <3>4. jwt'[t] = jwt[t]
      BY <3>1 DEF SetAccess
    <3>5. jwt'[t] \in Nat /\ jwt'[t] <= TTL("access")
      BY <1>1, <1>2, <3>3, <3>4, Clocks
    <3> QED  BY <3>2, <3>5, Clocks DEF Outlasts
  <2> QED  BY <2>2, <2>3
<1> QED  BY <1>1, <1>2, <1>3 DEF ClockOK, UnderWay

\* Nobody else's logout, half-failed login or expiry ends a session early: as
\* long as the access token is valid and no logout was asked for, its key is
\* in Redis, whatever the configured lifetimes.
THEOREM SessionsStayUsable == Spec => []SessionUsable
<1>0. ASSUME Typed, NEW s \in Sessions, ClocksOK, Forget(s)  PROVE ClocksOK'
  <2>1. \A r \in Sessions : Access(r) \in Tokens /\ Access(r).session = r
    BY KeyFacts DEF Access, Kinds
  <2>2. /\ jwt'[Access(s)] = NULL
        /\ \A r \in Sessions \ {s} : jwt'[Access(r)] = jwt[Access(r)]
        /\ \A r \in Sessions \ {s} : out'[Access(r)] = out[Access(r)]
    BY <1>0, <2>1 DEF Forget
  <2>3. ~ UnderWay(s)' /\ \A r \in Sessions : UnderWay(r)' => UnderWay(r)
    BY <1>0 DEF Forget, UnderWay, calls
  <2>4. UNCHANGED redis
    BY <1>0 DEF Forget
  <2> SUFFICES ASSUME NEW r \in Sessions  PROVE ClockOK(Access(r))'
    BY DEF ClocksOK
  <2>5. ClockOK(Access(r))
    BY <1>0 DEF ClocksOK
  <2> QED  BY <2>1, <2>2, <2>3, <2>4, <2>5 DEF ClockOK, Outlasts, Left, UnderWay
<1>1. Init => ClocksOK
  <2>1. \A s \in Sessions : Access(s) \in Tokens
    BY KeyFacts DEF Access, Kinds
  <2> QED  BY <2>1 DEF Init, ClocksOK, ClockOK, UnderWay
<1>2. Typed /\ ClocksOK => SessionUsable
  <2> SUFFICES ASSUME Typed, ClocksOK, NEW s \in handed,
                      out[Access(s)] = "no", jwt[Access(s)] > 0
               PROVE  Left(Access(s)) # NULL
    BY DEF SessionUsable, Access, Left
  <2>1. s \in Sessions
    BY DEF Typed, TypeOK
  <2>2. Access(s) \in Tokens /\ Access(s).session = s
    BY <2>1, KeyFacts DEF Access, Kinds
  <2>3. Outlasts(Access(s))
    BY <2>1, <2>2 DEF ClocksOK, ClockOK, UnderWay
  <2> QED  BY <2>3, Clocks DEF Outlasts
<1>3. Typed /\ ClocksOK /\ [Next]_vars => ClocksOK'
  BY <1>0, ClocksStep DEF Next
<1> QED  BY <1>1, <1>2, <1>3, TypedAlways, PTL DEF Spec

----
(***************************************************************************)
(* What never expires opens nothing.                                       *)
(***************************************************************************)
\* What Redis holds for a token under either prefix.
Kept(t) == {redis[AccessKey(Bare(t))], redis[RefreshKey(Bare(t))]}

\* No token has more than its lifetime left; the tokens of a session are
\* minted together; a key that stays is that of a token minted without one.
LifeOK(t) ==
    /\ jwt[t] # NULL => jwt[t] <= TTL(t.kind)
    /\ jwt[Access(t.session)] # NULL => jwt[t] # NULL
    /\ NoExpiry \in Kept(t) => TTL(t.kind) = 0 /\ jwt[t] # NULL

LifesOK == \A t \in Tokens : LifeOK(t)

\* Tokens, kinds and times.
LEMMA TokenFacts ==
    ASSUME Typed, NEW t \in Tokens
    PROVE  /\ t.session \in Sessions /\ t.kind \in Kinds /\ Access(t.session) \in Tokens
           /\ t = [session |-> t.session, kind |-> t.kind]
           /\ TTL(t.kind) \in Nat /\ jwt[t] \in Nat \cup {NULL}
           /\ NULL \notin Nat /\ NoExpiry \notin Nat /\ NoExpiry # NULL
  BY NullAssumption, LivesOK, KeyFacts DEF Tokens, Kinds, Access, Typed, TypeOK

\* A SET that stays is one for a kind without a lifetime.
LEMMA SetKeyForTokens ==
    ASSUME Typed, NEW u \in Tokens, NEW t \in Tokens,
           \/ SetKey(AccessKey(Bare(u)), u.kind)
           \/ SetKey(RefreshKey(Bare(u)), u.kind),
           NoExpiry \in Kept(t)'
    PROVE  NoExpiry \in Kept(t) \/ (t = u /\ TTL(t.kind) = 0)
<1>1. \A x, y : RefreshKey(Bare(x)) = RefreshKey(Bare(y)) => x = y
  BY DEF RefreshKey, Bare
<1>2. TTL(u.kind) \in Nat /\ NoExpiry \notin Nat
  BY TokenFacts
<1>3. CASE SetKey(AccessKey(Bare(u)), u.kind)
  BY <1>2, <1>3, KeyFacts DEF SetKey, Kept, Typed, TypeOK
<1>4. CASE SetKey(RefreshKey(Bare(u)), u.kind)
  BY <1>1, <1>2, <1>4, KeyFacts DEF SetKey, Kept, Typed, TypeOK
<1> QED  BY <1>3, <1>4

\* A DEL leaves no key that was not there.
LEMMA DelForTokens ==
    ASSUME Typed, NEW key, Del(key), NEW t \in Tokens, NoExpiry \in Kept(t)'
    PROVE  NoExpiry \in Kept(t)
  BY KeyFacts, NullAssumption DEF Del, Kept, Typed, TypeOK

\* Each step of the service keeps LifesOK.
LEMMA LifesStep == Typed /\ LifesOK /\ [Step]_vars => LifesOK'
<1> SUFFICES ASSUME Typed, LifesOK, [Step]_vars, NEW t \in Tokens  PROVE LifeOK(t)'
  BY DEF LifesOK
<1>1. LifeOK(t)
  BY DEF LifesOK
<1>2. /\ t.session \in Sessions /\ t.kind \in Kinds /\ Access(t.session) \in Tokens
      /\ TTL(t.kind) \in Nat /\ jwt[t] \in Nat \cup {NULL}
      /\ NULL \notin Nat /\ NoExpiry \notin Nat /\ NoExpiry # NULL
  BY TokenFacts
<1>3. ASSUME UNCHANGED jwt, NoExpiry \in Kept(t)' => NoExpiry \in Kept(t)  PROVE LifeOK(t)'
  BY <1>1, <1>3 DEF LifeOK, Kept
<1>4. ASSUME NEW c \in Calls, Login(c)  PROVE LifeOK(t)'
  <2>1. PICK s \in Sessions :
          jwt' = [u \in Tokens |-> IF u.session = s THEN TTL(u.kind) ELSE jwt[u]]
    BY <1>4 DEF Login
  <2>2. redis' = redis
    BY <1>4 DEF Login
  <2>3. Access(t.session).session = t.session
    BY DEF Access
  <2>4. jwt'[t] = IF t.session = s THEN TTL(t.kind) ELSE jwt[t]
    BY <2>1
  <2>5. jwt'[Access(t.session)] = IF t.session = s THEN TTL(Access(t.session).kind)
                                  ELSE jwt[Access(t.session)]
    BY <1>2, <2>1, <2>3
  <2>6. NoExpiry \in Kept(t)' => NoExpiry \in Kept(t)
    BY <2>2 DEF Kept
  <2> QED  BY <1>1, <1>2, <2>4, <2>5, <2>6 DEF LifeOK
<1>5. ASSUME NEW c \in Calls, SetAccess(c) \/ SetRefresh(c)  PROVE LifeOK(t)'
  <2>1. /\ session[c] \in Sessions /\ jwt[Access(session[c])] # NULL
        /\ UNCHANGED jwt
    BY <1>5 DEF SetAccess, SetRefresh, Typed, LoginsOK, LoginOK, LoginStages
  <2>2. CASE UNCHANGED redis
    BY <1>3, <2>1, <2>2 DEF Kept
  <2>3. ASSUME NEW kind \in Kinds,
               \/ SetKey(AccessKey(Own(c, kind)), kind)
               \/ SetKey(RefreshKey(Own(c, kind)), kind)
        PROVE  LifeOK(t)'
    <3> DEFINE u == [session |-> session[c], kind |-> kind]
    <3>1. u \in Tokens /\ u.kind = kind /\ u.session = session[c] /\ Own(c, kind) = Bare(u)
      BY <2>1 DEF Tokens, Own
    <3>2. SetKey(AccessKey(Bare(u)), u.kind) \/ SetKey(RefreshKey(Bare(u)), u.kind)
      BY <2>3, <3>1
    <3>3. NoExpiry \in Kept(t)' => NoExpiry \in Kept(t) \/ (t = u /\ TTL(t.kind) = 0)
      BY <3>1, <3>2, SetKeyForTokens
    <3>4. t = u => jwt[t] # NULL
      BY <1>1, <2>1, <3>1 DEF LifeOK
    <3> QED  BY <1>1, <2>1, <3>3, <3>4 DEF LifeOK
  <2> QED  BY <1>5, <2>2, <2>3 DEF SetAccess, SetRefresh, Kinds
<1>6. ASSUME NEW c \in Calls, DeleteAccess(c) \/ DeleteRefresh(c)  PROVE LifeOK(t)'
  <2>1. UNCHANGED jwt
    BY <1>6 DEF DeleteAccess, DeleteRefresh
  <2>2. UNCHANGED redis \/ \E key : Del(key)
    BY <1>6 DEF DeleteAccess, DeleteRefresh
  <2>3. CASE UNCHANGED redis
    BY <1>3, <2>1, <2>3 DEF Kept
  <2>4. CASE \E key : Del(key)
    BY <1>3, <2>1, <2>4, DelForTokens
  <2> QED  BY <2>2, <2>3, <2>4
<1>7. ASSUME NEW c \in Calls, Invoke(c) \/ Proceed(c), ~ Login(c), ~ SetAccess(c), ~ SetRefresh(c),
             ~ DeleteAccess(c), ~ DeleteRefresh(c)
      PROVE  LifeOK(t)'
  <2>1. UNCHANGED <<redis, jwt>>
    BY <1>7 DEF Invoke, Proceed, LoginDenied, Protected, LogoutREST, LogoutGRPC,
                Authenticate, Arrive, GetKey, Parse, Return
  <2> QED  BY <1>3, <2>1 DEF Kept
<1>8. CASE Restart \/ UNCHANGED vars
  <2>1. UNCHANGED <<redis, jwt>>
    BY <1>8 DEF Restart, vars
  <2> QED  BY <1>3, <2>1 DEF Kept
<1>9. CASE Tick
  <2>1. \A n \in Nat \cup {NULL} : n # NULL => OneLess(n) \in Nat /\ OneLess(n) <= n
    BY <1>2 DEF OneLess
  <2>2. OneLess(NULL) = NULL /\ \A n \in Lives \cup {NULL, NoExpiry} : OneLess(n) = NoExpiry => n = NoExpiry
    BY <1>2, LivesOK
  <2>3. jwt'[t] = OneLess(jwt[t]) /\ jwt'[Access(t.session)] = OneLess(jwt[Access(t.session)])
    BY <1>2, <1>9 DEF Tick
  <2>4. NoExpiry \in Kept(t)' => NoExpiry \in Kept(t)
    BY <1>9, <2>2, KeyFacts DEF Tick, Kept, Typed, TypeOK
  <2>5. CASE jwt[t] = NULL
    BY <1>1, <2>2, <2>3, <2>4, <2>5 DEF LifeOK
  <2>6. CASE jwt[t] # NULL
    <3>1. jwt[t] \in Nat /\ jwt[t] <= TTL(t.kind)
      BY <1>1, <1>2, <2>6 DEF LifeOK
    <3>2. jwt'[t] \in Nat /\ jwt'[t] <= TTL(t.kind)
      BY <1>2, <2>1, <2>3, <3>1
    <3> QED  BY <1>1, <1>2, <2>4, <3>2 DEF LifeOK
  <2> QED  BY <2>5, <2>6
<1>10. CASE Expire
  <2>1. UNCHANGED jwt
    BY <1>10 DEF Expire
  <2>2. NoExpiry \in Kept(t)' => NoExpiry \in Kept(t)
    BY <1>2, <1>10, KeyFacts DEF Expire, Kept, Typed, TypeOK
  <2> QED  BY <1>3, <2>1, <2>2
<1> QED  BY <1>4, <1>5, <1>6, <1>7, <1>8, <1>9, <1>10 DEF Step

\* A lifetime missing from the configuration makes keys that stay, but no
\* token that such a key could open an endpoint for.
THEOREM ForeverIsHarmless == Spec => []ForeverKeysAreDead
<1>1. Init => LifesOK
  <2>1. \A t \in Tokens : Access(t.session) \in Tokens
    BY KeyFacts DEF Tokens, Access, Kinds
  <2> QED  BY <2>1, KeyFacts, NullAssumption DEF Init, LifesOK, LifeOK, Kept
<1>2. ASSUME Typed, NEW s \in Sessions, LifesOK, Forget(s)  PROVE LifesOK'
  <2> SUFFICES ASSUME NEW t \in Tokens  PROVE LifeOK(t)'
    BY DEF LifesOK
  <2>1. LifeOK(t) /\ NoExpiry # NULL /\ Access(t.session) \in Tokens
    BY <1>2, TokenFacts DEF LifesOK
  <2>2. Access(t.session).session = t.session
    BY DEF Access
  <2>3. UNCHANGED redis
    BY <1>2 DEF Forget
  <2>4. CASE t.session = s
    BY <1>2, <2>1, <2>2, <2>3, <2>4 DEF Forget, LifeOK, Kept
  <2>5. CASE t.session # s
    BY <1>2, <2>1, <2>2, <2>3, <2>5 DEF Forget, LifeOK, Kept
  <2> QED  BY <2>4, <2>5
<1>3. Typed /\ LifesOK /\ [Next]_vars => LifesOK'
  BY <1>2, LifesStep DEF Next
<1>4. Typed /\ LifesOK => ForeverKeysAreDead
  <2> SUFFICES ASSUME Typed, LifesOK, NEW t \in Tokens, NoExpiry \in Kept(t)
               PROVE  TTL(t.kind) = 0 /\ jwt[t] = 0
    BY DEF ForeverKeysAreDead, Kept
  <2> QED  BY TokenFacts DEF LifesOK, LifeOK
<1> QED  BY <1>1, <1>3, <1>4, TypedAlways, PTL DEF Spec

----
(***************************************************************************)
(* Keys go in time.                                                        *)
(***************************************************************************)
\* KeysGoInTime of one step.
GoInTime ==
    \A k \in Keys : redis[k] \notin {NULL, 0} /\ redis'[k] = NULL =>
        \E c \in Calls : pc[c] = "del_access" /\ k = AccessKey(Bare(header[c].jwt))

\* A SET stores a key with time to live, or for good.
LEMMA SetKeyStays ==
    ASSUME TypeOK, NEW key, NEW kind \in Kinds, SetKey(key, kind), NEW k \in Keys
    PROVE  redis'[k] # NULL \/ redis'[k] = redis[k]
  BY LivesOK, NullAssumption DEF SetKey, TypeOK

\* A DEL takes the key it names and no other.
LEMMA DelTakesOne ==
    ASSUME TypeOK, NEW key, Del(key), NEW k \in Keys
    PROVE  redis'[k] = redis[k] \/ k = key
  BY DEF Del, TypeOK

\* Each step but a logout takes only keys whose time is up, a logout the
\* access key of its own token.
LEMMA GoesStep == Typed /\ [Next]_vars => [GoInTime]_vars
<1> SUFFICES ASSUME Typed, Next, NEW k \in Keys, redis[k] \notin {NULL, 0}, redis'[k] = NULL
             PROVE  \E c \in Calls : pc[c] = "del_access" /\ k = AccessKey(Bare(header[c].jwt))
  BY DEF GoInTime
<1>1. TypeOK /\ redis'[k] # redis[k]
  BY DEF Typed
<1>2. ASSUME NEW c \in Calls, SetAccess(c) \/ SetRefresh(c)  PROVE FALSE
  <2>1. \/ SetKey(AccessKey(Own(c, "access")), "access")
        \/ SetKey(RefreshKey(Own(c, "refresh")), "refresh")
    BY <1>1, <1>2 DEF SetAccess, SetRefresh
  <2> QED  BY <1>1, <2>1, SetKeyStays DEF Kinds
<1>3. ASSUME NEW c \in Calls, DeleteAccess(c)
      PROVE  pc[c] = "del_access" /\ k = AccessKey(Bare(header[c].jwt))
  <2>1. Del(LogoutKey(c)) /\ pc[c] = "del_access"
    BY <1>1, <1>3 DEF DeleteAccess
  <2>2. k = LogoutKey(c)
    BY <1>1, <2>1, DelTakesOne
  <2>3. header[c] \in Headers
    BY <2>1 DEF Typed, RequestsOK, RequestOK, LogoutStages
  <2>4. \/ k = AccessKey(TrimBearer(header[c]))
        \/ k = AccessKey(header[c])
    BY <2>2 DEF LogoutKey
  <2>5. ~ k[2].bearer
    BY DEF Keys, AccessKey, RefreshKey, Bare
  <2> QED  BY <2>1, <2>3, <2>4, <2>5 DEF TrimBearer, Bare, Headers, AccessKey
<1>4. ASSUME NEW c \in Calls, DeleteRefresh(c)  PROVE FALSE
  <2>1. RefreshKey(Star) \notin Keys
    BY NullAssumption DEF Keys, RefreshKey, AccessKey, Star, Bare
  <2> QED  BY <1>1, <1>4, <2>1 DEF DeleteRefresh, Del
<1>5. ASSUME NEW c \in Calls, Invoke(c) \/ Proceed(c),
             ~ SetAccess(c), ~ SetRefresh(c), ~ DeleteAccess(c), ~ DeleteRefresh(c)
      PROVE  FALSE
  BY <1>1, <1>5 DEF Invoke, Proceed, LoginDenied, Login, Protected, LogoutREST, LogoutGRPC,
                    Authenticate, Arrive, GetKey, Parse, Return
<1>6. ~ Tick
  <2>1. redis[k] \in Nat \cup {NoExpiry}
    BY <1>1, LivesOK DEF TypeOK
  <2> QED  BY <2>1, NullAssumption DEF Tick, OneLess
<1>7. ~ Expire
  BY <1>1 DEF Expire, TypeOK
<1>8. ~ Restart /\ \A s \in Sessions : ~ Forget(s)
  BY <1>1 DEF Restart, Forget
<1> QED  BY <1>2, <1>3, <1>4, <1>5, <1>6, <1>7, <1>8 DEF Next, Step

\* Whatever the headers of the logouts and however many sessions share Redis,
\* a key that has time left goes only by a logout with its own token; no
\* refresh key ever goes before its time.
THEOREM KeysAlwaysGoInTime == Spec => KeysGoInTime
<1>1. Spec => [][GoInTime]_vars
  BY TypedAlways, GoesStep, PTL DEF Spec
<1> QED  BY <1>1, PTL DEF KeysGoInTime, GoInTime

====
