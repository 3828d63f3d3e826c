---- MODULE Sessions ----
(***************************************************************************)
(* Sessions: AuthLogin and CheckUserToken of internal/controllers/auth.go  *)
(* and the two AuthLogout handlers, over Redis and the clock.              *)
(*                                                                         *)
(* A login mints an access and a refresh JWT, each with an expiry of its   *)
(* own, and stores a key in Redis for each, "access_token:<jwt>" and       *)
(* "refresh_token:<jwt>", with the same time to live.  A protected         *)
(* endpoint first asks Redis for the access key and then verifies the JWT. *)
(* A logout deletes keys.  Calls run concurrently; each Redis command of a *)
(* call is a step, and any of them may fail, applied or not.               *)
(*                                                                         *)
(* Time is counted in seconds, the precision of the exp claim.  A JWT      *)
(* minted with n seconds to live is invalid after n ticks.  A key set with *)
(* n seconds to live survives n ticks and expires before the next one.     *)
(***************************************************************************)
EXTENDS Naturals

CONSTANTS
    Calls,       \* goroutines serving a request
    Sessions,    \* logins that get as far as minting tokens
    AccessTTL,   \* redis.access_token_ttl
    RefreshTTL,  \* redis.refresh_token_ttl
    Ops,         \* operations the clients of a run use
    NoExpiry,    \* remaining time of a key without one
    NULL

Kinds  == {"access", "refresh"}
Tokens == [session : Sessions, kind : Kinds]
AllOps == {"AuthLogin", "Protected", "LogoutREST", "LogoutGRPC"}
Stages == {"idle", "set_access", "set_refresh", "get", "parse",
           "del_access", "del_refresh", "done"}

ASSUME TTLAssumption == AccessTTL \in Nat /\ RefreshTTL \in Nat
ASSUME OpsAssumption == Ops \subseteq AllOps
ASSUME NullAssumption ==
    /\ NULL \notin Nat \cup Tokens \cup Sessions
    /\ NoExpiry \notin Nat \cup {NULL}

TTL(kind) == IF kind = "access" THEN AccessTTL ELSE RefreshTTL
Lives     == 0..(IF AccessTTL > RefreshTTL THEN AccessTTL ELSE RefreshTTL)

(***************************************************************************)
(* Authorization headers and Redis keys.  A header is a JWT, or NULL for   *)
(* any other text, with or without "Bearer " in front.  A key is a prefix  *)
(* and the text behind it, itself such a text: the "*" of the logout       *)
(* handlers, which DEL takes literally, is one more that is no JWT.  Only  *)
(* keys ending in a bare JWT are ever set.                                 *)
(***************************************************************************)
Headers == [bearer : BOOLEAN, jwt : Tokens \cup {NULL}]

ASSUME HeadersAssumption == NULL \notin Headers

\* strings.TrimPrefix(header, "Bearer ")
TrimBearer(h) == [bearer |-> FALSE, jwt |-> h.jwt]

AccessKey(text)  == <<"access_token", text>>
RefreshKey(text) == <<"refresh_token", text>>

Bare(token) == [bearer |-> FALSE, jwt |-> token]
Star        == [bearer |-> FALSE, jwt |-> NULL]

Keys == {AccessKey(Bare(t)) : t \in Tokens} \cup {RefreshKey(Bare(t)) : t \in Tokens}

VARIABLES
    redis,    \* seconds each key has left, NULL where there is no key
    jwt,      \* seconds each minted JWT has left, NULL before it is minted
    pc,       \* where each call is
    op,       \* what each call does
    session,  \* the session an AuthLogin creates
    header,   \* the Authorization header of the other calls
    reply,    \* what each finished call answered
    handed,   \* history: sessions whose tokens a client received
    out,      \* history: tokens a logout was asked for, and finished for
    late,     \* history: the logout had finished when this call arrived
    blind     \* history: Redis failed this call's GET

vars == <<redis, jwt, pc, op, session, header, reply, handed, out, late, blind>>
calls == <<op, session, header, late>>

Finish(c, r) ==
    /\ pc' = [pc EXCEPT ![c] = "done"]
    /\ reply' = [reply EXCEPT ![c] = r]

Continue(c, stage) ==
    /\ pc' = [pc EXCEPT ![c] = stage]
    /\ UNCHANGED reply

(***************************************************************************)
(* AuthLogin.                                                              *)
(***************************************************************************)
\* Unknown email, wrong password, failed query or failed token id.
LoginDenied(c) ==
    /\ pc[c] = "idle" /\ "AuthLogin" \in Ops
    /\ op' = [op EXCEPT ![c] = "AuthLogin"]
    /\ Finish(c, "error")
    /\ UNCHANGED <<redis, jwt, session, header, handed, out, late, blind>>

\* The password matched; createToken mints both tokens.
Login(c) ==
    /\ pc[c] = "idle" /\ "AuthLogin" \in Ops
    /\ \E s \in Sessions :
         /\ jwt[[session |-> s, kind |-> "access"]] = NULL
         /\ jwt' = [t \in Tokens |-> IF t.session = s THEN TTL(t.kind) ELSE jwt[t]]
         /\ session' = [session EXCEPT ![c] = s]
    /\ op' = [op EXCEPT ![c] = "AuthLogin"]
    /\ Continue(c, "set_access")
    /\ UNCHANGED <<redis, header, handed, out, late, blind>>

SetKeyForever(key, kind) == redis' = [redis EXCEPT ![key] = NoExpiry]   \* mutant

SetKeyInMinutes(key, kind) == redis' = [redis EXCEPT ![key] = 60 * TTL(kind)]   \* mutant

SetKeyShort(key, kind) == redis' = [redis EXCEPT ![key] = TTL(kind) - 1]   \* mutant

\* SET key "valid" with the time to live configured for its kind; none
\* configured means a key that stays.
SetKey(key, kind) ==
    redis' = [redis EXCEPT ![key] = IF TTL(kind) = 0 THEN NoExpiry ELSE TTL(kind)]

Own(c, kind) == Bare([session |-> session[c], kind |-> kind])

SetAccess(c) ==
    /\ pc[c] = "set_access"
    /\ \/ SetKey(AccessKey(Own(c, "access")), "access") /\ Continue(c, "set_refresh")
       \/ SetKey(AccessKey(Own(c, "access")), "access") /\ Finish(c, "error")
       \/ UNCHANGED redis /\ Finish(c, "error")
    /\ UNCHANGED <<calls, jwt, handed, out, blind>>

SetRefreshAsAccess(c) ==   \* mutant
    /\ pc[c] = "set_refresh"
    /\ SetKey(AccessKey(Own(c, "refresh")), "refresh")
    /\ handed' = handed \cup {session[c]} /\ Finish(c, "ok")
    /\ UNCHANGED <<calls, jwt, out, blind>>

\* With the second key stored the tokens go to the client.
SetRefresh(c) ==
    /\ pc[c] = "set_refresh"
    /\ \/ /\ SetKey(RefreshKey(Own(c, "refresh")), "refresh")
          /\ handed' = handed \cup {session[c]} /\ Finish(c, "ok")
       \/ /\ SetKey(RefreshKey(Own(c, "refresh")), "refresh")
          /\ UNCHANGED handed /\ Finish(c, "error")
       \/ UNCHANGED <<redis, handed>> /\ Finish(c, "error")
    /\ UNCHANGED <<calls, jwt, out, blind>>

(***************************************************************************)
(* Requests with an Authorization header.  Clients know the tokens they    *)
(* were handed, and may send any other text.                               *)
(***************************************************************************)
Arrive(c, o, h) ==
    /\ pc[c] = "idle" /\ o \in Ops
    /\ h.jwt # NULL => h.jwt.session \in handed
    /\ op' = [op EXCEPT ![c] = o]
    /\ header' = [header EXCEPT ![c] = h]
    /\ late' = [late EXCEPT ![c] = h.jwt # NULL /\ out[h.jwt] = "done"]

Asked(h) == IF h.jwt = NULL \/ out[h.jwt] = "done" THEN out
                            ELSE [out EXCEPT ![h.jwt] = "asked"]

\* checkAuthUser in front of a protected handler, of the gRPC AuthLogout too.
Authenticate(c, o, h) ==
    /\ Arrive(c, o, h)
    /\ \/ h.bearer /\ Continue(c, "get")
       \/ ~ h.bearer /\ Finish(c, "unauthorized")
    /\ UNCHANGED <<redis, jwt, session, handed, blind>>

Protected(c) ==
    \E h \in Headers : Authenticate(c, "Protected", h) /\ UNCHANGED out

\* The REST AuthLogout does not authenticate.
LogoutREST(c) ==
    \E h \in Headers :
        /\ Arrive(c, "LogoutREST", h)
        /\ out' = Asked(h)
        /\ Continue(c, "del_access")
        /\ UNCHANGED <<redis, jwt, session, handed, blind>>

LogoutGRPC(c) ==
    \E h \in Headers : Authenticate(c, "LogoutGRPC", h) /\ out' = Asked(h)

\* GET access_token:<jwt>.  Only a missing key turns the caller away; any
\* other failure of Redis is passed over.
GetKey(c) ==
    LET key   == AccessKey(TrimBearer(header[c]))
        found == key \in Keys /\ redis[key] # NULL
    IN  /\ pc[c] = "get"
        /\ \/ found /\ Continue(c, "parse") /\ UNCHANGED blind
           \/ ~ found /\ Finish(c, "unauthorized") /\ UNCHANGED blind
           \/ Continue(c, "parse") /\ blind' = [blind EXCEPT ![c] = TRUE]
        /\ UNCHANGED <<calls, redis, jwt, handed, out>>

ParseIgnoringExpiry(c) ==   \* mutant
    /\ pc[c] = "parse"
    /\ IF header[c].jwt = NULL THEN Finish(c, "unauthorized")
       ELSE IF op[c] = "LogoutGRPC" THEN Continue(c, "del_access") ELSE Finish(c, "ok")
    /\ UNCHANGED <<calls, redis, jwt, handed, out, blind>>

\* jwt.ParseWithClaims: signature and expiry, not the kind of the token.
Parse(c) ==
    LET valid == header[c].jwt # NULL /\ jwt[header[c].jwt] \notin {NULL, 0}
    IN  /\ pc[c] = "parse"
        /\ \/ ~ valid /\ Finish(c, "unauthorized")
           \/ valid /\ op[c] = "LogoutGRPC" /\ Continue(c, "del_access")
           \/ valid /\ op[c] # "LogoutGRPC" /\ Finish(c, "ok")
        /\ UNCHANGED <<calls, redis, jwt, handed, out, blind>>

(***************************************************************************)
(* The deletions of AuthLogout.                                            *)
(***************************************************************************)
DelByPrefix(key) ==   \* mutant
    redis' = [k \in Keys |-> IF k[1] = key[1] THEN NULL ELSE redis[k]]

Del(key) == redis' = IF key \in Keys THEN [redis EXCEPT ![key] = NULL] ELSE redis

LogoutKeyUntrimmed(c) == AccessKey(header[c])   \* mutant

\* The gRPC handler does not trim "Bearer " off.
LogoutKey(c) ==
    IF op[c] = "LogoutREST" THEN AccessKey(TrimBearer(header[c]))
                            ELSE AccessKey(header[c])

DeleteAccess(c) ==
    /\ pc[c] = "del_access"
    /\ \/ Del(LogoutKey(c)) /\ Continue(c, "del_refresh")
       \/ Del(LogoutKey(c)) /\ Finish(c, "error")
       \/ UNCHANGED redis /\ Finish(c, "error")
    /\ UNCHANGED <<calls, jwt, handed, out, blind>>

\* DEL refresh_token:*.  The gRPC handler then fails to encode its empty
\* answer, so it reports an error whatever it did.
DeleteRefresh(c) ==
    LET t == header[c].jwt
    IN  /\ pc[c] = "del_refresh"
        /\ \/ /\ Del(RefreshKey(Star))
              /\ Finish(c, IF op[c] = "LogoutREST" THEN "ok" ELSE "error")
              /\ out' = IF t = NULL THEN out ELSE [out EXCEPT ![t] =
                          IF op[c] = "LogoutREST" THEN "done" ELSE @]
           \/ Finish(c, "error") /\ UNCHANGED <<redis, out>>
        /\ UNCHANGED <<calls, jwt, handed, blind>>

(***************************************************************************)
(* The rest of the world.                                                  *)
(***************************************************************************)
Return(c) ==
    /\ pc[c] = "done"
    /\ pc' = [pc EXCEPT ![c] = "idle"]
    /\ op' = [op EXCEPT ![c] = NULL]
    /\ session' = [session EXCEPT ![c] = NULL]
    /\ header' = [header EXCEPT ![c] = NULL]
    /\ reply' = [reply EXCEPT ![c] = NULL]
    /\ late' = [late EXCEPT ![c] = FALSE]
    /\ blind' = [blind EXCEPT ![c] = FALSE]
    /\ UNCHANGED <<redis, jwt, handed, out>>

\* The process dies and is started again; Redis and the tokens live on.
Restart ==
    /\ pc' = [c \in Calls |-> "idle"]
    /\ op' = [c \in Calls |-> NULL]
    /\ session' = [c \in Calls |-> NULL]
    /\ header' = [c \in Calls |-> NULL]
    /\ reply' = [c \in Calls |-> NULL]
    /\ late' = [c \in Calls |-> FALSE]
    /\ blind' = [c \in Calls |-> FALSE]
    /\ UNCHANGED <<redis, jwt, handed, out>>

OneLess(n) == IF n \in {NULL, NoExpiry, 0} THEN n ELSE n - 1

\* A second passes.
Tick ==
    /\ \A k \in Keys : redis[k] # 0
    /\ redis' = [k \in Keys |-> OneLess(redis[k])]
    /\ jwt' = [t \in Tokens |-> OneLess(jwt[t])]
    /\ UNCHANGED <<calls, pc, reply, handed, out, blind>>

Expire ==
    \E k \in Keys :
        /\ redis[k] = 0
        /\ redis' = [redis EXCEPT ![k] = NULL]
        /\ UNCHANGED <<calls, jwt, pc, reply, handed, out, blind>>

\* The tokens of a session have run out, their keys are gone, and no request
\* with them is on its way: whoever still sends them sends a text that is no
\* JWT.  The name of the session is free for another login.
Forget(s) ==
    /\ \A t \in Tokens : t.session = s =>
         jwt[t] = 0 /\ redis[AccessKey(Bare(t))] = NULL /\ redis[RefreshKey(Bare(t))] = NULL
    /\ \A c \in Calls :
         /\ session[c] # s
         /\ header[c] # NULL /\ header[c].jwt # NULL => header[c].jwt.session # s
    /\ jwt' = [t \in Tokens |-> IF t.session = s THEN NULL ELSE jwt[t]]
    /\ handed' = handed \ {s}
    /\ out' = [t \in Tokens |-> IF t.session = s THEN "no" ELSE out[t]]
    /\ UNCHANGED <<calls, redis, pc, reply, blind>>

----
Init ==
    /\ redis = [k \in Keys |-> NULL]
    /\ jwt = [t \in Tokens |-> NULL]
    /\ pc = [c \in Calls |-> "idle"]
    /\ op = [c \in Calls |-> NULL]
    /\ session = [c \in Calls |-> NULL]
    /\ header = [c \in Calls |-> NULL]
    /\ reply = [c \in Calls |-> NULL]
    /\ handed = {}
    /\ out = [t \in Tokens |-> "no"]
    /\ late = [c \in Calls |-> FALSE]
    /\ blind = [c \in Calls |-> FALSE]

Invoke(c) ==
    LoginDenied(c) \/ Login(c) \/ Protected(c) \/ LogoutREST(c) \/ LogoutGRPC(c)

Proceed(c) ==
    \/ SetAccess(c) \/ SetRefresh(c) \/ GetKey(c) \/ Parse(c)
    \/ DeleteAccess(c) \/ DeleteRefresh(c) \/ Return(c)

Step ==
    \/ \E c \in Calls : Invoke(c) \/ Proceed(c)
    \/ Restart \/ Tick \/ Expire

Next == Step \/ \E s \in Sessions : Forget(s)

Spec == Init /\ [][Next]_vars

\* The clock moves on and Redis drops what has expired.
FairSpec == Spec /\ WF_vars(Tick) /\ WF_vars(Expire)

----
(***************************************************************************)
(* Properties.                                                             *)
(***************************************************************************)

\* Every variable holds a value of its kind.
TypeOK ==
    /\ redis \in [Keys -> Lives \cup {NULL, NoExpiry}]
    /\ jwt \in [Tokens -> Lives \cup {NULL}]
    /\ pc \in [Calls -> Stages]
    /\ op \in [Calls -> AllOps \cup {NULL}]
    /\ session \in [Calls -> Sessions \cup {NULL}]
    /\ header \in [Calls -> Headers \cup {NULL}]
    /\ reply \in [Calls -> {"ok", "unauthorized", "error", NULL}]
    /\ handed \subseteq Sessions
    /\ out \in [Tokens -> {"no", "asked", "done"}]
    /\ late \in [Calls -> BOOLEAN]
    /\ blind \in [Calls -> BOOLEAN]

\* Once the REST AuthLogout has answered 200 for a token, no request that
\* arrives later with it passes CheckUserToken, as long as Redis answers.
LoggedOutIsRejected ==
    \A c \in Calls :
        pc[c] = "done" /\ op[c] = "Protected" /\ late[c] /\ ~ blind[c]
            => reply[c] = "unauthorized"

\* CheckUserToken lets only access tokens pass, as long as Redis answers:
\* the two kinds differ in nothing but the key they are stored under.
OnlyAccessTokensPass ==
    \A c \in Calls :
        pc[c] = "done" /\ op[c] = "Protected" /\ reply[c] = "ok" /\ ~ blind[c]
            => header[c].jwt.kind = "access"

\* A client holding an access token that has not expired, and that no logout
\* was asked for, finds its key in Redis: nobody else's logout, failure or
\* expiry ends the session early.
SessionUsable ==
    \A s \in handed :
        LET t == [session |-> s, kind |-> "access"]
        IN  out[t] = "no" /\ jwt[t] > 0 => redis[AccessKey(Bare(t))] # NULL

\* A key leaves Redis when its time is up, and before that only an access key
\* does, by a logout with the very token it stands for.  No logout takes a key
\* of somebody else, and none takes a refresh key, its own session's neither:
\* the code deletes the key "refresh_token:*", which is nobody's.
KeysGoInTime ==
    [][\A k \in Keys : redis[k] \notin {NULL, 0} /\ redis'[k] = NULL =>
         \E c \in Calls :
            pc[c] = "del_access" /\ k = AccessKey(Bare(header[c].jwt))]_vars

\* Every key in Redis goes away in the end, also one whose login failed
\* half way and whose token nobody holds, when a lifetime is configured for
\* its kind.
SessionsEnd ==
    \A k \in {k \in Keys : TTL(k[2].jwt.kind) > 0} : redis[k] # NULL ~> redis[k] = NULL

\* A key that never expires opens nothing: only a lifetime of zero makes one,
\* and then its token was over when it was minted.
ForeverKeysAreDead ==
    \A t \in Tokens : NoExpiry \in {redis[AccessKey(Bare(t))], redis[RefreshKey(Bare(t))]}
        => TTL(t.kind) = 0 /\ jwt[t] = 0

\* What the requests and tokens are to a reader of Tickets.
Phase ==
    [c \in Calls |->
        CASE pc[c] \in {"idle", "done"} -> pc[c]
          [] pc[c] \in {"del_access", "del_refresh"} /\ op[c] = "LogoutGRPC" -> "admitted"
          [] OTHER -> "pending"]

State ==
    [t \in Tokens |->
        CASE t.session \notin handed -> "none"
          [] t.session \in handed /\ out[t] = "no" -> "held"
          [] t.session \in handed /\ out[t] = "asked" -> "leaving"
          [] t.session \in handed /\ out[t] = "done" -> "out"]

Remaining ==
    [t \in Tokens |-> IF t.session \in handed /\ jwt[t] # NULL THEN jwt[t] ELSE 0]

T == INSTANCE Tickets WITH phase <- Phase, state <- State, left <- Remaining

\* The sessions are Tickets: whatever Redis commands interleave, a request is
\* admitted or refused as if its ticket had been looked at in one step, each
\* refusal has a reason, and a login or logout takes effect with its answer.
TicketsSpec == T!Spec

\* The gRPC AuthLogout takes the token out of Redis by the time it deletes
\* the refresh keys.
GRPCLogoutInvalidates ==
    \A c \in Calls :
        pc[c] = "del_refresh" /\ op[c] = "LogoutGRPC" /\ header[c].jwt # NULL
            => redis[AccessKey(Bare(header[c].jwt))] = NULL

====
