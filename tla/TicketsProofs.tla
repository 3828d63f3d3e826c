---- MODULE TicketsProofs ----
(***************************************************************************)
(* The sessions implement Tickets, for any number of calls and sessions    *)
(* and any lifetimes.                                                      *)
(***************************************************************************)
EXTENDS SessionsProofs

\* No token has more time left than its kind was given.
WithinTTL == \A t \in Tokens : jwt[t] # NULL => jwt[t] <= TTL(t.kind)

LEMMA WithinTTLStep == TypeOK /\ WithinTTL /\ [Next]_vars => WithinTTL'
<1> SUFFICES ASSUME TypeOK, WithinTTL, [Next]_vars, NEW t \in Tokens, jwt'[t] # NULL
             PROVE  jwt'[t] <= TTL(t.kind)
  BY DEF WithinTTL
<1>1. TTL(t.kind) \in Nat /\ Lives \subseteq Nat /\ (jwt[t] # NULL => jwt[t] \in Nat)
  BY LivesOK DEF Tokens, TypeOK
<1>2. jwt'[t] \in {jwt[t], NULL, TTL(t.kind)} \/ jwt'[t] = OneLess(jwt[t])
  <2>1. ASSUME NEW c \in Calls, Invoke(c) \/ Proceed(c)  PROVE jwt'[t] \in {jwt[t], TTL(t.kind)}
    BY <2>1 DEF Invoke, Proceed, LoginDenied, Login, Protected, LogoutREST, LogoutGRPC,
                Authenticate, Arrive, SetAccess, SetRefresh, GetKey, Parse, DeleteAccess,
                DeleteRefresh, Return
  <2>2. CASE Restart \/ Tick \/ Expire \/ UNCHANGED vars
    BY <2>2 DEF Restart, Tick, Expire, vars
  <2>3. ASSUME NEW s \in Sessions, Forget(s)  PROVE jwt'[t] \in {jwt[t], NULL}
    BY <2>3 DEF Forget
  <2> QED  BY <2>1, <2>2, <2>3 DEF Next, Step
<1>3. jwt[t] # NULL => OneLess(jwt[t]) <= jwt[t]
  BY <1>1 DEF OneLess
<1>4. OneLess(NULL) = NULL
  BY LivesOK
<1> QED  BY <1>1, <1>2, <1>3, <1>4, LivesOK DEF WithinTTL, OneLess

\* What the proof needs to know of every state.
Known == Typed /\ KindsOK /\ LogoutsOK /\ PassesOK /\ SessionUsable /\ WithinTTL

LEMMA KnownAlways == Spec => []Known
<1>1. Init => WithinTTL
  BY DEF Init, WithinTTL
<1>2. Spec => []WithinTTL
  BY <1>1, TypeCorrect, WithinTTLStep, PTL DEF Spec
<1> QED
  BY <1>2, TypedAlways, KindsAlways, LogoutsAlways, PassesAlways, SessionsStayUsable, PTL
     DEF Known

----
(***************************************************************************)
(* The mapping.                                                            *)
(***************************************************************************)
\* Tickets are tokens.
LEMMA SameTickets ==
    /\ T!Kinds = Kinds /\ T!Tickets = Tokens /\ T!Headers = Headers
    /\ \A kind : T!TTL(kind) = TTL(kind)
  BY DEF T!Kinds, Kinds, T!Tickets, Tokens, T!Headers, Headers, T!TTL, TTL

\* Phase of one call, State of one token.
PhaseOf(c) ==
    CASE pc[c] \in {"idle", "done"} -> pc[c]
      [] pc[c] \in LogoutStages /\ op[c] = "LogoutGRPC" -> "admitted"
      [] OTHER -> "pending"

StateOf(t) ==
    CASE t.session \notin handed -> "none"
      [] t.session \in handed /\ out[t] = "no" -> "held"
      [] t.session \in handed /\ out[t] = "asked" -> "leaving"
      [] t.session \in handed /\ out[t] = "done" -> "out"

LEMMA StateIs ==
    State = [t \in Tokens |-> StateOf(t)] /\ State' = [t \in Tokens |-> StateOf(t)']
  BY DEF State, StateOf

LEMMA Mapped ==
    ASSUME TypeOK
    PROVE  /\ Phase = [c \in Calls |-> PhaseOf(c)]
           /\ \A t \in Tokens :
                /\ t.session \notin handed => State[t] = "none" /\ Remaining[t] = 0
                /\ t.session \in handed =>
                     /\ State[t] = "held" <=> out[t] = "no"
                     /\ State[t] = "leaving" <=> out[t] = "asked"
                     /\ State[t] = "out" <=> out[t] = "done"
                     /\ State[t] \in {"held", "leaving", "out"}
                     /\ Remaining[t] = IF jwt[t] = NULL THEN 0 ELSE jwt[t]
<1>1. Phase = [c \in Calls |-> PhaseOf(c)]
  BY DEF Phase, PhaseOf, LogoutStages
<1>2. ASSUME NEW t \in Tokens
      PROVE  /\ t.session \notin handed => State[t] = "none" /\ Remaining[t] = 0
             /\ t.session \in handed =>
                  /\ State[t] = "held" <=> out[t] = "no"
                  /\ State[t] = "leaving" <=> out[t] = "asked"
                  /\ State[t] = "out" <=> out[t] = "done"
                  /\ State[t] \in {"held", "leaving", "out"}
                  /\ Remaining[t] = IF jwt[t] = NULL THEN 0 ELSE jwt[t]
  <2>1. out[t] \in {"no", "asked", "done"}
    BY DEF TypeOK
  <2> QED  BY <2>1 DEF State, Remaining
<1> QED  BY <1>1, <1>2

\* A call moves nobody else.
LEMMA PhaseMoves ==
    ASSUME TypeOK, NEW c \in Calls, Invoke(c) \/ Proceed(c)
    PROVE  Phase' = [Phase EXCEPT ![c] = PhaseOf(c)']
<1>1. \A d \in Calls : d # c => PhaseOf(d)' = PhaseOf(d)
  BY OthersUntouched DEF PhaseOf
<1> QED  BY <1>1 DEF Phase, PhaseOf, LogoutStages

\* Tokens nobody asks for and no time passes for stay the tickets they are.
LEMMA TicketsStay ==
    ASSUME UNCHANGED <<handed, out>>
    PROVE  State' = State /\ (jwt' = jwt => Remaining' = Remaining)
  BY DEF State, Remaining

----
(***************************************************************************)
(* Each step of a call is one of its request, or none.                     *)
(***************************************************************************)
\* What a request is doing in Tickets, where the handlers are.
LEMMA Phases ==
    ASSUME Known, NEW c \in Calls
    PROVE  /\ pc[c] = "idle" => Phase[c] = "idle"
           /\ pc[c] = "done" => Phase[c] = "done"
           /\ pc[c] \in LoginStages => Phase[c] = "pending" /\ op[c] = "AuthLogin"
           /\ pc[c] \in CheckStages => Phase[c] = "pending" /\ T!Checked(c)
           /\ pc[c] \in LogoutStages =>
                /\ op[c] = "LogoutREST" => Phase[c] = "pending"
                /\ op[c] # "LogoutREST" => Phase[c] = "admitted" /\ op[c] = "LogoutGRPC"
<1>1. Phase[c] = PhaseOf(c)
  BY Mapped DEF Known, Typed
<1>2. pc[c] \in LoginStages => PhaseOf(c) = "pending" /\ op[c] = "AuthLogin"
  BY DEF Known, Typed, LoginsOK, LoginOK, PhaseOf, LoginStages, LogoutStages
<1>3. pc[c] \in CheckStages => PhaseOf(c) = "pending" /\ op[c] \in T!Entries
  BY DEF Known, Typed, RequestsOK, RequestOK, PhaseOf, CheckStages, LogoutStages, T!Entries
<1>4. pc[c] \in LogoutStages =>
        /\ op[c] = "LogoutREST" => PhaseOf(c) = "pending"
        /\ op[c] # "LogoutREST" => PhaseOf(c) = "admitted" /\ op[c] = "LogoutGRPC"
  BY DEF Known, Typed, RequestsOK, RequestOK, PhaseOf, LogoutStages, Logouts
<1>5. pc[c] \in {"idle", "done"} => PhaseOf(c) = pc[c]
  BY DEF PhaseOf, LogoutStages
<1> QED  BY <1>1, <1>2, <1>3, <1>4, <1>5 DEF T!Checked

\* An answer is an answer.
LEMMA Answers ==
    ASSUME Known, NEW c \in Calls, Invoke(c) \/ Proceed(c), NEW r, Finish(c, r)
    PROVE  T!Answer(c, r)
<1>1. PhaseOf(c)' = "done"
  BY DEF Finish, PhaseOf, Known, Typed, TypeOK, LogoutStages
<1> QED  BY <1>1, PhaseMoves DEF T!Answer, Finish, Known, Typed

\* A call that goes on with the same request in the same phase.
LEMMA GoesOn ==
    ASSUME Known, NEW c \in Calls, Invoke(c) \/ Proceed(c), PhaseOf(c)' = Phase[c],
           UNCHANGED <<handed, out, jwt, op, header, reply, late, blind>>
    PROVE  UNCHANGED T!vars
<1>1. Phase = [d \in Calls |-> PhaseOf(d)]
  BY Mapped DEF Known, Typed
<1>2. Phase' = [Phase EXCEPT ![c] = Phase[c]]
  BY PhaseMoves DEF Known, Typed
<1>3. Phase' = Phase
  BY <1>1, <1>2
<1>4. State' = State /\ Remaining' = Remaining
  BY TicketsStay
<1> QED  BY <1>3, <1>4 DEF T!vars

\* Logins.
LEMMA LoginDeniedAsks == ASSUME Known, NEW c \in Calls, LoginDenied(c)  PROVE T!AskIn(c)
<1>1. T!Answer(c, "error")
  BY Answers DEF LoginDenied, Invoke
<1>2. Phase[c] = "idle"
  BY Phases DEF LoginDenied
<1> QED  BY <1>1, <1>2, TicketsStay DEF LoginDenied, T!AskIn

LEMMA LoginAsks == ASSUME Known, NEW c \in Calls, Login(c)  PROVE T!AskIn(c)
<1>1. /\ Phase[c] = "idle" /\ PhaseOf(c)' = "pending"
      /\ UNCHANGED <<handed, out, header, reply, late, blind>>
      /\ op' = [op EXCEPT ![c] = "AuthLogin"]
  BY Phases DEF Login, Continue, PhaseOf, LogoutStages, Known, Typed, TypeOK
<1>2. PICK s \in Sessions :
        /\ jwt[Access(s)] = NULL
        /\ jwt' = [t \in Tokens |-> IF t.session = s THEN TTL(t.kind) ELSE jwt[t]]
  BY DEF Login, Access
<1>3. s \notin handed
  BY <1>2 DEF Known, Typed, LoginsOK
<1>4. Remaining' = Remaining
  BY <1>1, <1>2, <1>3 DEF Remaining
<1>5. Phase' = [Phase EXCEPT ![c] = "pending"]
  BY <1>1, PhaseMoves DEF Invoke, Known, Typed
<1> QED  BY <1>1, <1>4, <1>5, TicketsStay DEF T!AskIn

LEMMA SetAccessGoesOn ==
    ASSUME Known, NEW c \in Calls, SetAccess(c)  PROVE T!Fail(c) \/ UNCHANGED T!vars
<1>1. /\ Phase[c] = "pending" /\ op[c] = "AuthLogin"
      /\ UNCHANGED <<handed, out, jwt, op, header, late, blind>>
  BY Phases DEF SetAccess, LoginStages, calls
<1>2. CASE Continue(c, "set_refresh")
  <2>1. PhaseOf(c)' = "pending"
    BY <1>1, <1>2 DEF Continue, PhaseOf, LogoutStages, Known, Typed, TypeOK
  <2> QED  BY <1>1, <1>2, <2>1, GoesOn DEF Continue, Proceed
<1>3. CASE Finish(c, "error")
  BY <1>1, <1>3, Answers, TicketsStay DEF Proceed, T!Fail
<1> QED  BY <1>2, <1>3 DEF SetAccess

LEMMA SetRefreshHandsOut ==
    ASSUME Known, NEW c \in Calls, SetRefresh(c)  PROVE T!HandOut(c) \/ T!Fail(c)
<1>1. /\ Phase[c] = "pending" /\ op[c] = "AuthLogin"
      /\ UNCHANGED <<out, jwt, op, header, late, blind>>
      /\ session[c] \in Sessions \ handed
  BY Phases DEF SetRefresh, LoginStages, calls, Known, Typed, LoginsOK, LoginOK
<1>2. CASE handed' = handed \cup {session[c]} /\ Finish(c, "ok")
  <2> DEFINE s == session[c]
  <2>1. \A t \in Tokens : t.session = s => out[t] = "no"
    BY <1>1 DEF Known, LogoutsOK
  <2>2. \A t \in Tokens : t.session = s => State[t] = "none"
    BY <1>1, Mapped DEF Known, Typed
  <2>3. State' = [t \in Tokens |-> IF t.session = s THEN "held" ELSE State[t]]
    <3>1. \A t \in Tokens : out[t] \in {"no", "asked", "done"}
      BY DEF Known, Typed, TypeOK
    <3> QED  BY <1>1, <1>2, <2>1, <3>1 DEF State
  <2>4. \A t \in Tokens : Remaining'[t] = IF t.session = s THEN IF jwt[t] = NULL THEN 0 ELSE jwt[t]
                                                          ELSE Remaining[t]
    BY <1>1, <1>2 DEF Remaining
  <2>5. \A t \in Tokens : TTL(t.kind) \in Nat /\ (jwt[t] # NULL => jwt[t] \in Nat /\ jwt[t] <= TTL(t.kind))
    BY LivesOK DEF Known, Typed, TypeOK, WithinTTL, Tokens
  <2>6. Remaining' \in [Tokens -> Nat]
    BY <1>1, <2>5 DEF Remaining
  <2>7. \A t \in Tokens : IF t.session = s THEN Remaining'[t] <= TTL(t.kind)
                                          ELSE Remaining'[t] = Remaining[t]
    BY <2>4, <2>5
  <2>8. T!Answer(c, "ok")
    BY <1>2, Answers DEF Proceed
  <2> QED  BY <1>1, <2>2, <2>3, <2>6, <2>7, <2>8, SameTickets DEF T!HandOut
<1>3. CASE handed' = handed /\ Finish(c, "error")
  BY <1>1, <1>3, Answers, TicketsStay DEF Proceed, T!Fail
<1> QED  BY <1>2, <1>3 DEF SetRefresh

----
(***************************************************************************)
(* Requests with a header.                                                 *)
(***************************************************************************)
\* A request comes with its header, whatever it asks for.
LEMMA Comes ==
    ASSUME Known, NEW c \in Calls, Invoke(c), NEW h \in Headers, NEW o \in T!Entries \cup Logouts,
           Arrive(c, o, h), UNCHANGED <<handed, jwt, blind>>,
           out' = IF o \in Logouts THEN Asked(h) ELSE out,
           \/ PhaseOf(c)' = "pending" /\ UNCHANGED reply
           \/ o \in T!Entries /\ ~ h.bearer /\ Finish(c, "unauthorized")
    PROVE  T!Come(c)
<1>1. /\ Phase[c] = "idle"
      /\ h.jwt # NULL => h.jwt.session \in handed
      /\ op' = [op EXCEPT ![c] = o] /\ header' = [header EXCEPT ![c] = h]
  BY Phases DEF Arrive
<1>2. h.jwt # NULL => h.jwt \in Tokens
  BY DEF Headers
<1>3. h.jwt # NULL => State[h.jwt] # "none" /\ (State[h.jwt] = "out" <=> out[h.jwt] = "done")
  BY <1>1, <1>2, Mapped DEF Known, Typed
<1>4. /\ late' = [late EXCEPT ![c] = h.jwt # NULL /\ State[h.jwt] = "out"]
      /\ late'[c] <=> h.jwt # NULL /\ out[h.jwt] = "done"
  BY <1>3 DEF Arrive, Known, Typed, TypeOK
<1>5. IF o \in T!Logouts /\ h.jwt # NULL /\ ~ late'[c]
      THEN State' = [State EXCEPT ![h.jwt] = "leaving"] ELSE State' = State
  <2>1. CASE o \in Logouts /\ h.jwt # NULL /\ ~ late'[c]
    <3>1. out' = [out EXCEPT ![h.jwt] = "asked"]
      BY <1>4, <2>1 DEF Asked
    <3>2. \A t \in Tokens : out[t] \in {"no", "asked", "done"}
      BY DEF Known, Typed, TypeOK
    <3>3. State' = [State EXCEPT ![h.jwt] = "leaving"]
      <4>1. ASSUME NEW t \in Tokens, t # h.jwt
            PROVE  out'[t] = out[t]
        BY <3>1, <4>1 DEF Known, Typed, TypeOK
      <4>2. out'[h.jwt] = "asked" /\ h.jwt \in Tokens /\ h.jwt.session \in handed
        BY <1>1, <1>2, <2>1, <3>1 DEF Known, Typed, TypeOK
      <4>3. \A t \in Tokens : StateOf(t)' = IF t = h.jwt THEN "leaving" ELSE StateOf(t)
        BY <3>2, <4>1, <4>2 DEF StateOf
      <4> QED  BY <4>2, <4>3, StateIs
    <3> QED  BY <2>1, <3>3 DEF Logouts, T!Logouts
  <2>2. CASE ~ (o \in Logouts /\ h.jwt # NULL /\ ~ late'[c])
    <3>1. out' = out
      BY <1>4, <2>2 DEF Asked
    <3> QED  BY <2>2, <3>1, TicketsStay DEF Logouts, T!Logouts
  <2> QED  BY <2>1, <2>2
<1>6. \/ Phase' = [Phase EXCEPT ![c] = "pending"] /\ UNCHANGED reply
      \/ o \in T!Entries /\ ~ h.bearer /\ T!Answer(c, "unauthorized")
  BY PhaseMoves, Answers DEF Known, Typed
<1>7. Remaining' = Remaining
  BY DEF Remaining
<1>8. h \in T!Headers /\ o \in T!Entries \cup T!Logouts
  BY SameTickets DEF Logouts, T!Logouts
<1> QED  BY <1>1, <1>3, <1>4, <1>5, <1>6, <1>7, <1>8 DEF T!Come

LEMMA AuthenticatesCome ==
    ASSUME Known, NEW c \in Calls, Protected(c) \/ LogoutREST(c) \/ LogoutGRPC(c)
    PROVE  T!Come(c)
<1>1. ASSUME NEW o \in T!Entries, NEW h \in Headers, Authenticate(c, o, h)
      PROVE  \/ PhaseOf(c)' = "pending" /\ UNCHANGED reply
             \/ o \in T!Entries /\ ~ h.bearer /\ Finish(c, "unauthorized")
  BY <1>1 DEF Authenticate, Continue, PhaseOf, LogoutStages, Known, Typed, TypeOK
<1>2. CASE Protected(c)
  <2>1. PICK h \in Headers : Authenticate(c, "Protected", h) /\ UNCHANGED out
    BY <1>2 DEF Protected
  <2>2. "Protected" \in T!Entries /\ "Protected" \notin Logouts
    BY DEF T!Entries, Logouts
  <2> QED  BY <1>1, <1>2, <2>1, <2>2, Comes DEF Authenticate, Invoke
<1>3. CASE LogoutGRPC(c)
  <2>1. PICK h \in Headers : Authenticate(c, "LogoutGRPC", h) /\ out' = Asked(h)
    BY <1>3 DEF LogoutGRPC
  <2>2. "LogoutGRPC" \in T!Entries /\ "LogoutGRPC" \in Logouts
    BY DEF T!Entries, Logouts
  <2> QED  BY <1>1, <1>3, <2>1, <2>2, Comes DEF Authenticate, Invoke
<1>4. CASE LogoutREST(c)
  <2>1. PICK h \in Headers :
          /\ Arrive(c, "LogoutREST", h) /\ out' = Asked(h) /\ Continue(c, "del_access")
          /\ UNCHANGED <<handed, jwt, blind>>
    BY <1>4 DEF LogoutREST
  <2>2. PhaseOf(c)' = "pending" /\ UNCHANGED reply
    BY <2>1 DEF Arrive, Continue, PhaseOf, LogoutStages, Known, Typed, TypeOK
  <2> QED  BY <1>4, <2>1, <2>2, Comes DEF Invoke, Logouts
<1> QED  BY <1>2, <1>3, <1>4

\* Whom GET turns away has a ticket that is not in order.
LEMMA GetKeyChecks ==
    ASSUME Known, NEW c \in Calls, GetKey(c)
    PROVE  T!Refuse(c) \/ T!Blind(c) \/ UNCHANGED T!vars
<1> DEFINE t == header[c].jwt
<1>1. /\ Phase[c] = "pending" /\ T!Checked(c) /\ header[c] \in Headers
      /\ UNCHANGED <<handed, out, jwt, op, header, late>>
  BY Phases DEF GetKey, calls, CheckStages, Known, Typed, RequestsOK, RequestOK
<1>2. CASE Continue(c, "parse")
  <2>1. PhaseOf(c)' = "pending" /\ reply' = reply
    BY <1>2 DEF Continue, PhaseOf, LogoutStages, Known, Typed, TypeOK
  <2>2. CASE blind' = blind
    BY <1>1, <2>1, <2>2, GoesOn DEF Proceed
  <2>3. CASE blind' = [blind EXCEPT ![c] = TRUE]
    <3>1. Phase' = Phase
      BY <1>1, <2>1, PhaseMoves DEF Proceed, Phase, Known, Typed
    <3> QED  BY <1>1, <2>1, <2>3, <3>1, TicketsStay DEF T!Blind
  <2> QED  BY <1>2, <2>2, <2>3 DEF GetKey
<1>3. CASE Finish(c, "unauthorized")
  <2>1. blind' = blind
    BY <1>3 DEF GetKey, Continue, Finish, Known, Typed, TypeOK
  <2>2. ~ (AccessKey(TrimBearer(header[c])) \in Keys /\ redis[AccessKey(TrimBearer(header[c]))] # NULL)
    BY <1>3 DEF GetKey, Continue, Finish, Known, Typed, TypeOK
  <2>3. ASSUME t \in Tokens, T!InOrder(t)  PROVE FALSE
    <3>1. t.session \in handed /\ out[t] = "no" /\ t.kind = "access"
      BY <2>3, Mapped DEF T!InOrder, Known, Typed
    <3>2. Remaining[t] > 0 /\ Remaining[t] = (IF jwt[t] = NULL THEN 0 ELSE jwt[t])
      BY <2>3, <3>1, Mapped DEF T!InOrder, Known, Typed
    <3>3. jwt[t] > 0
      BY <3>2
    <3>4. t = [session |-> t.session, kind |-> "access"]
      BY <2>3, <3>1 DEF Tokens
    <3>5. redis[AccessKey(Bare(t))] # NULL
      BY <3>1, <3>3, <3>4 DEF Known, SessionUsable
    <3> QED  BY <1>1, <2>2, <2>3, <3>5, KeyFacts
  <2>4. T!Answer(c, "unauthorized")
    BY <1>3, Answers DEF Proceed
  <2> QED  BY <1>1, <2>1, <2>3, <2>4, SameTickets, TicketsStay DEF T!Refuse
<1> QED  BY <1>2, <1>3 DEF GetKey

\* Parse admits for good reasons and refuses for good reasons.
LEMMA ParseDecides ==
    ASSUME Known, NEW c \in Calls, Parse(c)
    PROVE  T!Admit(c) \/ T!Refuse(c)
<1> DEFINE t == header[c].jwt
<1>1. /\ T!Checked(c) /\ header[c] \in Headers /\ (t # NULL => t.session \in handed)
      /\ UNCHANGED <<handed, out, jwt, op, header, late, blind>>
  BY Phases DEF Parse, calls, CheckStages, Known, Typed, RequestsOK, RequestOK
<1>2. UNCHANGED <<State, Remaining>>
  BY <1>1, TicketsStay
<1>3. \A u \in Tokens : jwt[u] \in Nat \cup {NULL}
  BY LivesOK DEF Known, Typed, TypeOK
<1>4. CASE t # NULL /\ jwt[t] \notin {NULL, 0}
  <2>1. t \in Tokens /\ Remaining[t] > 0
    <3>1. t \in Tokens
      BY <1>1, <1>4 DEF Headers
    <3>2. Remaining[t] = jwt[t]
      BY <1>1, <1>4, <3>1, Mapped DEF Known, Typed
    <3> QED  BY <1>3, <1>4, <3>1, <3>2
  <2>2. CASE op[c] = "LogoutGRPC" /\ Continue(c, "del_access")
    <3>1. Passed(c)' /\ PhaseOf(c)' = "admitted"
      BY <1>1, <2>2 DEF Passed, Continue, PhaseOf, LogoutStages, Known, Typed, TypeOK
    <3>2. PassOK(c)'
      BY <3>1, ParsePasses DEF Known
    <3>3. header[c].bearer /\ (~ blind[c] => t.kind = "access" /\ ~ late[c])
      BY <1>1, <3>1, <3>2 DEF PassOK
    <3>4. Phase' = [Phase EXCEPT ![c] = "admitted"] /\ UNCHANGED reply
      BY <2>2, <3>1, PhaseMoves DEF Proceed, Continue, Known, Typed
    <3> QED  BY <1>1, <1>2, <2>1, <2>2, <3>3, <3>4, SameTickets DEF T!Admit
  <2>3. CASE op[c] # "LogoutGRPC" /\ Finish(c, "ok")
    <3>1. op[c] = "Protected"
      BY <1>1, <2>3 DEF T!Checked, T!Entries
    <3>2. Passed(c)'
      BY <1>1, <2>3, <3>1 DEF Passed, Finish, Known, Typed, TypeOK
    <3>3. PassOK(c)'
      BY <3>2, ParsePasses DEF Known
    <3>4. header[c].bearer /\ (~ blind[c] => t.kind = "access" /\ ~ late[c])
      BY <1>1, <3>2, <3>3 DEF PassOK
    <3>5. T!Answer(c, "ok")
      BY <2>3, Answers DEF Proceed
    <3> QED  BY <1>1, <1>2, <2>1, <3>1, <3>4, <3>5, SameTickets DEF T!Admit
  <2> QED  BY <1>4, <2>2, <2>3 DEF Parse
<1>5. CASE ~ (t # NULL /\ jwt[t] \notin {NULL, 0})
  <2>1. T!Answer(c, "unauthorized")
    BY <1>5, Answers DEF Parse, Proceed
  <2>2. ASSUME t \in Tokens, T!InOrder(t)  PROVE FALSE
    <3>1. t # NULL /\ t.session \in handed
      BY <1>1, <2>2, NullAssumption
    <3>2. Remaining[t] = 0
      BY <1>5, <2>2, <3>1, Mapped DEF Known, Typed
    <3> QED  BY <2>2, <3>2 DEF T!InOrder
  <2> QED  BY <1>1, <1>2, <2>1, <2>2, SameTickets DEF T!Refuse
<1> QED  BY <1>4, <1>5

----
(***************************************************************************)
(* Logouts.                                                                *)
(***************************************************************************)
LEMMA DeleteAccessGoesOn ==
    ASSUME Known, NEW c \in Calls, DeleteAccess(c)  PROVE T!Fail(c) \/ UNCHANGED T!vars
<1>1. /\ op[c] \in Logouts
      /\ Phase[c] = IF op[c] = "LogoutREST" THEN "pending" ELSE "admitted"
      /\ UNCHANGED <<handed, out, jwt, op, header, late, blind>>
  BY Phases DEF DeleteAccess, LogoutStages, calls, Known, Typed, RequestsOK, RequestOK
<1>2. CASE Continue(c, "del_refresh")
  <2>1. PhaseOf(c)' = Phase[c]
    BY <1>1, <1>2 DEF Continue, PhaseOf, LogoutStages, Logouts, Known, Typed, TypeOK
  <2> QED  BY <1>1, <1>2, <2>1, GoesOn DEF Continue, Proceed
<1>3. CASE Finish(c, "error")
  BY <1>1, <1>3, Answers, TicketsStay DEF Proceed, T!Fail
<1> QED  BY <1>2, <1>3 DEF DeleteAccess

LEMMA DeleteRefreshTakesOut ==
    ASSUME Known, NEW c \in Calls, DeleteRefresh(c)  PROVE T!TakeOut(c) \/ T!Fail(c)
<1> DEFINE t == header[c].jwt
<1>1. /\ op[c] \in Logouts
      /\ Phase[c] = IF op[c] = "LogoutREST" THEN "pending" ELSE "admitted"
      /\ header[c] \in Headers
      /\ t # NULL => t.session \in handed
      /\ UNCHANGED <<handed, jwt, op, header, late, blind>>
  BY Phases DEF DeleteRefresh, LogoutStages, calls, Known, Typed, RequestsOK, RequestOK
<1>2. Remaining' = Remaining
  BY <1>1 DEF Remaining
<1>3. CASE out' = out /\ Finish(c, "error")
  BY <1>1, <1>3, Answers, TicketsStay DEF Proceed, T!Fail
<1>4. CASE op[c] = "LogoutREST" /\ Finish(c, "ok")
           /\ out' = IF t = NULL THEN out ELSE [out EXCEPT ![t] = "done"]
  <2>1. State' = IF t = NULL THEN State ELSE [State EXCEPT ![t] = "out"]
    <3>1. CASE t = NULL
      BY <1>1, <1>4, <3>1, TicketsStay
    <3>2. CASE t # NULL
      <4>1. t \in Tokens
        BY <1>1, <3>2 DEF Headers
      <4>2. \A u \in Tokens : out'[u] = IF u = t THEN "done" ELSE out[u]
        BY <1>4, <3>2 DEF Known, Typed, TypeOK
      <4>3. \A u \in Tokens : out[u] \in {"no", "asked", "done"}
        BY DEF Known, Typed, TypeOK
      <4>4. \A u \in Tokens : StateOf(u)' = IF u = t THEN "out" ELSE StateOf(u)
        BY <1>1, <3>2, <4>1, <4>2, <4>3 DEF StateOf
      <4> QED  BY <3>2, <4>1, <4>4, StateIs
    <3> QED  BY <3>1, <3>2
  <2>2. T!Answer(c, "ok")
    BY <1>4, Answers DEF Proceed
  <2> QED  BY <1>1, <1>2, <1>4, <2>1, <2>2 DEF T!TakeOut
<1> QED
  <2>1. op[c] # "LogoutREST" => (IF t = NULL THEN out ELSE [out EXCEPT ![t] = @]) = out
    BY <1>1 DEF Known, Typed, TypeOK, Headers
  <2> QED  BY <1>3, <1>4, <2>1 DEF DeleteRefresh

----
(***************************************************************************)
(* Everything else.                                                        *)
(***************************************************************************)
LEMMA ReturnReturns == ASSUME Known, NEW c \in Calls, Return(c)  PROVE T!Return(c)
<1>1. Phase[c] = "done" /\ PhaseOf(c)' = "idle"
  BY Phases DEF Return, PhaseOf, Known, Typed, TypeOK, LogoutStages
<1>2. Phase' = [Phase EXCEPT ![c] = "idle"]
  BY <1>1, PhaseMoves DEF Proceed, Known, Typed
<1> QED  BY <1>1, <1>2, TicketsStay DEF Return, T!Return

LEMMA RestartRestarts == ASSUME Known, Restart  PROVE T!Restart
<1>1. Phase' = [c \in Calls |-> "idle"]
  BY DEF Restart, Phase
<1> QED  BY <1>1, TicketsStay DEF Restart, T!Restart

LEMMA TickTicks == ASSUME Known, Tick  PROVE T!Tick
<1>1. /\ Phase' = Phase /\ State' = State
      /\ UNCHANGED <<op, header, reply, late, blind>>
  BY TicketsStay DEF Tick, calls, Phase
<1>2. Remaining' = [t \in Tokens |-> IF Remaining[t] = 0 THEN 0 ELSE Remaining[t] - 1]
  <2>1. \A t \in Tokens : jwt[t] \in Nat \cup {NULL}
    BY LivesOK DEF Known, Typed, TypeOK
  <2>2. \A t \in Tokens : jwt'[t] = OneLess(jwt[t])
    BY DEF Tick
  <2>3. handed' = handed
    BY DEF Tick
  <2>4. \A n \in Nat : OneLess(n) = IF n = 0 THEN 0 ELSE n - 1
    BY NullAssumption DEF OneLess
  <2>5. \A t \in Tokens : jwt[t] # NULL => jwt'[t] # NULL
    BY <2>1, <2>2, <2>4, NullAssumption
  <2>6. \A t \in Tokens : jwt[t] = NULL => jwt'[t] = NULL
    BY <2>2, LivesOK
  <2>7. \A t \in Tokens :
          (IF t.session \in handed /\ jwt'[t] # NULL THEN jwt'[t] ELSE 0)
            = IF Remaining[t] = 0 THEN 0 ELSE Remaining[t] - 1
    BY <2>1, <2>2, <2>4, <2>5, <2>6 DEF Remaining
  <2> QED  BY <2>3, <2>7 DEF Remaining
<1> QED  BY <1>1, <1>2, SameTickets DEF T!Tick

LEMMA ForgetForgets == ASSUME Known, NEW s \in Sessions, Forget(s)  PROVE T!Forget(s)
<1>1. /\ Phase' = Phase
      /\ UNCHANGED <<op, header, reply, late, blind>>
  BY DEF Forget, calls, Phase
<1>2. \A t \in Tokens : t.session = s => jwt[t] = 0
  BY DEF Forget
<1>3. \A t \in Tokens : t.session = s => Remaining[t] = 0
  BY <1>2 DEF Remaining
<1>4. State' = [t \in Tokens |-> IF t.session = s THEN "none" ELSE State[t]]
  <2>1. ASSUME NEW t \in Tokens
        PROVE  StateOf(t)' = IF t.session = s THEN "none" ELSE StateOf(t)
    <3>1. out[t] \in {"no", "asked", "done"}
      BY DEF Known, Typed, TypeOK
    <3>2. CASE t.session = s
      <4>1. t.session \notin handed'
        BY <3>2 DEF Forget
      <4>2. StateOf(t)' = "none"
        BY <4>1 DEF StateOf
      <4> QED  BY <3>2, <4>2
    <3>3. CASE t.session # s
      <4>1. out'[t] = out[t] /\ (t.session \in handed' <=> t.session \in handed)
        BY <3>3 DEF Forget
      <4>2. StateOf(t)' = StateOf(t)
        BY <3>1, <4>1 DEF StateOf
      <4> QED  BY <3>3, <4>2
    <3> QED  BY <3>2, <3>3
  <2>2. \A t \in Tokens : State'[t] = IF t.session = s THEN "none" ELSE State[t]
    BY <2>1, StateIs
  <2> QED  BY <2>2, StateIs
<1>5. Remaining' = Remaining
  <2>1. \A t \in Tokens : t.session # s => jwt'[t] = jwt[t] /\ (t.session \in handed' <=> t.session \in handed)
    BY DEF Forget
  <2>2. s \notin handed'
    BY DEF Forget
  <2> QED  BY <1>2, <2>1, <2>2 DEF Remaining
<1> QED  BY <1>1, <1>3, <1>4, <1>5, SameTickets DEF Forget, T!Forget

LEMMA SameBeginning == Init => T!Init
<1> SUFFICES ASSUME Init  PROVE T!Init
  OBVIOUS
<1>1. Phase = [c \in Calls |-> "idle"]
  BY DEF Init, Phase
<1>2. State = [t \in Tokens |-> "none"] /\ Remaining = [t \in Tokens |-> 0]
  BY DEF Init, State, Remaining
<1> QED  BY <1>1, <1>2, SameTickets DEF Init, T!Init

LEMMA StepsAreTickets == Known /\ [Next]_vars => [T!Next]_(T!vars)
<1> SUFFICES ASSUME Known, [Next]_vars  PROVE T!Next \/ UNCHANGED T!vars
  OBVIOUS
<1>1. ASSUME NEW c \in Calls, Invoke(c)  PROVE T!AskIn(c) \/ T!Come(c)
  BY <1>1, LoginDeniedAsks, LoginAsks, AuthenticatesCome DEF Invoke
<1>2. ASSUME NEW c \in Calls, Proceed(c)
      PROVE  \/ T!HandOut(c) \/ T!Blind(c) \/ T!Admit(c) \/ T!Refuse(c)
             \/ T!TakeOut(c) \/ T!Fail(c) \/ T!Return(c) \/ UNCHANGED T!vars
  BY <1>2, SetAccessGoesOn, SetRefreshHandsOut, GetKeyChecks, ParseDecides, DeleteAccessGoesOn,
     DeleteRefreshTakesOut, ReturnReturns DEF Proceed
<1>3. Restart => T!Restart
  BY RestartRestarts
<1>4. Tick => T!Tick
  BY TickTicks
<1>5. ASSUME Expire \/ UNCHANGED vars  PROVE UNCHANGED T!vars
  <2>1. UNCHANGED <<handed, out, jwt, pc, op, header, reply, late, blind>>
    BY <1>5 DEF Expire, calls, vars
  <2> QED  BY <2>1, TicketsStay DEF Phase, T!vars
<1>6. ASSUME NEW s \in Sessions, Forget(s)  PROVE T!Forget(s)
  BY <1>6, ForgetForgets
<1> QED  BY <1>1, <1>2, <1>3, <1>4, <1>5, <1>6 DEF Next, Step, T!Next

\* The sessions implement Tickets: whatever Redis commands, failures, restarts
\* and expiries interleave, each request is admitted or refused as if its
\* ticket had been looked at in one step, and a refusal has a reason.
THEOREM SessionsImplementTickets == Spec => TicketsSpec
<1> QED  BY KnownAlways, SameBeginning, StepsAreTickets, PTL DEF Spec, TicketsSpec, T!Spec

====
