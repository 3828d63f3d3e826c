---- MODULE Tickets ----
(***************************************************************************)
(* What the sessions promise their clients, however Redis is used for it:  *)
(* a login hands out two tickets with a limited time; an endpoint admits   *)
(* a request that shows a ticket in order, and refuses one only if its     *)
(* ticket is not; a logout takes a ticket out for good.                    *)
(*                                                                         *)
(* A request is pending between its arrival and its answer, and each takes *)
(* effect in one step.  A ticket that is being logged out may be taken or  *)
(* not, and so may any whose request meets a failing store (blind).        *)
(***************************************************************************)
EXTENDS Naturals

CONSTANTS
    Calls,       \* requests under way
    Sessions,    \* logins that succeed
    AccessTTL,   \* seconds an access ticket is valid
    RefreshTTL,  \* and a refresh ticket
    NULL

Kinds   == {"access", "refresh"}
Tickets == [session : Sessions, kind : Kinds]
Headers == [bearer : BOOLEAN, jwt : Tickets \cup {NULL}]
Entries == {"Protected", "LogoutGRPC"}   \* requests that are authenticated
Logouts == {"LogoutREST", "LogoutGRPC"}

TTL(kind) == IF kind = "access" THEN AccessTTL ELSE RefreshTTL

VARIABLES
    state,   \* of each ticket: "none", "held", "leaving" or "out"
    left,    \* seconds it has left
    phase,   \* "idle", "pending", "admitted" or "done", for each request
    op,      \* what it asks for
    header,  \* the header it shows
    reply,   \* how it was answered
    late,    \* its ticket was out when it came
    blind    \* the store failed it

vars == <<state, left, phase, op, header, reply, late, blind>>

Answer(c, r) ==
    /\ phase' = [phase EXCEPT ![c] = "done"]
    /\ reply' = [reply EXCEPT ![c] = r]

(***************************************************************************)
(* Logins.                                                                 *)
(***************************************************************************)
AskIn(c) ==
    /\ phase[c] = "idle"
    /\ op' = [op EXCEPT ![c] = "AuthLogin"]
    /\ \/ phase' = [phase EXCEPT ![c] = "pending"] /\ UNCHANGED reply
       \/ Answer(c, "error")
    /\ UNCHANGED <<state, left, header, late, blind>>

\* Two tickets for a session that has none, not older than their lifetime.
HandOut(c) ==
    /\ phase[c] = "pending" /\ op[c] = "AuthLogin"
    /\ \E s \in Sessions :
         /\ \A t \in Tickets : t.session = s => state[t] = "none"
         /\ state' = [t \in Tickets |-> IF t.session = s THEN "held" ELSE state[t]]
         /\ left' \in [Tickets -> Nat]
         /\ \A t \in Tickets : IF t.session = s THEN left'[t] <= TTL(t.kind)
                                                ELSE left'[t] = left[t]
    /\ Answer(c, "ok")
    /\ UNCHANGED <<op, header, late, blind>>

(***************************************************************************)
(* Requests that show a header: of a ticket that was handed out, or any    *)
(* other text.                                                             *)
(***************************************************************************)
Come(c) ==
    /\ phase[c] = "idle"
    /\ \E o \in Entries \cup Logouts, h \in Headers :
         /\ h.jwt # NULL => state[h.jwt] # "none"
         /\ op' = [op EXCEPT ![c] = o]
         /\ header' = [header EXCEPT ![c] = h]
         /\ late' = [late EXCEPT ![c] = h.jwt # NULL /\ state[h.jwt] = "out"]
         /\ IF o \in Logouts /\ h.jwt # NULL /\ ~ late'[c]
            THEN state' = [state EXCEPT ![h.jwt] = "leaving"] ELSE UNCHANGED state
         /\ \/ phase' = [phase EXCEPT ![c] = "pending"] /\ UNCHANGED reply
            \/ o \in Entries /\ ~ h.bearer /\ Answer(c, "unauthorized")
    /\ UNCHANGED <<left, blind>>

Checked(c) == phase[c] = "pending" /\ op[c] \in Entries

Blind(c) ==
    /\ Checked(c)
    /\ blind' = [blind EXCEPT ![c] = TRUE]
    /\ UNCHANGED <<state, left, phase, op, header, reply, late>>

\* The ticket has time left; unless the store failed, it is an access ticket,
\* and was not out before the request came.
Admit(c) ==
    LET t == header[c].jwt
    IN  /\ Checked(c) /\ header[c].bearer
        /\ t \in Tickets /\ left[t] > 0
        /\ ~ blind[c] => t.kind = "access" /\ ~ late[c]
        /\ \/ op[c] = "Protected" /\ Answer(c, "ok")
           \/ /\ op[c] = "LogoutGRPC"
              /\ phase' = [phase EXCEPT ![c] = "admitted"] /\ UNCHANGED reply
        /\ UNCHANGED <<state, left, op, header, late, blind>>

\* A ticket nobody can object to.
InOrder(t) == t.kind = "access" /\ state[t] = "held" /\ left[t] > 0

Refuse(c) ==
    /\ Checked(c)
    /\ header[c].jwt \in Tickets => ~ InOrder(header[c].jwt)
    /\ Answer(c, "unauthorized")
    /\ UNCHANGED <<state, left, op, header, late, blind>>

(***************************************************************************)
(* Logouts.  Only the REST one ever says that it is through.               *)
(***************************************************************************)
TakeOut(c) ==
    /\ phase[c] = "pending" /\ op[c] = "LogoutREST"
    /\ state' = IF header[c].jwt = NULL THEN state ELSE [state EXCEPT ![header[c].jwt] = "out"]
    /\ Answer(c, "ok")
    /\ UNCHANGED <<left, op, header, late, blind>>

Fail(c) ==
    /\ \/ phase[c] = "pending" /\ op[c] \in {"AuthLogin", "LogoutREST"}
       \/ phase[c] = "admitted"
    /\ Answer(c, "error")
    /\ UNCHANGED <<state, left, op, header, late, blind>>

----
Return(c) ==
    /\ phase[c] = "done"
    /\ phase' = [phase EXCEPT ![c] = "idle"]
    /\ op' = [op EXCEPT ![c] = NULL]
    /\ header' = [header EXCEPT ![c] = NULL]
    /\ reply' = [reply EXCEPT ![c] = NULL]
    /\ late' = [late EXCEPT ![c] = FALSE]
    /\ blind' = [blind EXCEPT ![c] = FALSE]
    /\ UNCHANGED <<state, left>>

\* The service dies and is started again; tickets stay what they are.
Restart ==
    /\ phase' = [c \in Calls |-> "idle"]
    /\ op' = [c \in Calls |-> NULL]
    /\ header' = [c \in Calls |-> NULL]
    /\ reply' = [c \in Calls |-> NULL]
    /\ late' = [c \in Calls |-> FALSE]
    /\ blind' = [c \in Calls |-> FALSE]
    /\ UNCHANGED <<state, left>>

\* A second passes.
Tick ==
    /\ left' = [t \in Tickets |-> IF left[t] = 0 THEN 0 ELSE left[t] - 1]
    /\ UNCHANGED <<state, phase, op, header, reply, late, blind>>

\* Tickets without time that no request shows are forgotten.
Forget(s) ==
    /\ \A t \in Tickets : t.session = s => left[t] = 0
    /\ \A c \in Calls : header[c] # NULL /\ header[c].jwt # NULL => header[c].jwt.session # s
    /\ state' = [t \in Tickets |-> IF t.session = s THEN "none" ELSE state[t]]
    /\ UNCHANGED <<left, phase, op, header, reply, late, blind>>

Init ==
    /\ state = [t \in Tickets |-> "none"]
    /\ left = [t \in Tickets |-> 0]
    /\ phase = [c \in Calls |-> "idle"]
    /\ op = [c \in Calls |-> NULL]
    /\ header = [c \in Calls |-> NULL]
    /\ reply = [c \in Calls |-> NULL]
    /\ late = [c \in Calls |-> FALSE]
    /\ blind = [c \in Calls |-> FALSE]

Next ==
    \/ \E c \in Calls : \/ AskIn(c) \/ HandOut(c) \/ Come(c) \/ Blind(c) \/ Admit(c)
                        \/ Refuse(c) \/ TakeOut(c) \/ Fail(c) \/ Return(c)
    \/ Restart \/ Tick \/ \E s \in Sessions : Forget(s)

Spec == Init /\ [][Next]_vars

====
