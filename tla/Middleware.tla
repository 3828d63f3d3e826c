---- MODULE Middleware ----
(***************************************************************************)
(* The middleware chain in front of both HTTP ways in: chi's RequestID,    *)
(* logging.Middleware of internal/utils/logging.go and the counter of      *)
(* cmd/main.go, around the handler, /metrics among them.                   *)
(*                                                                         *)
(* logging.Middleware closes over one logger for all requests.  Every      *)
(* request reads it, adds a request_id to it and assigns it back, without  *)
(* a lock, and reads it again for its line in the log.  A logger is the    *)
(* sequence of the requests that have added a request_id to it.  What the  *)
(* id says is left out: RequestID takes over a client's X-Request-Id, so   *)
(* ids may be alike.  The logger is one word of memory: the racing reads   *)
(* and writes of it are those of some interleaving.                        *)
(***************************************************************************)
EXTENDS Sequences, Naturals

CONSTANTS
    Requests,   \* requests over HTTP, each of them once
    Scrapes     \* those for /metrics

ASSUME ScrapesAssumption == Scrapes \subseteq Requests

VARIABLES
    stage,    \* where each request is
    logger,   \* the logger all requests share
    with,     \* the logger each request has made of it
    line,     \* whose request_ids are in the line each request has logged
    counted,  \* the requests in http_requests_total
    seen,     \* those that the answer to each scrape reports
    before    \* history: requests that were over when this one came in

middlewareVars == <<stage, logger, with, line, counted, seen, before>>

Move(r, from, to) ==
    /\ stage[r] = from
    /\ stage' = [stage EXCEPT ![r] = to]

Over == {"logged", "panicked", "past"}

Arrive(r) ==
    /\ Move(r, "new", "arrived")
    /\ before' = [before EXCEPT ![r] = {x \in Requests : stage[x] \in Over}]
    /\ UNCHANGED <<logger, with, line, counted, seen>>

\* logger.With(request_id): every call adds one, whatever it says.
With(r) ==
    /\ Move(r, "arrived", "with")
    /\ with' = [with EXCEPT ![r] = Append(logger, r)]
    /\ UNCHANGED <<logger, line, counted, seen, before>>

RebindOnce(r) ==   \* mutant: the first request names the logger
    /\ Move(r, "with", "serving")
    /\ logger' = IF logger = <<>> THEN with[r] ELSE logger
    /\ UNCHANGED <<with, line, counted, seen, before>>

\* logger = ...
Rebind(r) ==
    /\ Move(r, "with", "serving")
    /\ logger' = with[r]
    /\ UNCHANGED <<with, line, counted, seen, before>>

ServeCounted(r) ==   \* mutant: counts before it serves
    /\ Move(r, "serving", "served")
    /\ seen' = [seen EXCEPT ![r] = counted \cup {r}]
    /\ UNCHANGED <<logger, with, line, counted, before>>

\* next.ServeHTTP, for everything behind the chain.
Serve(r) ==
    /\ Move(r, "serving", "served")
    /\ seen' = [seen EXCEPT ![r] = IF r \in Scrapes THEN counted ELSE {}]
    /\ UNCHANGED <<logger, with, line, counted, before>>

PanicCounted(r) ==   \* mutant: counts in a defer
    /\ Move(r, "serving", "panicked")
    /\ counted' = counted \cup {r}
    /\ UNCHANGED <<logger, with, line, seen, before>>

\* The handler panics.  Nothing in the chain recovers, net/http does.
Panic(r) ==
    /\ Move(r, "serving", "panicked")
    /\ UNCHANGED <<logger, with, line, counted, seen, before>>

Count(r) ==
    /\ Move(r, "served", "counted")
    /\ counted' = counted \cup {r}
    /\ UNCHANGED <<logger, with, line, seen, before>>

LogWithId(r) ==   \* mutant: adds its request_id again
    /\ Move(r, "counted", "logged")
    /\ line' = [line EXCEPT ![r] = Append(logger, r)]
    /\ UNCHANGED <<logger, with, counted, seen, before>>

\* logger.Info("HTTP request")
Log(r) ==
    /\ Move(r, "counted", "logged")
    /\ line' = [line EXCEPT ![r] = logger]
    /\ UNCHANGED <<logger, with, counted, seen, before>>

\* The process dies and starts again, with a new logger and a new registry.
Die ==
    /\ stage' = [r \in Requests |-> IF stage[r] = "new" THEN "new" ELSE "past"]
    /\ logger' = <<>>
    /\ counted' = {}
    /\ UNCHANGED <<with, line, seen, before>>

----
MiddlewareInit ==
    /\ stage = [r \in Requests |-> "new"]
    /\ logger = <<>>
    /\ with = [r \in Requests |-> <<>>]
    /\ line = [r \in Requests |-> <<>>]
    /\ counted = {}
    /\ seen = [r \in Requests |-> {}]
    /\ before = [r \in Requests |-> {}]

Pass(r) ==
    \/ Arrive(r) \/ With(r)  \/ Rebind(r) \/ Serve(r)
    \/ Panic(r)  \/ Count(r) \/ Log(r)

MiddlewareNext == (\E r \in Requests : Pass(r)) \/ Die

MiddlewareSpec == MiddlewareInit /\ [][MiddlewareNext]_middlewareVars

----
(***************************************************************************)
(* Properties.                                                             *)
(***************************************************************************)

\* Every variable holds a value of its kind, and the counter holds those
\* whose handler has returned in this process.
MiddlewareTypeOK ==
    /\ stage \in [Requests -> {"new", "arrived", "with", "serving", "served", "counted"} \cup Over]
    /\ logger \in Seq(Requests)
    /\ with \in [Requests -> Seq(Requests)]
    /\ line \in [Requests -> Seq(Requests)]
    /\ counted = {r \in Requests : stage[r] \in {"counted", "logged"}}
    /\ seen \in [Requests -> SUBSET Requests]
    /\ before \in [Requests -> SUBSET Requests]

\* The request_ids of other requests get into a line and its own may be
\* missing.  But the last one was added by a request that was under way
\* meanwhile: alone, a request's line ends with its own.
LineOfItsTime ==
    \A r \in Requests : stage[r] = "logged" =>
        line[r] # <<>> /\ line[r][Len(line[r])] \notin before[r]

\* The logger of a process grows as long as it lives.  How fast is bounded: a
\* line has at most one request_id from each request this process has let
\* through so far, and none from any other, whichever of two racing
\* assignments is lost.
Through == {"serving", "served", "counted", "logged", "panicked"}

OneIdPerRequest ==
    \A r \in Requests : stage[r] = "logged" =>
        /\ \A i \in 1..Len(line[r]) : stage[line[r][i]] \in Through
        /\ \A i, j \in 1..Len(line[r]) : line[r][i] = line[r][j] => i = j

\* A scrape reports every request that was logged before it came in, and
\* never itself.
ScrapeComplete ==
    \A r \in Scrapes : stage[r] \in {"served", "counted", "logged"} =>
        /\ {x \in before[r] : stage[x] = "logged"} \subseteq seen[r]
        /\ r \notin seen[r]

====
