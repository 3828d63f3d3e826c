---- MODULE MiddlewareProofs ----
(***************************************************************************)
(* Theorems about Middleware, for any number of requests.                  *)
(***************************************************************************)
EXTENDS Middleware, TLAPS

\* Every step keeps the variables in their kinds.
LEMMA MiddlewareTypeStep ==
    MiddlewareTypeOK /\ [MiddlewareNext]_middlewareVars => MiddlewareTypeOK'
<1> SUFFICES ASSUME MiddlewareTypeOK, [MiddlewareNext]_middlewareVars  PROVE MiddlewareTypeOK'
  OBVIOUS
<1> USE DEF MiddlewareTypeOK, Over
<1>1. ASSUME NEW r \in Requests, Arrive(r)  PROVE MiddlewareTypeOK'
  BY <1>1 DEF Arrive, Move
<1>2. ASSUME NEW r \in Requests, With(r)  PROVE MiddlewareTypeOK'
  BY <1>2 DEF With, Move
<1>3. ASSUME NEW r \in Requests, Rebind(r)  PROVE MiddlewareTypeOK'
  BY <1>3 DEF Rebind, Move
<1>4. ASSUME NEW r \in Requests, Serve(r) \/ Panic(r)  PROVE MiddlewareTypeOK'
  BY <1>4 DEF Serve, Panic, Move
<1>5. ASSUME NEW r \in Requests, Count(r)  PROVE MiddlewareTypeOK'
  BY <1>5 DEF Count, Move
<1>6. ASSUME NEW r \in Requests, Log(r)  PROVE MiddlewareTypeOK'
  BY <1>6 DEF Log, Move
<1>7. CASE Die
  BY <1>7 DEF Die
<1>8. CASE UNCHANGED middlewareVars
  BY <1>8 DEF middlewareVars
<1> QED
  BY <1>1, <1>2, <1>3, <1>4, <1>5, <1>6, <1>7, <1>8 DEF MiddlewareNext, Pass

\* Every variable holds a value of its kind; the counter counts every request
\* whose handler returned and no other.
THEOREM MiddlewareTypeCorrect == MiddlewareSpec => []MiddlewareTypeOK
<1>1. MiddlewareInit => MiddlewareTypeOK
  BY DEF MiddlewareInit, MiddlewareTypeOK
<1> QED  BY <1>1, MiddlewareTypeStep, PTL DEF MiddlewareSpec

----
(***************************************************************************)
(* Whose request_ids a line carries.                                       *)
(***************************************************************************)
\* While a request is under way the logger is named, last, after a request
\* that was not over when it came in.
Bound == {"serving", "served", "counted"}

LoggerOfItsTime ==
    /\ LineOfItsTime
    /\ \A r \in Requests :
         /\ stage[r] \notin {"new", "past"} => \A x \in before[r] : stage[x] \in Over
         /\ stage[r] = "with" => /\ with[r] # <<>>
                                 /\ with[r][Len(with[r])] = r
         /\ stage[r] \in Bound => /\ logger # <<>>
                                  /\ logger[Len(logger)] \notin before[r]

\* Each step keeps LoggerOfItsTime.
LEMMA LoggerStep ==
    MiddlewareTypeOK /\ LoggerOfItsTime /\ [MiddlewareNext]_middlewareVars => LoggerOfItsTime'
<1> SUFFICES ASSUME MiddlewareTypeOK, LoggerOfItsTime, [MiddlewareNext]_middlewareVars
             PROVE  LoggerOfItsTime'
  OBVIOUS
<1> USE DEF MiddlewareTypeOK, LoggerOfItsTime, LineOfItsTime, Over, Bound
<1>1. ASSUME NEW r \in Requests, Arrive(r)  PROVE LoggerOfItsTime'
  BY <1>1 DEF Arrive, Move
<1>2. ASSUME NEW r \in Requests, With(r)  PROVE LoggerOfItsTime'
  <2>1. Append(logger, r) # <<>> /\ Append(logger, r)[Len(Append(logger, r))] = r
    <3>1. logger \in Seq(Requests)
      OBVIOUS
    <3>2. /\ Len(Append(logger, r)) = Len(logger) + 1 /\ Len(logger) \in Nat
          /\ Append(logger, r)[Len(logger) + 1] = r
      BY <3>1 DEF MiddlewareTypeOK
    <3>3. Len(Append(logger, r)) # Len(<<>>)
      BY <3>2
    <3> QED  BY <3>2, <3>3
  <2> QED  BY <1>2, <2>1 DEF With, Move
<1>3. ASSUME NEW r \in Requests, Rebind(r)  PROVE LoggerOfItsTime'
  BY <1>3 DEF Rebind, Move
<1>4. ASSUME NEW r \in Requests, Serve(r) \/ Panic(r) \/ Count(r)  PROVE LoggerOfItsTime'
  <2>1. /\ UNCHANGED <<logger, with, line, before>>
        /\ \E from \in {"serving", "served"}, to \in {"served", "panicked", "counted"} :
             Move(r, from, to)
    BY <1>4 DEF Serve, Panic, Count
  <2>2. /\ stage[r] \in {"serving", "served"} /\ stage'[r] \in {"served", "panicked", "counted"}
        /\ \A x \in Requests \ {r} : stage'[x] = stage[x]
    BY <2>1 DEF Move
  <2>3. \A x \in Requests : stage'[x] = "logged" => stage[x] = "logged"
    BY <2>2
  <2>4. LineOfItsTime'
    BY <2>1, <2>3
  <2>5. \A x \in Requests :
          /\ stage'[x] \notin {"new", "past"} => stage[x] \notin {"new", "past"}
          /\ stage'[x] = "with" => stage[x] = "with"
          /\ stage'[x] \in Bound => stage[x] \in Bound
          /\ stage[x] \in Over => stage'[x] \in Over
    BY <2>2
  <2> QED  BY <2>1, <2>4, <2>5
<1>5. ASSUME NEW r \in Requests, Log(r)  PROVE LoggerOfItsTime'
  BY <1>5 DEF Log, Move
<1>6. CASE Die
  BY <1>6 DEF Die
<1>7. CASE UNCHANGED middlewareVars
  BY <1>7 DEF middlewareVars
<1> QED
  BY <1>1, <1>2, <1>3, <1>4, <1>5, <1>6, <1>7 DEF MiddlewareNext, Pass

\* However many requests race for the logger, the last request_id of a
\* line was added by a request that was under way while its own was.
THEOREM LinesAreOfTheirTime == MiddlewareSpec => []LineOfItsTime
<1>1. MiddlewareInit => LoggerOfItsTime
  BY DEF MiddlewareInit, LoggerOfItsTime, LineOfItsTime, Bound
<1>2. MiddlewareSpec => []LoggerOfItsTime
  BY <1>1, MiddlewareTypeCorrect, LoggerStep, PTL DEF MiddlewareSpec
<1>3. LoggerOfItsTime => LineOfItsTime
  BY DEF LoggerOfItsTime
<1> QED  BY <1>2, <1>3, PTL

----
(***************************************************************************)
(* How fast lines grow, and what scrapes report.                           *)
(***************************************************************************)
Once(ids) == \A i, j \in 1..Len(ids) : ids[i] = ids[j] => i = j

\* The logger has one request_id from each of some requests that have rebound
\* it; what a request is about to assign has its own besides.
IdsOnce ==
    /\ OneIdPerRequest
    /\ Once(logger)
    /\ \A i \in 1..Len(logger) : stage[logger[i]] \in Through
    /\ \A r \in Requests : stage[r] = "with" =>
         /\ Once(with[r])
         /\ \A i \in 1..Len(with[r]) : with[r][i] = r \/ stage[with[r][i]] \in Through

\* Adding for a request that has not added yet leaves each request once.
LEMMA AppendOnce ==
    ASSUME NEW ids \in Seq(Requests), Once(ids), NEW r \in Requests,
           \A i \in 1..Len(ids) : ids[i] # r
    PROVE  /\ Once(Append(ids, r))
           /\ \A i \in 1..Len(Append(ids, r)) :
                Append(ids, r)[i] = r \/ \E j \in 1..Len(ids) : Append(ids, r)[i] = ids[j]
  BY DEF Once

\* Each step keeps IdsOnce.
LEMMA IdsStep ==
    MiddlewareTypeOK /\ IdsOnce /\ [MiddlewareNext]_middlewareVars => IdsOnce'
<1> SUFFICES ASSUME MiddlewareTypeOK, IdsOnce, [MiddlewareNext]_middlewareVars
             PROVE  IdsOnce'
  OBVIOUS
<1> USE DEF MiddlewareTypeOK, IdsOnce, OneIdPerRequest, Over, Through
<1>1. ASSUME NEW r \in Requests, With(r)  PROVE IdsOnce'
  <2>1. \A i \in 1..Len(logger) : logger[i] # r
    BY <1>1 DEF With, Move
  <2>2. /\ Once(Append(logger, r))
        /\ \A i \in 1..Len(Append(logger, r)) :
             Append(logger, r)[i] = r \/ \E j \in 1..Len(logger) : Append(logger, r)[i] = logger[j]
    <3>1. logger \in Seq(Requests) /\ Once(logger)
      OBVIOUS
    <3> HIDE DEF MiddlewareTypeOK, IdsOnce, OneIdPerRequest
    <3> QED  BY <2>1, <3>1, AppendOnce
  <2>3. /\ UNCHANGED <<logger, line>> /\ with'[r] = Append(logger, r)
        /\ \A x \in Requests : stage[x] \in Through => stage'[x] \in Through
        /\ \A x \in Requests : stage'[x] = "logged" => stage[x] = "logged"
        /\ \A x \in Requests \ {r} : with'[x] = with[x] /\ stage'[x] = stage[x]
    BY <1>1 DEF With, Move
  <2>4. \A ids \in Seq(Requests) : \A i \in 1..Len(ids) : ids[i] \in Requests
    OBVIOUS
  <2>5. OneIdPerRequest'
    <3>1. \A x \in Requests : line'[x] = line[x] /\ line[x] \in Seq(Requests)
      BY <2>3
    <3> QED  BY <2>4, <2>3, <3>1
  <2>6. ASSUME NEW x \in Requests, stage'[x] = "with"
        PROVE  /\ Once(with[x])'
               /\ \A i \in 1..Len(with'[x]) : with'[x][i] = x \/ stage'[with'[x][i]] \in Through
    <3>1. CASE x = r
      <4>1. \A i \in 1..Len(logger) : logger[i] \in Requests /\ stage[logger[i]] \in Through
        BY <2>4
      <4>2. \A i \in 1..Len(with'[r]) : with'[r][i] = r \/ stage'[with'[r][i]] \in Through
        BY <2>2, <2>3, <4>1
      <4>3. Once(with'[r])
        BY <2>2, <2>3
      <4> QED  BY <3>1, <4>2, <4>3 DEF Once
    <3>2. CASE x # r
      <4>1. stage[x] = "with" /\ with'[x] = with[x] /\ with[x] \in Seq(Requests)
        BY <2>3, <2>6, <3>2
      <4>2. \A i \in 1..Len(with[x]) : with[x][i] \in Requests
        BY <2>4, <4>1
      <4> QED  BY <2>3, <4>1, <4>2 DEF Once
    <3> QED  BY <3>1, <3>2
  <2> QED  BY <2>3, <2>5, <2>6
<1>2. ASSUME NEW r \in Requests, Rebind(r)  PROVE IdsOnce'
  BY <1>2 DEF Rebind, Move
<1>3. ASSUME NEW r \in Requests, Log(r)  PROVE IdsOnce'
  BY <1>3 DEF Log, Move, Once
<1>4. ASSUME NEW r \in Requests, Arrive(r) \/ Serve(r) \/ Panic(r) \/ Count(r)
      PROVE  IdsOnce'
  <2>1. /\ UNCHANGED <<logger, with, line>>
        /\ \E from \in {"new", "serving", "served"},
              to \in {"arrived", "served", "panicked", "counted"} :
             Move(r, from, to) /\ (from = "new" <=> to = "arrived")
    BY <1>4 DEF Arrive, Serve, Panic, Count
  <2>2. \A x \in Requests :
          /\ stage'[x] = "logged" => stage[x] = "logged"
          /\ stage'[x] = "with" => stage[x] = "with"
          /\ stage[x] \in Through => stage'[x] \in Through
    BY <2>1 DEF Move
  <2> QED  BY <2>1, <2>2
<1>5. CASE Die
  BY <1>5 DEF Die, Once
<1>6. CASE UNCHANGED middlewareVars
  BY <1>6 DEF middlewareVars
<1> QED  BY <1>1, <1>2, <1>3, <1>4, <1>5, <1>6 DEF MiddlewareNext, Pass

\* However many requests race, each adds to the logger once at most: no line
\* has more request_ids than this process has let requests through.
THEOREM LinesGrowByRequest == MiddlewareSpec => []OneIdPerRequest
<1>1. MiddlewareInit => IdsOnce
  BY DEF MiddlewareInit, IdsOnce, OneIdPerRequest, Once
<1>2. MiddlewareSpec => []IdsOnce
  BY <1>1, MiddlewareTypeCorrect, IdsStep, PTL DEF MiddlewareSpec
<1>3. IdsOnce => OneIdPerRequest
  BY DEF IdsOnce
<1> QED  BY <1>2, <1>3, PTL

\* Each step keeps ScrapeComplete.
LEMMA ScrapeStep ==
    MiddlewareTypeOK /\ LoggerOfItsTime /\ ScrapeComplete /\ [MiddlewareNext]_middlewareVars
        => ScrapeComplete'
<1> SUFFICES ASSUME MiddlewareTypeOK, LoggerOfItsTime, ScrapeComplete,
                    [MiddlewareNext]_middlewareVars
             PROVE  ScrapeComplete'
  OBVIOUS
<1> USE ScrapesAssumption DEF MiddlewareTypeOK, LoggerOfItsTime, ScrapeComplete, Over
<1>1. ASSUME NEW r \in Requests, Serve(r)  PROVE ScrapeComplete'
  BY <1>1 DEF Serve, Move
<1>2. ASSUME NEW r \in Requests, Arrive(r)  PROVE ScrapeComplete'
  BY <1>2 DEF Arrive, Move
<1>3. ASSUME NEW r \in Requests, With(r) \/ Rebind(r) \/ Panic(r)  PROVE ScrapeComplete'
  <2>1. /\ UNCHANGED <<seen, before>>
        /\ \E to \in {"with", "serving", "panicked"} : \E from \in {"arrived", "with", "serving"} :
             Move(r, from, to)
    BY <1>3 DEF With, Rebind, Panic
  <2> QED  BY <2>1 DEF Move
<1>4. ASSUME NEW r \in Requests, Count(r)  PROVE ScrapeComplete'
  BY <1>4 DEF Count, Move
<1>5. ASSUME NEW r \in Requests, Log(r)  PROVE ScrapeComplete'
  <2>1. UNCHANGED <<seen, before>> /\ Move(r, "counted", "logged")
    BY <1>5 DEF Log
  <2>2. ASSUME NEW s \in Scrapes, stage'[s] \in {"served", "counted", "logged"},
               NEW x \in before[s], stage'[x] = "logged"
        PROVE  x \in seen[s]
    BY <2>1, <2>2 DEF Move
  <2> QED  BY <2>1, <2>2 DEF Move
<1>6. CASE Die
  BY <1>6 DEF Die
<1>7. CASE UNCHANGED middlewareVars
  BY <1>7 DEF middlewareVars
<1> QED  BY <1>1, <1>2, <1>3, <1>4, <1>5, <1>6, <1>7 DEF MiddlewareNext, Pass

\* What is in the log before a scrape comes in is in its answer, and the
\* scrape is not.
THEOREM ScrapesAreComplete == MiddlewareSpec => []ScrapeComplete
<1>1. MiddlewareInit => LoggerOfItsTime /\ ScrapeComplete
  BY ScrapesAssumption DEF MiddlewareInit, LoggerOfItsTime, LineOfItsTime, Bound, ScrapeComplete
<1> QED  BY <1>1, MiddlewareTypeCorrect, LoggerStep, ScrapeStep, PTL DEF MiddlewareSpec

====
