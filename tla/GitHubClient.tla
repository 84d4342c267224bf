---------------------------- MODULE GitHubClient ----------------------------
(***************************************************************************)
(* packages/githubapi: the outbound client (client.go) and its circuit     *)
(* breaker (circuitbreaker.go).  Any number of goroutines share one client *)
(* and its breaker; a call asks the breaker once, then sends up to         *)
(* MaxRequests requests with a pause between them, and tells the breaker   *)
(* how it ended.  RESTClient.do and GraphQLClient.QueryJSON have the same  *)
(* control: a response is abstracted to what observeCircuitResult and the  *)
(* retry loop make of it.                                                  *)
(***************************************************************************)
EXTENDS Integers, FiniteSets

CONSTANTS
  Callers,         \* goroutines that use the client
  FailureLimit,    \* GITHUB_CIRCUIT_BREAKER_FAILURE_THRESHOLD
  OpenInterval,    \* GITHUB_CIRCUIT_BREAKER_OPEN_INTERVAL
  HalfOpenLimit,   \* GITHUB_CIRCUIT_BREAKER_HALF_OPEN_MAX_REQUESTS
  MaxConcurrency,  \* slots of the semaphore c.sem
  MaxRequests,     \* requests per call: 3 in the code
  MaxFailures      \* bound: the failure counter stops here

ASSUME ClientAssumption ==
  /\ IsFiniteSet(Callers)
  /\ FailureLimit \in Nat \ {0}
  /\ OpenInterval \in Nat \ {0}
  /\ HalfOpenLimit \in Nat \ {0}
  /\ MaxConcurrency \in Nat \ {0}
  /\ MaxRequests \in Nat \ {0}
  /\ MaxFailures \in Nat
  /\ MaxFailures >= FailureLimit

VARIABLES
  breaker,  \* the circuitBreaker; `age' is now - openedAt
  call,     \* call[c]: the call that c is making
  healthy   \* environment: GitHub answers and nobody gives up waiting

vars == <<breaker, call, healthy>>

----------------------------------------------------------------------------
(* The circuit breaker: three operations, each atomic under b.mu.          *)

circuitState == {"closed", "open", "half_open"}

newCircuitBreaker ==
  [state |-> "closed", consecutiveFail |-> 0, age |-> 0, halfOpenActive |-> 0]

CoolDownOver(b) == b.state = "open" /\ b.age >= OpenInterval

\* Mutant: half-open probes are not limited.
AdmitsAnyProbe(b) == b.state \in {"closed", "half_open"} \/ CoolDownOver(b)

\* before returns nil.
Admits(b) ==
  \/ b.state = "closed"
  \/ CoolDownOver(b)
  \/ b.state = "half_open" /\ b.halfOpenActive < HalfOpenLimit

\* The breaker after before returned nil.
before(b) ==
  IF b.state = "closed" THEN b
  ELSE [state           |-> "half_open",
        consecutiveFail |-> b.consecutiveFail,
        age             |-> b.age,
        halfOpenActive  |-> IF b.state = "open" THEN 1 ELSE b.halfOpenActive + 1]

success(b) == newCircuitBreaker

Opened(b) ==
  [state |-> "open", consecutiveFail |-> b.consecutiveFail, age |-> 0, halfOpenActive |-> 0]

Counted(b) ==
  [b EXCEPT !.consecutiveFail = IF @ < MaxFailures THEN @ + 1 ELSE MaxFailures]

\* Mutant: a failed probe does not reopen the breaker.
failureStaysHalfOpen(b) ==
  IF b.state = "half_open" THEN Counted(b)
  ELSE IF Counted(b).consecutiveFail >= FailureLimit THEN Opened(Counted(b)) ELSE Counted(b)

\* A failure reported while the breaker is open restarts the cool-down.
failure(b) ==
  IF b.state = "half_open" THEN Opened(b)
  ELSE IF Counted(b).consecutiveFail >= FailureLimit THEN Opened(Counted(b)) ELSE Counted(b)

\* Mutant: a 4xx answer is not taken as a sign of life.
observeFailuresOnly(b, response) ==
  IF response.failing THEN failure(b) ELSE b

\* observeCircuitResult: status 0 (no response), 429 and 5xx are failures.
observeCircuitResult(b, response) ==
  IF response.failing THEN failure(b) ELSE success(b)

----------------------------------------------------------------------------
(* Calls.                                                                  *)

\* A response, by what the retry loop does with it: `ok' ends the call well,
\* `retry' asks for another request, `failing' is a failure to the breaker.
Responses ==
  [ok : {TRUE}, retry : {FALSE}, failing : {FALSE}]
    \cup [ok : {FALSE}, retry : BOOLEAN, failing : BOOLEAN]

\* What c may get: an answer below 500 (rate limits and 4xx included) when
\* healthy, anything otherwise.
Possible == {r \in Responses : healthy => ~r.failing}

IdleCall == [pc |-> "idle", sent |-> 0]

Init ==
  /\ breaker = newCircuitBreaker
  /\ call = [c \in Callers |-> IdleCall]
  /\ healthy = TRUE

\* do: the breaker lets the call in.  A refused call changes nothing.
Start(c) ==
  /\ call[c].pc = "idle"
  /\ Admits(breaker)
  /\ breaker' = before(breaker)
  /\ call' = [call EXCEPT ![c] = [pc |-> "queued", sent |-> 0]]
  /\ UNCHANGED healthy

\* once: the request takes a slot of the semaphore.
Send(c) ==
  /\ call[c].pc = "queued"
  /\ Cardinality({d \in Callers : call[d].pc = "sent"}) < MaxConcurrency
  /\ call' = [call EXCEPT ![c] = [pc |-> "sent", sent |-> call[c].sent + 1]]
  /\ UNCHANGED <<breaker, healthy>>

\* once: the caller's context ends while it waits for a slot (status 0).
AbandonQueue(c) ==
  /\ call[c].pc = "queued"
  /\ ~healthy
  /\ call' = [call EXCEPT ![c] = IdleCall]
  /\ breaker' = failure(breaker)
  /\ UNCHANGED healthy

\* The request ends: with an answer, a transport error, no token, or because
\* the caller's context ended.  The call ends or pauses before a retry.
Receive(c) ==
  /\ call[c].pc = "sent"
  /\ \E r \in Possible :
       IF r.retry /\ call[c].sent < MaxRequests
       THEN /\ call' = [call EXCEPT ![c] = [pc |-> "backoff", sent |-> call[c].sent]]
            /\ UNCHANGED breaker
       ELSE /\ call' = [call EXCEPT ![c] = IdleCall]
            /\ breaker' = IF r.ok THEN success(breaker)
                          ELSE observeCircuitResult(breaker, r)
  /\ UNCHANGED healthy

\* sleepWithContext: the pause ends.
WakeUp(c) ==
  /\ call[c].pc = "backoff"
  /\ call' = [call EXCEPT ![c] = [pc |-> "queued", sent |-> call[c].sent]]
  /\ UNCHANGED <<breaker, healthy>>

\* sleepWithContext: the caller's context ends during the pause, and the
\* call returns without telling the breaker.
AbandonBackoff(c) ==
  /\ call[c].pc = "backoff"
  /\ ~healthy
  /\ call' = [call EXCEPT ![c] = IdleCall]
  /\ UNCHANGED <<breaker, healthy>>

Tick ==
  /\ breaker.state = "open" /\ breaker.age < OpenInterval
  /\ breaker' = [breaker EXCEPT !.age = @ + 1]
  /\ UNCHANGED <<call, healthy>>

Weather ==
  /\ healthy' = ~healthy
  /\ UNCHANGED <<breaker, call>>

\* Nobody gives up during a pause.
NextPatient ==
  \/ \E c \in Callers :
       Start(c) \/ Send(c) \/ AbandonQueue(c) \/ Receive(c) \/ WakeUp(c)
  \/ Tick
  \/ Weather

Next ==
  \/ NextPatient
  \/ \E c \in Callers : AbandonBackoff(c)

\* Requests and pauses end (HTTP client timeout, timers), the semaphore is
\* handed on, time passes, and the workers keep calling.
Fairness ==
  /\ WF_vars(Tick)
  /\ WF_vars(\E c \in Callers : Start(c))
  /\ \A c \in Callers : SF_vars(Send(c)) /\ WF_vars(Receive(c)) /\ WF_vars(WakeUp(c))

SpecPatient == Init /\ [][NextPatient]_vars /\ Fairness

Spec == Init /\ [][Next]_vars /\ Fairness

----------------------------------------------------------------------------
\* The breaker and the calls have their Go types.
TypeOK ==
  /\ breaker \in [state : circuitState, consecutiveFail : 0 .. MaxFailures,
                  age : 0 .. OpenInterval, halfOpenActive : 0 .. HalfOpenLimit]
  /\ call \in [Callers -> [pc : {"idle", "queued", "sent", "backoff"}, sent : 0 .. MaxRequests]]
  /\ healthy \in BOOLEAN

InFlight == {c \in Callers : call[c].pc # "idle"}

\* A half-open breaker that counts probes has them in flight: a slot is given
\* back when its call ends, whichever calls of earlier periods end meanwhile.
\* If no slot is free and no call in flight, the breaker refuses for ever
\* (docs/architecture.md: "fail fast until the configured cool-down interval
\* allows a half-open probe").
ProbesAreInFlight ==
  breaker.state = "half_open" => breaker.halfOpenActive <= Cardinality(InFlight)

\* A closed breaker has seen fewer failures in a row than the limit, however
\* late the reports of overlapping calls arrive.
ClosedBelowLimit ==
  breaker.state = "closed" => breaker.consecutiveFail < FailureLimit

\* Once GitHub stays healthy the breaker closes for good, whatever state the
\* outage left it in and whatever calls are still in flight.
Recovers == <>[]healthy => <>[](breaker.state = "closed")
=============================================================================
