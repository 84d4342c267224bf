------------------------- MODULE GitHubClientProofs -------------------------
(***************************************************************************)
(* Theorems about GitHubClient, for any number of goroutines and every     *)
(* setting of the breaker.                                                 *)
(***************************************************************************)
EXTENDS GitHubClient, TLAPS, FiniteSetTheorems

Breakers ==
  [state : circuitState, consecutiveFail : 0 .. MaxFailures,
   age : 0 .. OpenInterval, halfOpenActive : 0 .. HalfOpenLimit]

CallTypes == [pc : {"idle", "queued", "sent", "backoff"}, sent : 0 .. MaxRequests]

\* A queued call and a pausing call have requests left.
Inv ==
  /\ TypeOK
  /\ ClosedBelowLimit
  /\ \A c \in Callers :
       call[c].pc \in {"queued", "backoff"} => call[c].sent < MaxRequests

BelowLimit(b) == b.state = "closed" => b.consecutiveFail < FailureLimit

----------------------------------------------------------------------------
(* The breaker.                                                            *)

\* A new breaker is closed without failures.
LEMMA NewBreaker ==
  newCircuitBreaker \in Breakers /\ BelowLimit(newCircuitBreaker)
  BY ClientAssumption DEF newCircuitBreaker, Breakers, circuitState, BelowLimit

\* before, when it admits, keeps the probes within the limit.
LEMMA BeforeBreaker ==
  ASSUME NEW b \in Breakers, BelowLimit(b), Admits(b)
  PROVE  before(b) \in Breakers /\ BelowLimit(before(b))
<1>1. CASE b.state = "closed"
  BY <1>1 DEF before
<1>2. CASE b.state # "closed"
  <2>1. (IF b.state = "open" THEN 1 ELSE b.halfOpenActive + 1) \in 0 .. HalfOpenLimit
    BY <1>2, ClientAssumption DEF Admits, CoolDownOver, Breakers, circuitState
  <2> QED
    BY <1>2, <2>1 DEF before, Breakers, circuitState, BelowLimit
<1> QED
  BY <1>1, <1>2

\* Counting a failure keeps the state and never passes the limit unseen.
LEMMA CountedBreaker ==
  ASSUME NEW b \in Breakers
  PROVE  /\ Counted(b) \in Breakers
         /\ Counted(b).state = b.state
  BY ClientAssumption DEF Counted, Breakers

\* Opening a breaker gives an open breaker with no probes.
LEMMA OpenedBreaker ==
  ASSUME NEW b \in Breakers
  PROVE  Opened(b) \in Breakers /\ Opened(b).state = "open"
  BY ClientAssumption DEF Opened, Breakers, circuitState

\* failure opens the breaker or leaves it below the limit, never half-open.
LEMMA FailureBreaker ==
  ASSUME NEW b \in Breakers, BelowLimit(b)
  PROVE  /\ failure(b) \in Breakers
         /\ BelowLimit(failure(b))
         /\ failure(b).state # "half_open"
<1>1. CASE b.state = "half_open"
  BY <1>1, OpenedBreaker DEF failure, BelowLimit
<1>2. CASE b.state # "half_open" /\ Counted(b).consecutiveFail >= FailureLimit
  <2>1. failure(b) = Opened(Counted(b))
    BY <1>2 DEF failure
  <2>2. Counted(b) \in Breakers
    BY CountedBreaker
  <2> QED
    BY <2>1, <2>2, OpenedBreaker DEF BelowLimit
<1>3. CASE b.state # "half_open" /\ ~(Counted(b).consecutiveFail >= FailureLimit)
  <2>1. failure(b) = Counted(b)
    BY <1>3 DEF failure
  <2>2. Counted(b).consecutiveFail \in Int
    BY CountedBreaker DEF Breakers
  <2> QED
    BY <1>3, <2>1, <2>2, CountedBreaker, ClientAssumption DEF BelowLimit
<1> QED
  BY <1>1, <1>2, <1>3

\* However a call ends, the breaker it reports to is not half-open after.
LEMMA ObservedBreaker ==
  ASSUME NEW b \in Breakers, BelowLimit(b), NEW r
  PROVE  /\ observeCircuitResult(b, r) \in Breakers
         /\ BelowLimit(observeCircuitResult(b, r))
         /\ observeCircuitResult(b, r).state # "half_open"
         /\ success(b) \in Breakers /\ BelowLimit(success(b))
         /\ success(b).state # "half_open"
  BY FailureBreaker, NewBreaker DEF observeCircuitResult, success, newCircuitBreaker
----------------------------------------------------------------------------
(* The calls.                                                              *)

\* The invariant, part by part, as the provers use it.
LEMMA InvParts ==
  Inv <=> /\ breaker \in Breakers
          /\ BelowLimit(breaker)
          /\ call \in [Callers -> CallTypes]
          /\ \A c \in Callers :
               call[c].pc \in {"queued", "backoff"} => call[c].sent < MaxRequests
          /\ healthy \in BOOLEAN
  BY DEF Inv, TypeOK, ClosedBelowLimit, Breakers, CallTypes, BelowLimit

\* A call that has ended holds nothing.
LEMMA IdleCallType == IdleCall \in CallTypes /\ IdleCall.pc = "idle"
  BY ClientAssumption DEF IdleCall, CallTypes

\* The invariant after a step that gives caller c a new call record.
LEMMA CallStep ==
  ASSUME Inv, NEW c \in Callers, NEW r \in CallTypes,
         r.pc \in {"queued", "backoff"} => r.sent < MaxRequests,
         call' = [call EXCEPT ![c] = r],
         breaker' \in Breakers, BelowLimit(breaker'),
         healthy' = healthy
  PROVE  Inv'
<1>1. /\ call \in [Callers -> CallTypes]
      /\ \A d \in Callers :
           call[d].pc \in {"queued", "backoff"} => call[d].sent < MaxRequests
      /\ healthy \in BOOLEAN
  BY InvParts
<1>2. call' \in [Callers -> CallTypes]
  BY <1>1
<1>3. \A d \in Callers :
        call'[d].pc \in {"queued", "backoff"} => call'[d].sent < MaxRequests
  BY <1>1
<1>4. breaker' \in [state : circuitState, consecutiveFail : 0 .. MaxFailures,
                    age : 0 .. OpenInterval, halfOpenActive : 0 .. HalfOpenLimit]
  BY DEF Breakers
<1>5. TypeOK'
  BY <1>1, <1>2, <1>4 DEF TypeOK, CallTypes
<1>6. ClosedBelowLimit'
  BY DEF ClosedBelowLimit, BelowLimit
<1> QED
  BY <1>3, <1>5, <1>6 DEF Inv

\* do lets a call in.
LEMMA StartKeeps ==
  ASSUME Inv, NEW c \in Callers, Start(c)
  PROVE  Inv'
<1> DEFINE r == [pc |-> "queued", sent |-> 0]
<1>1. /\ r \in CallTypes /\ (r.pc \in {"queued", "backoff"} => r.sent < MaxRequests)
      /\ call' = [call EXCEPT ![c] = r]
      /\ healthy' = healthy
  BY ClientAssumption DEF Start, CallTypes
<1>2. breaker' \in Breakers /\ BelowLimit(breaker')
  BY InvParts, BeforeBreaker DEF Start
<1> HIDE DEF r
<1> QED
  BY <1>1, <1>2, CallStep

\* once takes a slot and sends a request that the call has left.
LEMMA SendKeeps ==
  ASSUME Inv, NEW c \in Callers, Send(c)
  PROVE  Inv'
<1> DEFINE r == [pc |-> "sent", sent |-> call[c].sent + 1]
<1>1. call[c].sent \in 0 .. MaxRequests /\ call[c].sent < MaxRequests
  BY InvParts DEF Send, CallTypes
<1>2. /\ r \in CallTypes /\ r.pc \notin {"queued", "backoff"}
      /\ call' = [call EXCEPT ![c] = r]
      /\ healthy' = healthy /\ breaker' = breaker
  BY <1>1, ClientAssumption DEF Send, CallTypes
<1>3. breaker' \in Breakers /\ BelowLimit(breaker')
  BY <1>2, InvParts
<1> HIDE DEF r
<1> QED
  BY <1>2, <1>3, CallStep

\* Giving up in the queue reports a failure, and the breaker is not half-open.
LEMMA AbandonQueueKeeps ==
  ASSUME Inv, NEW c \in Callers, AbandonQueue(c)
  PROVE  Inv' /\ breaker'.state # "half_open"
<1>1. breaker' \in Breakers /\ BelowLimit(breaker') /\ breaker'.state # "half_open"
  BY InvParts, FailureBreaker DEF AbandonQueue
<1>2. call' = [call EXCEPT ![c] = IdleCall] /\ healthy' = healthy
  BY DEF AbandonQueue
<1> QED
  BY <1>1, <1>2, IdleCallType, CallStep

\* An answer either pauses the call and leaves the breaker alone, or ends the
\* call and leaves the breaker not half-open.
LEMMA ReceiveKeeps ==
  ASSUME Inv, NEW c \in Callers, Receive(c)
  PROVE  /\ Inv'
         /\ \/ breaker'.state # "half_open"
            \/ /\ breaker' = breaker
               /\ call[c].pc # "idle"
               /\ call' = [call EXCEPT ![c] = [pc |-> "backoff", sent |-> call[c].sent]]
<1>1. PICK r \in Possible :
        IF r.retry /\ call[c].sent < MaxRequests
        THEN /\ call' = [call EXCEPT ![c] = [pc |-> "backoff", sent |-> call[c].sent]]
             /\ UNCHANGED breaker
        ELSE /\ call' = [call EXCEPT ![c] = IdleCall]
             /\ breaker' = IF r.ok THEN success(breaker)
                           ELSE observeCircuitResult(breaker, r)
  BY DEF Receive
<1>2. healthy' = healthy /\ call[c].pc = "sent"
  BY DEF Receive
<1>3. CASE r.retry /\ call[c].sent < MaxRequests
  <2> DEFINE k == [pc |-> "backoff", sent |-> call[c].sent]
  <2>1. k \in CallTypes /\ (k.pc \in {"queued", "backoff"} => k.sent < MaxRequests)
    BY <1>3, InvParts DEF CallTypes
  <2>2. call' = [call EXCEPT ![c] = k] /\ breaker' = breaker
    BY <1>1, <1>3
  <2>3. breaker' \in Breakers /\ BelowLimit(breaker')
    BY <2>2, InvParts
  <2>4. call[c].pc # "idle"
    BY <1>2
  <2>5. Inv'
    <3> HIDE DEF k
    <3> QED
      BY <1>2, <2>1, <2>2, <2>3, CallStep
  <2> QED
    BY <2>2, <2>4, <2>5
<1>4. CASE ~(r.retry /\ call[c].sent < MaxRequests)
  <2>1. call' = [call EXCEPT ![c] = IdleCall]
    BY <1>1, <1>4
  <2>2. breaker' = success(breaker) \/ breaker' = observeCircuitResult(breaker, r)
    BY <1>1, <1>4
  <2>3. breaker' \in Breakers /\ BelowLimit(breaker') /\ breaker'.state # "half_open"
    BY <2>2, InvParts, ObservedBreaker
  <2> QED
    BY <1>2, <2>1, <2>3, IdleCallType, CallStep
<1> QED
  BY <1>3, <1>4

\* A pause ends.
LEMMA WakeUpKeeps ==
  ASSUME Inv, NEW c \in Callers, WakeUp(c)
  PROVE  Inv'
<1> DEFINE r == [pc |-> "queued", sent |-> call[c].sent]
<1>1. /\ r \in CallTypes /\ (r.pc \in {"queued", "backoff"} => r.sent < MaxRequests)
      /\ call' = [call EXCEPT ![c] = r]
      /\ healthy' = healthy /\ breaker' = breaker
  BY InvParts DEF WakeUp, CallTypes
<1>2. breaker' \in Breakers /\ BelowLimit(breaker')
  BY <1>1, InvParts
<1> HIDE DEF r
<1> QED
  BY <1>1, <1>2, CallStep

\* Giving up during a pause leaves the breaker as it was.
LEMMA AbandonBackoffKeeps ==
  ASSUME Inv, NEW c \in Callers, AbandonBackoff(c)
  PROVE  Inv'
<1>1. breaker' \in Breakers /\ BelowLimit(breaker')
  BY InvParts DEF AbandonBackoff
<1>2. call' = [call EXCEPT ![c] = IdleCall] /\ healthy' = healthy
  BY DEF AbandonBackoff
<1> QED
  BY <1>1, <1>2, IdleCallType, CallStep

\* Time and the provider's health do not touch the calls.
LEMMA EnvironmentKeeps ==
  ASSUME Inv, Tick \/ Weather
  PROVE  Inv'
<1>1. CASE Tick
  <2>1. breaker \in Breakers /\ breaker.state = "open" /\ breaker.age < OpenInterval
    BY <1>1, InvParts DEF Tick
  <2>2. breaker' = [breaker EXCEPT !.age = breaker.age + 1]
    BY <1>1 DEF Tick
  <2>3. breaker' \in Breakers /\ breaker'.state = "open"
    BY <2>1, <2>2, ClientAssumption DEF Breakers
  <2>4. call' = call /\ healthy' = healthy
    BY <1>1 DEF Tick
  <2> QED
    BY <2>3, <2>4 DEF Inv, TypeOK, ClosedBelowLimit, Breakers
<1>2. CASE Weather
  BY <1>2 DEF Weather, Inv, TypeOK, ClosedBelowLimit
<1> QED
  BY <1>1, <1>2

\* Every step of impatient callers keeps the invariant.
LEMMA NextKeeps == Inv /\ [Next]_vars => Inv'
<1> SUFFICES ASSUME Inv, [Next]_vars PROVE Inv'
  OBVIOUS
<1>1. CASE UNCHANGED vars
  BY <1>1 DEF vars, Inv, TypeOK, ClosedBelowLimit
<1>2. CASE Next
  BY <1>2, StartKeeps, SendKeeps, AbandonQueueKeeps, ReceiveKeeps, WakeUpKeeps,
     AbandonBackoffKeeps, EnvironmentKeeps DEF Next, NextPatient
<1> QED
  BY <1>1, <1>2

\* A new client satisfies the invariant.
LEMMA InitInv == Init => Inv
<1> SUFFICES ASSUME Init PROVE Inv
  OBVIOUS
<1>1. breaker \in Breakers /\ BelowLimit(breaker)
  BY NewBreaker DEF Init
<1>2. call \in [Callers -> CallTypes] /\ \A c \in Callers : call[c].pc = "idle"
  BY IdleCallType DEF Init
<1> QED
  BY <1>1, <1>2, InvParts DEF Init
----------------------------------------------------------------------------
(* Patient callers: a probe's slot is given back.                          *)

\* The calls in flight are a finite set.
LEMMA InFlightFinite == IsFiniteSet(InFlight)
  BY ClientAssumption, FS_Subset DEF InFlight

\* A step that keeps every call in flight keeps the calls counted.
LEMMA StillInFlight ==
  ASSUME InFlight \subseteq InFlight', IsFiniteSet(InFlight'),
         ProbesAreInFlight, Inv, breaker' = breaker
  PROVE  ProbesAreInFlight'
<1>1. Cardinality(InFlight) <= Cardinality(InFlight')
  BY FS_Subset
<1>2. Cardinality(InFlight) \in Nat /\ Cardinality(InFlight') \in Nat
  BY InFlightFinite, FS_CardinalityType
<1>3. breaker.halfOpenActive \in Nat
  BY InvParts, ClientAssumption DEF Breakers
<1> QED
  BY <1>1, <1>2, <1>3 DEF ProbesAreInFlight

\* The set of calls in flight is finite after any step, too.
LEMMA InFlightFiniteNext == IsFiniteSet(InFlight')
  BY ClientAssumption, FS_Subset DEF InFlight

\* A call that is let in is one more call in flight and at most one more probe.
LEMMA StartProbes ==
  ASSUME Inv, ProbesAreInFlight, NEW c \in Callers, Start(c)
  PROVE  ProbesAreInFlight'
<1>1. call \in [Callers -> CallTypes] /\ breaker \in Breakers
  BY InvParts
<1>2. call' = [call EXCEPT ![c] = [pc |-> "queued", sent |-> 0]] /\ call[c].pc = "idle"
  BY DEF Start
<1>3. InFlight' = InFlight \cup {c} /\ c \notin InFlight
  BY <1>1, <1>2 DEF InFlight
<1>4. Cardinality(InFlight') = Cardinality(InFlight) + 1 /\ Cardinality(InFlight) \in Nat
  BY <1>3, InFlightFinite, FS_AddElement, FS_CardinalityType
<1>5. breaker' = before(breaker) /\ Admits(breaker)
  BY DEF Start
<1>6. breaker'.state = "half_open" =>
        \/ breaker'.halfOpenActive = 1
        \/ breaker.state = "half_open" /\ breaker'.halfOpenActive = breaker.halfOpenActive + 1
  BY <1>1, <1>5 DEF before, Breakers, circuitState
<1>7. breaker.halfOpenActive \in Nat
  BY <1>1, ClientAssumption DEF Breakers
<1> QED
  BY <1>4, <1>6, <1>7 DEF ProbesAreInFlight

\* A step that changes the call of c to another in flight keeps the probes.
LEMMA MoveProbes ==
  ASSUME Inv, ProbesAreInFlight, NEW c \in Callers, NEW r, r.pc # "idle",
         call' = [call EXCEPT ![c] = r], breaker' = breaker
  PROVE  ProbesAreInFlight'
<1>1. call \in [Callers -> CallTypes]
  BY InvParts
<1>2. InFlight \subseteq InFlight'
  BY <1>1 DEF InFlight
<1> QED
  BY <1>2, InFlightFiniteNext, StillInFlight

\* Every step of patient callers keeps the probes in flight.
LEMMA NextPatientProbes ==
  Inv /\ ProbesAreInFlight /\ [NextPatient]_vars => ProbesAreInFlight'
<1> SUFFICES ASSUME Inv, ProbesAreInFlight, [NextPatient]_vars PROVE ProbesAreInFlight'
  OBVIOUS
<1>1. CASE UNCHANGED vars
  BY <1>1 DEF vars, ProbesAreInFlight, InFlight
<1>2. ASSUME NEW c \in Callers, Start(c) PROVE ProbesAreInFlight'
  BY <1>2, StartProbes
<1>3. ASSUME NEW c \in Callers, Send(c) PROVE ProbesAreInFlight'
  <2>1. [pc |-> "sent", sent |-> call[c].sent + 1].pc # "idle"
    OBVIOUS
  <2> QED
    BY <1>3, <2>1, MoveProbes DEF Send
<1>4. ASSUME NEW c \in Callers, AbandonQueue(c) PROVE ProbesAreInFlight'
  BY <1>4, AbandonQueueKeeps DEF ProbesAreInFlight
<1>5. ASSUME NEW c \in Callers, Receive(c) PROVE ProbesAreInFlight'
  <2>1. CASE breaker'.state # "half_open"
    BY <2>1 DEF ProbesAreInFlight
  <2>2. CASE /\ breaker' = breaker
             /\ call' = [call EXCEPT ![c] = [pc |-> "backoff", sent |-> call[c].sent]]
    <3>1. [pc |-> "backoff", sent |-> call[c].sent].pc # "idle"
      OBVIOUS
    <3> QED
      BY <2>2, <3>1, MoveProbes
  <2> QED
    BY <1>5, <2>1, <2>2, ReceiveKeeps
<1>6. ASSUME NEW c \in Callers, WakeUp(c) PROVE ProbesAreInFlight'
  <2>1. [pc |-> "queued", sent |-> call[c].sent].pc # "idle"
    OBVIOUS
  <2> QED
    BY <1>6, <2>1, MoveProbes DEF WakeUp
<1>7. CASE Tick
  <2>1. breaker \in Breakers
    BY InvParts
  <2> QED
    BY <1>7, <2>1 DEF Tick, ProbesAreInFlight, Breakers
<1>8. CASE Weather
  BY <1>8 DEF Weather, ProbesAreInFlight, InFlight
<1> QED
  BY <1>1, <1>2, <1>3, <1>4, <1>5, <1>6, <1>7, <1>8 DEF NextPatient

----------------------------------------------------------------------------
\* The invariant holds in every run, with callers that give up anywhere.
THEOREM Invariance == Spec => []Inv
  BY InitInv, NextKeeps, PTL DEF Spec

\* The breaker and the calls always have their types: probes never exceed
\* GITHUB_CIRCUIT_BREAKER_HALF_OPEN_MAX_REQUESTS.
THEOREM TypeCorrect == Spec => []TypeOK
<1>1. Inv => TypeOK
  BY DEF Inv
<1> QED
  BY Invariance, <1>1, PTL

\* A breaker is never closed with as many failures in a row as its limit.
THEOREM ClosedMeansBelowLimit == Spec => []ClosedBelowLimit
<1>1. Inv => ClosedBelowLimit
  BY DEF Inv
<1> QED
  BY Invariance, <1>1, PTL

\* With callers that wait out their pauses, the probes that a half-open
\* breaker counts are calls in flight.
THEOREM ProbesComeBack == SpecPatient => []ProbesAreInFlight
<1>1. NextPatient => Next
  BY DEF Next
<1>2. Init => ProbesAreInFlight
  BY DEF Init, newCircuitBreaker, ProbesAreInFlight
<1>3. Inv /\ ProbesAreInFlight /\ [NextPatient]_vars => Inv' /\ ProbesAreInFlight'
  BY <1>1, NextKeeps, NextPatientProbes
<1> QED
  BY InitInv, <1>2, <1>3, PTL DEF SpecPatient
=============================================================================
