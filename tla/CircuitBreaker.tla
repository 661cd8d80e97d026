--------------------------- MODULE CircuitBreaker ---------------------------
(***************************************************************************)
(* The breaker around outbound Horizon calls (horizonCircuitBreaker.ts,    *)
(* horizonClient.ts).  Each caller may have one GET in flight; breaker     *)
(* and answer meet only when the answer arrives.  Time is counted in       *)
(* ticks of the waiting time: openFor is Date.now() - openedAt, capped at  *)
(* HalfOpenAfter, which is also its value for openedAt = 0.                *)
(***************************************************************************)
EXTENDS Integers, FiniteSets

CONSTANTS
    BreakerCallers,
    Threshold,       \* consecutive failures that open the breaker
    HalfOpenAfter,   \* ticks in the open state before a probe
    MaxOverrides     \* bound: calls of reset() and forceOpen()

ASSUME BreakerAssumption ==
    Threshold \in Nat \ {0} /\ HalfOpenAfter \in Nat /\ MaxOverrides \in Nat

VARIABLES
    breaker,      \* [state, failures, openFor]
    inFlight,     \* callers that await their answer
    horizonUp,    \* Horizon answers the requests that reach it
    exposed,      \* calls in flight that met Horizon while it was down
    overrides,
    tripped       \* history: [ago, cleared], see below

breakerVars == <<breaker, inFlight, horizonUp, exposed, overrides, tripped>>

Closed == [state |-> "closed", failures |-> 0, openFor |-> HalfOpenAfter]
Opened == [state |-> "open", failures |-> 0, openFor |-> 0]

\* tripped.ago: ticks since the breaker last opened, capped; cleared: since then
\* some call succeeded or reset() was called.
BreakerInit ==
    /\ breaker = Closed
    /\ inFlight = {}
    /\ horizonUp = TRUE
    /\ exposed = {}
    /\ overrides = 0
    /\ tripped = [ago |-> HalfOpenAfter, cleared |-> TRUE]

\* Mutant: the breaker stays open until it is reset.
GetState_Stuck == breaker

\* getState: OPEN becomes HALF-OPEN when somebody looks.
GetState ==
    IF breaker.state = "open" /\ breaker.openFor >= HalfOpenAfter
    THEN [breaker EXCEPT !.state = "half-open"]
    ELSE breaker

\* The health route and the span attributes of horizonGet.
ReportState ==
    /\ breaker' = GetState
    /\ UNCHANGED <<inFlight, horizonUp, exposed, overrides, tripped>>

\* horizonGet up to its await.  An open breaker throws CircuitOpenError.
Execute(c) ==
    /\ c \notin inFlight
    /\ breaker' = GetState
    /\ inFlight' = IF GetState.state = "open" THEN inFlight ELSE inFlight \cup {c}
    /\ exposed' = IF horizonUp THEN exposed ELSE inFlight'
    /\ UNCHANGED <<horizonUp, overrides, tripped>>

\* httpGet resolves (whatever the HTTP status): onSuccess.
AnswerArrives(c) ==
    /\ c \in inFlight
    /\ inFlight' = inFlight \ {c}
    /\ exposed' = exposed \ {c}
    /\ breaker' = Closed
    /\ tripped' = [tripped EXCEPT !.cleared = TRUE]
    /\ UNCHANGED <<horizonUp, overrides>>

\* A failed probe, or the last failure the breaker puts up with.
Trips == breaker.state = "half-open" \/ breaker.failures + 1 >= Threshold

\* Mutant: openedAt is left as it was.
OnFailure_KeepsOpenedAt ==
    IF Trips
    THEN [Opened EXCEPT !.openFor = breaker.openFor]
    ELSE [breaker EXCEPT !.failures = @ + 1]

OnFailure ==
    IF Trips
    THEN Opened
    ELSE [breaker EXCEPT !.failures = @ + 1]

\* A connection error, the ten second timeout, or a body that is not JSON.
AnswerFails(c) ==
    /\ c \in exposed
    /\ inFlight' = inFlight \ {c}
    /\ exposed' = exposed \ {c}
    /\ breaker' = OnFailure
    /\ tripped' = IF Trips THEN [ago |-> 0, cleared |-> FALSE] ELSE tripped
    /\ UNCHANGED <<horizonUp, overrides>>

\* reset() and forceOpen().
ResetBreaker ==
    /\ overrides < MaxOverrides /\ overrides' = overrides + 1
    /\ breaker' = Closed
    /\ tripped' = [tripped EXCEPT !.cleared = TRUE]
    /\ UNCHANGED <<inFlight, horizonUp, exposed>>

ForceOpen ==
    /\ overrides < MaxOverrides /\ overrides' = overrides + 1
    /\ breaker' = Opened
    /\ tripped' = [tripped EXCEPT !.ago = 0, !.cleared = FALSE]
    /\ UNCHANGED <<inFlight, horizonUp, exposed>>

BreakerTick ==
    /\ breaker' = [breaker EXCEPT !.openFor = IF @ < HalfOpenAfter THEN @ + 1 ELSE @]
    /\ tripped' = [tripped EXCEPT !.ago = IF @ < HalfOpenAfter THEN @ + 1 ELSE @]
    /\ UNCHANGED <<inFlight, horizonUp, exposed, overrides>>

\* Horizon goes away and comes back; not part of this code.
HorizonChanges ==
    /\ horizonUp' = ~horizonUp
    /\ exposed' = IF horizonUp THEN inFlight ELSE exposed
    /\ UNCHANGED <<breaker, inFlight, overrides, tripped>>

BreakerNext ==
    \/ \E c \in BreakerCallers : Execute(c) \/ AnswerArrives(c) \/ AnswerFails(c)
    \/ ReportState \/ ResetBreaker \/ ForceOpen
    \/ BreakerTick \/ HorizonChanges

\* Requests keep coming, time passes, and every GET is answered or times out.
BreakerFairness ==
    /\ WF_breakerVars(BreakerTick)
    /\ \A c \in BreakerCallers :
          /\ WF_breakerVars(Execute(c))
          /\ WF_breakerVars(AnswerArrives(c) \/ AnswerFails(c))

BreakerSpec == BreakerInit /\ [][BreakerNext]_breakerVars /\ BreakerFairness

-----------------------------------------------------------------------------
(* Properties.                                                             *)

\* No call begins before HalfOpenAfter has passed since the last opening, unless
\* a call that was in flight has succeeded in the meantime: late failures, failed
\* probes and forceOpen() all start the waiting time again (lines 83-121).
WaitsOutTheOpening ==
    [][\A c \in BreakerCallers :
          (c \notin inFlight /\ c \in inFlight' /\ tripped.ago < HalfOpenAfter) => tripped.cleared]_breakerVars

\* When Horizon stays up, the breaker is closed at last and for good: failures of
\* calls from before, probes in parallel and lazy state changes do not keep it
\* open (getState, line 63, and execute, line 83).
ClosesWhenHorizonRecovers ==
    <>[]horizonUp => <>[](breaker.state = "closed")

\* The breaker protects Horizon while it is down and lets go once it is back.
BreakerSound == WaitsOutTheOpening /\ ClosesWhenHorizonRecovers

=============================================================================
