------------------------------ MODULE Webhooks ------------------------------
(***************************************************************************)
(* Webhook registrations and deliveries (webhookStore.js, routes/          *)
(* webhooks.js, webhookWorker.js).  dispatch creates one delivery per      *)
(* subscribed registration; each delivery retries on its own.  The         *)
(* endpoint may take a payload in and still answer with an error, or so    *)
(* late that the attempt has been aborted.                                 *)
(***************************************************************************)
EXTENDS Integers, FiniteSets

CONSTANTS
    Hooks,            \* registrations that may be created
    HookEvents,       \* events dispatched, all of one type
    MaxAttempts

ASSUME HookAssumption == IsFiniteSet(Hooks) /\ IsFiniteSet(HookEvents) /\ MaxAttempts \in Nat \ {0}

VARIABLES
    registered,  \* per hook: "new", "yes", "deleted"
    dispatched,  \* events handed to dispatch
    delivery     \* [Hooks \X HookEvents -> [pc, attempts, status, received, acked]]

hookVars == <<registered, dispatched, delivery>>

NoDelivery == [pc |-> "none", attempts |-> 0, status |-> "none", received |-> 0, acked |-> FALSE]

HookInit ==
    /\ registered = [h \in Hooks |-> "new"]
    /\ dispatched = {}
    /\ delivery = [d \in Hooks \X HookEvents |-> NoDelivery]

RegisterWebhook(h) ==
    /\ registered[h] = "new"
    /\ registered' = [registered EXCEPT ![h] = "yes"]
    /\ UNCHANGED <<dispatched, delivery>>

\* The registration goes, its deliveries and their retries do not.
DeleteWebhook(h) ==
    /\ registered[h] = "yes"
    /\ registered' = [registered EXCEPT ![h] = "deleted"]
    /\ UNCHANGED <<dispatched, delivery>>

\* findRegistrationsByEvent and createDeliveryLog; an event older than 24 hours is skipped.
Dispatch(e, recent) ==
    /\ e \notin dispatched
    /\ dispatched' = dispatched \union {e}
    /\ delivery' = [d \in DOMAIN delivery |->
                      IF recent /\ d[2] = e /\ registered[d[1]] = "yes"
                      THEN [NoDelivery EXCEPT !.pc = "attempt", !.status = "pending"] ELSE delivery[d]]
    /\ UNCHANGED registered

\* Mutant: an attempt that throws leaves deliverWithRetry.
AttemptDelivery_Throws(d, taken, ok) ==
    /\ delivery[d].pc = "attempt"
    /\ ok => taken
    /\ delivery' = [delivery EXCEPT ![d].pc = IF ok \/ taken THEN "update" ELSE "done", ![d].acked = ok,
                                    ![d].received = @ + IF taken THEN 1 ELSE 0]
    /\ UNCHANGED <<registered, dispatched>>

\* attemptDelivery: taken tells whether the endpoint took the payload in, ok
\* whether a 2xx answer came back within DELIVERY_TIMEOUT_MS.
AttemptDelivery(d, taken, ok) ==
    /\ delivery[d].pc = "attempt"
    /\ ok => taken
    /\ delivery' = [delivery EXCEPT ![d].pc = "update", ![d].acked = ok,
                                    ![d].received = @ + IF taken THEN 1 ELSE 0]
    /\ UNCHANGED <<registered, dispatched>>

\* updateDeliveryLog and the loop's test; the pause before a retry changes nothing.
UpdateDeliveryLog(d) ==
    LET attempt == delivery[d].attempts + 1 IN
    /\ delivery[d].pc = "update"
    /\ delivery' = [delivery EXCEPT
          ![d].attempts = attempt,
          ![d].status = IF delivery[d].acked THEN "success" ELSE IF attempt < MaxAttempts THEN "pending" ELSE "failed",
          ![d].pc = IF delivery[d].acked \/ attempt = MaxAttempts THEN "done" ELSE "attempt"]
    /\ UNCHANGED <<registered, dispatched>>

DeliveryStep(d) == UpdateDeliveryLog(d) \/ \E taken, ok \in BOOLEAN : AttemptDelivery(d, taken, ok)

HookNext ==
    \/ \E h \in Hooks : RegisterWebhook(h) \/ DeleteWebhook(h)
    \/ \E e \in HookEvents, recent \in BOOLEAN : Dispatch(e, recent)
    \/ \E d \in DOMAIN delivery : DeliveryStep(d)

HookSpec == HookInit /\ [][HookNext]_hookVars /\ \A d \in Hooks \X HookEvents : WF_hookVars(DeliveryStep(d))

-----------------------------------------------------------------------------
(* Properties.                                                             *)

\* The delivery log tells a sponsor the truth: "success" means that the endpoint took
\* the event in and no attempt follows, "failed" that every attempt was spent; an
\* endpoint gets an event at most MaxAttempts times, more than once only if it did
\* not acknowledge it (lines 114-131).
DeliveryLogTrue ==
    \A d \in DOMAIN delivery :
        /\ delivery[d].status = "success" => delivery[d].received > 0 /\ delivery[d].pc = "done"
        /\ delivery[d].status = "failed" => delivery[d].attempts = MaxAttempts /\ ~delivery[d].acked
        /\ delivery[d].received <= MaxAttempts

\* Every delivery leaves "pending", whatever the endpoint does (lines 86-87, 115).
DeliveriesSettle ==
    \A d \in Hooks \X HookEvents : delivery[d].status = "pending" ~> delivery[d].status \in {"success", "failed"}

\* The log is true at all times and final in the end.
DeliverySound == []DeliveryLogTrue /\ DeliveriesSettle

=============================================================================
