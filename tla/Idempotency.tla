---------------------------- MODULE Idempotency ----------------------------
(***************************************************************************)
(* idempotency.ts for the requests of one caller with one Idempotency-Key. *)
(* The responses are kept in Redis or, in a process without REDIS_URL, in  *)
(* its memory.  The process has one Redis connection (redisClient.js), and *)
(* commands of one connection are executed in the order they were issued:  *)
(* the SET of a response comes before the GET of any later request.        *)
(***************************************************************************)
EXTENDS Integers, FiniteSets

CONSTANTS
    IdemRequests,
    MaxIdemFaults      \* bound: failing commands, restarts, entries that expire

ASSUME IdemAssumption ==
    IsFiniteSet(IdemRequests) /\ "none" \notin IdemRequests /\ MaxIdemFaults \in Nat

VARIABLES
    store,       \* "redis" or "memory"
    cached,      \* the request whose response is stored, or "none"
    idem,        \* per request: [pc, after, replayOf]
    forgotten,   \* requests whose response was not stored, or is no longer
    idemFaults

idemVars == <<store, cached, idem, forgotten, idemFaults>>

IdemInit ==
    /\ store \in {"redis", "memory"}
    /\ cached = "none"
    /\ idem = [r \in IdemRequests |-> [pc |-> "none", after |-> {}, replayOf |-> "none"]]
    /\ forgotten = {}
    /\ idemFaults = 0

IdemFault == idemFaults < MaxIdemFaults /\ idemFaults' = idemFaults + 1

\* Requests whose handler answered below 500.
Done == {r \in IdemRequests : idem[r].pc = "answered"}

\* The request arrives: getRedis and, in Redis, the GET is issued.
Arrive(r) ==
    /\ idem[r].pc = "none"
    /\ idem' = [idem EXCEPT ![r] = [@ EXCEPT !.pc = "lookup", !.after = Done]]
    /\ UNCHANGED <<store, cached, forgotten, idemFaults>>

\* A hit is replayed; a miss hooks res.json and calls the handler.
Lookup(r) ==
    /\ idem[r].pc = "lookup"
    /\ idem' = [idem EXCEPT ![r] = IF cached # "none"
                                   THEN [@ EXCEPT !.pc = "replayed", !.replayOf = cached]
                                   ELSE [@ EXCEPT !.pc = "hooked"]]
    /\ UNCHANGED <<store, cached, forgotten, idemFaults>>

\* The GET is rejected: the handler runs without the hook.
LookupFails(r) ==
    /\ IdemFault
    /\ store = "redis"
    /\ idem[r].pc = "lookup"
    /\ idem' = [idem EXCEPT ![r].pc = "unhooked"]
    /\ UNCHANGED <<store, cached, forgotten>>

\* Mutant: the first response is kept out of the store (a condition turned round).
Answer_ErrorsOnly(r, status) ==
    /\ idem[r].pc \in {"hooked", "unhooked"}
    /\ idem' = [idem EXCEPT ![r].pc = IF status < 500 THEN "answered" ELSE "failed"]
    /\ cached' = IF status >= 500 /\ idem[r].pc = "hooked" THEN r ELSE cached
    /\ forgotten' = IF status < 500 /\ idem[r].pc = "unhooked" THEN forgotten \union {r} ELSE forgotten
    /\ UNCHANGED <<store, idemFaults>>

\* The handler answers with res.json: below 500 the response is stored first.
Answer(r, status) ==
    /\ idem[r].pc \in {"hooked", "unhooked"}
    /\ idem' = [idem EXCEPT ![r].pc = IF status < 500 THEN "answered" ELSE "failed"]
    /\ cached' = IF status < 500 /\ idem[r].pc = "hooked" THEN r ELSE cached
    /\ forgotten' = IF status < 500 /\ idem[r].pc = "unhooked" THEN forgotten \union {r} ELSE forgotten
    /\ UNCHANGED <<store, idemFaults>>

\* The SET is rejected, which is logged: the response goes out all the same.
SetFails(r) ==
    /\ IdemFault
    /\ store = "redis"
    /\ idem[r].pc = "hooked"
    /\ idem' = [idem EXCEPT ![r].pc = "answered"]
    /\ forgotten' = forgotten \union {r}
    /\ UNCHANGED <<store, cached>>

\* The entry is 24 hours old.
EntryExpires ==
    /\ IdemFault
    /\ cached # "none"
    /\ cached' = "none"
    /\ forgotten' = forgotten \union Done
    /\ UNCHANGED <<store, idem>>

\* The process ends and is started again: a memory store is empty then.
ServerRestarts ==
    /\ IdemFault
    /\ idem' = [r \in IdemRequests |-> IF idem[r].pc \in {"lookup", "hooked", "unhooked"}
                                       THEN [idem[r] EXCEPT !.pc = "cut"] ELSE idem[r]]
    /\ cached' = IF store = "memory" THEN "none" ELSE cached
    /\ forgotten' = IF store = "memory" THEN forgotten \union Done ELSE forgotten
    /\ UNCHANGED store

IdemNext ==
    \/ \E r \in IdemRequests :
          \/ Arrive(r) \/ Lookup(r) \/ LookupFails(r) \/ SetFails(r)
          \/ \E status \in {200, 400, 500} : Answer(r, status)
    \/ EntryExpires \/ ServerRestarts

IdemSpec == IdemInit /\ [][IdemNext]_idemVars

-----------------------------------------------------------------------------
(* Properties.                                                             *)

\* A retry sent after an answer below 500 was received never runs the operation
\* again, whatever other requests overlapped, unless that response could not be
\* stored or its entry is gone, or the retry's own lookup failed; and a replay is
\* the response of a request that ran (lines 74-135).
RetryIsReplayed ==
    \A r \in IdemRequests :
        /\ idem[r].pc = "hooked" => idem[r].after \subseteq forgotten
        /\ idem[r].pc = "replayed" => idem[r].replayOf \in Done

=============================================================================
