----------------------------- MODULE RateLimit -----------------------------
(***************************************************************************)
(* The limiter of rateLimit.ts on one of its keys.  It counts the requests *)
(* of a window in Redis: INCR, EXPIRE when the count is 1, TTL, each a     *)
(* command of its own.  The three limits (API key, write endpoint,         *)
(* address) run the same code on different keys.  A command that fails     *)
(* rejects the async middleware; Express 4 does not catch that and no      *)
(* handler of unhandledRejection is installed, so the process ends, with   *)
(* every request in it.                                                    *)
(***************************************************************************)
EXTENDS Integers, FiniteSets

CONSTANTS
    GateRequests,
    MaxRequests,      \* limit of the window
    MaxGateCrashes,   \* bound: failing Redis commands
    MaxWindows        \* bound: windows that run out

ASSUME RateLimitAssumption ==
    IsFiniteSet(GateRequests) /\ MaxRequests \in Nat /\ MaxGateCrashes \in Nat /\ MaxWindows \in Nat

VARIABLES
    counter,    \* the counter's key: [count, ttl], count 0 when the key is absent
    gate,       \* per request: [pc, count, window], count is what INCR returned
    windows,    \* how many windows have run out
    gateCrashes,
    orphaned    \* the process ended between the INCR and the EXPIRE of this key

rateVars == <<counter, gate, windows, gateCrashes, orphaned>>

NoCounter == [count |-> 0, ttl |-> FALSE]

RateInit ==
    /\ counter = NoCounter
    /\ gate = [r \in GateRequests |-> [pc |-> "none", count |-> 0, window |-> 0]]
    /\ windows = 0 /\ gateCrashes = 0 /\ orphaned = FALSE

\* The whitelist, or a client that could not connect: next() at once.
PassesUncounted(r) ==
    /\ gate[r].pc = "none"
    /\ gate' = [gate EXCEPT ![r].pc = "uncounted"]
    /\ UNCHANGED <<counter, windows, gateCrashes, orphaned>>

Incr(r) ==
    /\ gate[r].pc = "none"
    /\ counter' = [counter EXCEPT !.count = @ + 1]
    /\ gate' = [gate EXCEPT ![r] = [pc |-> IF counter'.count = 1 THEN "expire" ELSE "ttl",
                                    count |-> counter'.count, window |-> windows]]
    /\ UNCHANGED <<windows, gateCrashes, orphaned>>

Expire(r) ==
    /\ gate[r].pc = "expire"
    /\ counter' = IF counter.count = 0 THEN counter ELSE [counter EXCEPT !.ttl = TRUE]
    /\ gate' = [gate EXCEPT ![r].pc = "ttl"]
    /\ UNCHANGED <<windows, gateCrashes, orphaned>>

\* Mutant: the limit is one too high.
Decide_OneMore(r) ==
    /\ gate[r].pc = "ttl"
    /\ gate' = [gate EXCEPT ![r].pc = IF gate[r].count <= MaxRequests + 1 THEN "passed" ELSE "refused"]
    /\ UNCHANGED <<counter, windows, gateCrashes, orphaned>>

\* TTL, the headers, then next() or 429.
Decide(r) ==
    /\ gate[r].pc = "ttl"
    /\ gate' = [gate EXCEPT ![r].pc = IF gate[r].count <= MaxRequests THEN "passed" ELSE "refused"]
    /\ UNCHANGED <<counter, windows, gateCrashes, orphaned>>

\* Redis drops the key when its time is up.
WindowEnds ==
    /\ windows < MaxWindows
    /\ counter.ttl
    /\ counter' = NoCounter
    /\ windows' = windows + 1
    /\ UNCHANGED <<gate, gateCrashes, orphaned>>

\* A command is rejected: the process ends, and the counter stays as it is.
GateCrashes ==
    /\ gateCrashes < MaxGateCrashes
    /\ \E r \in GateRequests : gate[r].pc \in {"expire", "ttl"}
    /\ gateCrashes' = gateCrashes + 1
    /\ orphaned' = (orphaned \/ \E r \in GateRequests : gate[r].pc = "expire")
    /\ gate' = [r \in GateRequests |->
                  IF gate[r].pc \in {"expire", "ttl"} THEN [gate[r] EXCEPT !.pc = "dead"] ELSE gate[r]]
    /\ UNCHANGED <<counter, windows>>

RateNext ==
    \/ \E r \in GateRequests : PassesUncounted(r) \/ Incr(r) \/ Expire(r) \/ Decide(r)
    \/ WindowEnds \/ GateCrashes

RateSpec == RateInit /\ [][RateNext]_rateVars

-----------------------------------------------------------------------------
(* Properties.                                                             *)

\* No window lets more than MaxRequests counted requests pass, a request being of
\* the window in which its INCR ran; and the counter is without an expiry only
\* while the request that created it is on its way to EXPIRE, or after the process
\* ended just there, which blocks the key for good (rateLimit.ts, lines 83-88).
WindowLimit ==
    /\ \A w \in 0..windows :
          Cardinality({r \in GateRequests : gate[r].pc = "passed" /\ gate[r].window = w}) <= MaxRequests
    /\ counter.count > 0 /\ ~counter.ttl => orphaned \/ \E r \in GateRequests : gate[r].pc = "expire"

=============================================================================
