---------------------------- MODULE EndpointProofs ----------------------------
(***************************************************************************)
(* The edge of the API, for any number of clients, requests, connections   *)
(* and nodes and any number of faults: the registry of live updates, the   *)
(* idempotency middleware, the rate limiter, the stream WebSocket, the     *)
(* token bucket and the RPC pool.  Each part has its inductive invariant,  *)
(* one lemma per action and the theorem.                                   *)
(***************************************************************************)
EXTENDS LiveUpdates, Idempotency, RateLimit, WsStreams, TokenBucket, RpcPool,
        FiniteSetTheorems, TLAPS

-----------------------------------------------------------------------------
(* Live updates.                                                           *)

\* The records of clients that have connected.
Connected == [state : {"open", "closing", "closed"}, recent : BOOLEAN,
              recipient : WsRecipients \cup {"none"}]

LiveTypeOK ==
    /\ wsClient \in [WsClients -> [state : {"none", "open", "closing", "closed"}, recent : BOOLEAN,
                                   recipient : WsRecipients \cup {"none"}]]
    /\ subscriptions \in [WsRecipients -> SUBSET WsClients]

\* A client that has not connected has named no recipient.
LiveInv ==
    /\ LiveTypeOK
    /\ \A c \in WsClients : wsClient[c].state = "none" => wsClient[c].recipient = "none"
    /\ RegistryExact

LEMMA LiveInitial == LiveInit => LiveInv
BY LiveAssumption DEF LiveInit, LiveInv, LiveTypeOK, RegistryExact

\* A step that rewrites the record of one client, to w, and its sets.
LiveChange(c, w) ==
    /\ w \in Connected
    /\ wsClient' = [wsClient EXCEPT ![c] = w]
    /\ subscriptions' \in [WsRecipients -> SUBSET WsClients]
    /\ \A r \in WsRecipients, d \in WsClients \ {c} :
          d \in subscriptions'[r] <=> d \in subscriptions[r]
    /\ \A r \in WsRecipients :
          /\ c \in subscriptions'[r] => w.recipient = r /\ w.state # "closed"
          /\ w.state = "open" /\ w.recipient = r => c \in subscriptions'[r]

LEMMA LiveOneClient ==
    ASSUME LiveInv, NEW c \in WsClients, NEW w, LiveChange(c, w)
    PROVE  LiveInv'
<1> USE DEF LiveChange
<1>1. wsClient'[c] = w /\ \A d \in WsClients \ {c} : wsClient'[d] = wsClient[d]
  BY DEF LiveInv, LiveTypeOK
<1>2. LiveTypeOK'
  BY DEF LiveInv, LiveTypeOK, Connected
<1>3. \A d \in WsClients : wsClient'[d].state = "none" => wsClient'[d].recipient = "none"
  BY <1>1 DEF LiveInv, Connected
<1>4. RegistryExact'
  BY <1>1 DEF LiveInv, RegistryExact
<1>5. QED BY <1>2, <1>3, <1>4 DEF LiveInv

LEMMA LiveOpen == ASSUME LiveInv, NEW c \in WsClients, OpenSocket(c) PROVE LiveInv'
<1> DEFINE w == [wsClient[c] EXCEPT !.state = "open", !.recent = TRUE]
<1>1. /\ wsClient[c].recipient = "none" /\ subscriptions' = subscriptions
      /\ wsClient' = [wsClient EXCEPT ![c] = w]
  BY DEF OpenSocket, LiveInv, LiveTypeOK
<1>2. /\ w \in Connected
      /\ w.recipient = "none"
  BY <1>1 DEF LiveInv, LiveTypeOK, Connected
<1> HIDE DEF w
<1>3. \A r \in WsRecipients : c \notin subscriptions'[r] /\ w.recipient # r
  BY <1>1, <1>2, LiveAssumption DEF LiveInv, RegistryExact
<1>4. LiveChange(c, w)
  BY <1>1, <1>2, <1>3 DEF LiveChange, LiveInv, LiveTypeOK
<1>5. QED BY <1>4, LiveOneClient

LEMMA LiveIdle == ASSUME LiveInv, NEW c \in WsClients, GoesIdle(c) PROVE LiveInv'
<1> DEFINE w == [wsClient[c] EXCEPT !.recent = FALSE]
<1>1. /\ wsClient[c].state = "open" /\ subscriptions' = subscriptions
      /\ wsClient' = [wsClient EXCEPT ![c] = w]
  BY DEF GoesIdle, LiveInv, LiveTypeOK
<1>2. /\ w \in Connected
      /\ w.recipient = wsClient[c].recipient /\ w.state = wsClient[c].state
  BY <1>1 DEF LiveInv, LiveTypeOK, Connected
<1> HIDE DEF w
<1>3. \A r \in WsRecipients :
         /\ c \in subscriptions[r] => w.recipient = r /\ w.state # "closed"
         /\ w.state = "open" /\ w.recipient = r => c \in subscriptions[r]
  BY <1>1, <1>2 DEF LiveInv, RegistryExact
<1>4. LiveChange(c, w)
  BY <1>1, <1>2, <1>3 DEF LiveChange, LiveInv, LiveTypeOK
<1>5. QED BY <1>4, LiveOneClient

LEMMA LiveSubscribe ==
    ASSUME LiveInv, NEW c \in WsClients, NEW r \in WsRecipients, SubscribeTo(c, r)
    PROVE  LiveInv'
<1> DEFINE w == [wsClient[c] EXCEPT !.recent = TRUE, !.recipient = r]
<1>1. /\ wsClient[c].state \in {"open", "closing"}
      /\ wsClient' = [wsClient EXCEPT ![c] = w]
  BY DEF SubscribeTo, LiveInv, LiveTypeOK
<1>2. /\ w \in Connected
      /\ w.recipient = r /\ w.state # "closed"
  BY <1>1 DEF LiveInv, LiveTypeOK, Connected
<1> HIDE DEF w
<1>3. /\ subscriptions' \in [WsRecipients -> SUBSET WsClients]
      /\ \A q \in WsRecipients, d \in WsClients \ {c} :
            d \in subscriptions'[q] <=> d \in subscriptions[q]
  BY DEF SubscribeTo, LiveInv, LiveTypeOK
<1>4. \A q \in WsRecipients : c \in subscriptions'[q] <=> q = r
  BY DEF SubscribeTo, LiveInv, LiveTypeOK, RegistryExact
<1>5. \A q \in WsRecipients :
         /\ c \in subscriptions'[q] => w.recipient = q /\ w.state # "closed"
         /\ w.state = "open" /\ w.recipient = q => c \in subscriptions'[q]
  BY <1>2, <1>4
<1>6. LiveChange(c, w)
  BY <1>1, <1>2, <1>3, <1>5 DEF LiveChange
<1>7. QED BY <1>6, LiveOneClient

LEMMA LiveEnds == ASSUME LiveInv, NEW c \in WsClients, SocketEnds(c) PROVE LiveInv'
<1> DEFINE w == [wsClient[c] EXCEPT !.state = "closed"]
<1>1. wsClient' = [wsClient EXCEPT ![c] = w]
  BY DEF SocketEnds, LiveInv, LiveTypeOK
<1>2. /\ w \in Connected
      /\ w.state = "closed"
  BY DEF LiveInv, LiveTypeOK, Connected
<1> HIDE DEF w
<1>3. /\ subscriptions' \in [WsRecipients -> SUBSET WsClients]
      /\ \A q \in WsRecipients, d \in WsClients \ {c} :
            d \in subscriptions'[q] <=> d \in subscriptions[q]
  BY DEF SocketEnds, LiveInv, LiveTypeOK
<1>4. \A q \in WsRecipients : c \notin subscriptions'[q]
  BY DEF SocketEnds, LiveInv, LiveTypeOK, RegistryExact
<1>5. LiveChange(c, w)
  BY <1>1, <1>2, <1>3, <1>4 DEF LiveChange
<1>6. QED BY <1>5, LiveOneClient

LEMMA LiveSweep == ASSUME LiveInv, IdleSweep PROVE LiveInv'
<1> DEFINE idle == {c \in UNION {subscriptions[r] : r \in WsRecipients} : ~wsClient[c].recent}
<1>1. /\ wsClient' = [c \in WsClients |-> IF c \in idle THEN [wsClient[c] EXCEPT !.state = "closing"]
                                          ELSE wsClient[c]]
      /\ subscriptions' = [r \in WsRecipients |-> subscriptions[r] \ idle]
  BY DEF IdleSweep
<1>2. \A c \in idle : c \in WsClients /\ wsClient[c].state # "closed" /\ wsClient[c].state # "none"
  BY LiveAssumption DEF LiveInv, LiveTypeOK, RegistryExact
<1> HIDE DEF idle
<1>3. LiveTypeOK'
  BY <1>1 DEF LiveInv, LiveTypeOK
<1>4. \A c \in WsClients : /\ wsClient'[c].recipient = wsClient[c].recipient
                           /\ c \in idle => wsClient'[c].state = "closing"
                           /\ c \notin idle => wsClient'[c].state = wsClient[c].state
  BY <1>1 DEF LiveInv, LiveTypeOK
<1>5. RegistryExact'
  BY <1>1, <1>4 DEF LiveInv, RegistryExact
<1>6. \A c \in WsClients : wsClient'[c].state = "none" => wsClient'[c].recipient = "none"
  BY <1>4 DEF LiveInv
<1>7. QED BY <1>3, <1>5, <1>6 DEF LiveInv

\* For any clients and recipients: after every history of subscriptions, sweeps and
\* closed sockets, the registry that broadcastLedger reads has each open client under
\* the recipient it named last only, and no closed client at all.
THEOREM RegistryIsExact == LiveSpec => []RegistryExact
<1>1. LiveInv /\ [LiveNext]_liveVars => LiveInv'
  <2> SUFFICES ASSUME LiveInv, [LiveNext]_liveVars PROVE LiveInv'
    OBVIOUS
  <2>1. CASE UNCHANGED <<wsClient, subscriptions>>
    BY <2>1 DEF LiveInv, LiveTypeOK, RegistryExact
  <2>2. CASE LiveNext
    <3>1. CASE IdleSweep
      BY <3>1, LiveSweep
    <3>2. ASSUME NEW c \in WsClients, OpenSocket(c) \/ GoesIdle(c) \/ SocketEnds(c)
          PROVE  LiveInv'
      BY <3>2, LiveOpen, LiveIdle, LiveEnds
    <3>3. ASSUME NEW c \in WsClients, NEW r \in WsRecipients, SubscribeTo(c, r)
          PROVE  LiveInv'
      BY <3>3, LiveSubscribe
    <3>4. QED BY <2>1, <2>2, <3>1, <3>2, <3>3
              DEF LiveNext, WatcherConnects, LedgerCloses, WatcherStops, SnapshotDone
  <2>3. QED BY <2>1, <2>2 DEF liveVars
<1>2. LiveInv => RegistryExact
  BY DEF LiveInv
<1>3. QED BY <1>1, <1>2, LiveInitial, PTL DEF LiveSpec

-----------------------------------------------------------------------------
(* Idempotency.                                                            *)

IdemRecord == [pc : {"none", "lookup", "hooked", "unhooked", "answered", "failed",
                     "replayed", "cut"},
               after : SUBSET IdemRequests, replayOf : IdemRequests \cup {"none"}]

IdemTypeOK == idem \in [IdemRequests -> IdemRecord]

\* What was answered before a request came stays answered; the stored response
\* is of such a request; and while none is stored, all of them are forgotten.
IdemInv ==
    /\ IdemTypeOK
    /\ \A r \in IdemRequests : idem[r].after \subseteq Done
    /\ cached \in Done \cup {"none"}
    /\ cached = "none" => Done \subseteq forgotten
    /\ RetryIsReplayed

LEMMA IdemInitial == IdemInit => IdemInv
BY DEF IdemInit, IdemInv, IdemTypeOK, IdemRecord, Done, RetryIsReplayed

\* A step in which one unanswered request gets the record w, and answers and
\* forgotten answers only become more.
IdemChange(c, w) ==
    /\ w \in IdemRecord
    /\ idem' = [idem EXCEPT ![c] = w] /\ idem[c].pc # "answered"
    /\ forgotten \subseteq forgotten' /\ w.after \subseteq Done
    /\ cached' = cached \/ (cached' = c /\ w.pc = "answered")
    /\ cached' = "none" /\ w.pc = "answered" => c \in forgotten'
    /\ w.pc = "hooked" => w.after \subseteq forgotten
    /\ w.pc = "replayed" => w.replayOf \in Done

LEMMA IdemOneRecord ==
    ASSUME IdemInv, NEW c \in IdemRequests, NEW w, IdemChange(c, w)
    PROVE  IdemInv'
<1> USE DEF IdemChange
<1>1. idem'[c] = w /\ \A d \in IdemRequests \ {c} : idem'[d] = idem[d]
  BY DEF IdemInv, IdemTypeOK
<1>2. Done' = IF w.pc = "answered" THEN Done \cup {c} ELSE Done
  BY <1>1 DEF Done
<1>3. IdemTypeOK'
  BY DEF IdemInv, IdemTypeOK
<1>4. \A r \in IdemRequests : idem'[r].after \subseteq Done'
  BY <1>1, <1>2 DEF IdemInv
<1>5. cached' \in Done' \cup {"none"} /\ (cached' = "none" => Done' \subseteq forgotten')
  BY <1>2, IdemAssumption DEF IdemInv
<1>6. RetryIsReplayed'
  BY <1>1, <1>2 DEF IdemInv, RetryIsReplayed
<1>7. QED BY <1>3, <1>4, <1>5, <1>6 DEF IdemInv

LEMMA IdemOneRequest ==
    ASSUME IdemInv, NEW c \in IdemRequests,
           Arrive(c) \/ Lookup(c) \/ LookupFails(c) \/ SetFails(c)
             \/ \E status \in {200, 400, 500} : Answer(c, status)
    PROVE  IdemInv'
<1> DEFINE old == idem[c]
<1>0. old \in IdemRecord /\ old.after \subseteq Done /\ Done \subseteq IdemRequests
  BY DEF IdemInv, IdemTypeOK, IdemRecord, Done
<1>1. CASE Arrive(c)
  <2> DEFINE w == [old EXCEPT !.pc = "lookup", !.after = Done]
  <2>1. /\ idem' = [idem EXCEPT ![c] = w] /\ old.pc # "answered"
        /\ cached' = cached /\ forgotten' = forgotten
    BY <1>1 DEF Arrive
  <2>2. w \in IdemRecord /\ w.after = Done /\ w.pc = "lookup"
    BY <1>0 DEF IdemRecord
  <2> HIDE DEF w
  <2>3. IdemChange(c, w)
    BY <2>1, <2>2 DEF IdemChange
  <2>4. QED BY <2>3, IdemOneRecord
<1>2. CASE Lookup(c)
  <2> DEFINE w == IF cached # "none" THEN [old EXCEPT !.pc = "replayed", !.replayOf = cached]
                  ELSE [old EXCEPT !.pc = "hooked"]
  <2>1. /\ idem' = [idem EXCEPT ![c] = w] /\ old.pc # "answered"
        /\ cached' = cached /\ forgotten' = forgotten
    BY <1>2 DEF Lookup
  <2>2. /\ w \in IdemRecord /\ w.after = old.after
        /\ w.pc = IF cached # "none" THEN "replayed" ELSE "hooked"
        /\ cached # "none" => w.replayOf = cached
    BY <1>0 DEF IdemInv, IdemRecord
  <2> HIDE DEF w
  <2>3. /\ w.pc # "answered" /\ w.after \subseteq Done
        /\ w.pc = "hooked" => w.after \subseteq forgotten
        /\ w.pc = "replayed" => w.replayOf \in Done
    BY <1>0, <2>2 DEF IdemInv
  <2>4. IdemChange(c, w)
    BY <2>1, <2>2, <2>3 DEF IdemChange
  <2>5. QED BY <2>4, IdemOneRecord
<1>3. CASE LookupFails(c)
  <2> DEFINE w == [old EXCEPT !.pc = "unhooked"]
  <2>1. /\ idem' = [idem EXCEPT ![c] = w] /\ old.pc # "answered"
        /\ cached' = cached /\ forgotten' = forgotten
    BY <1>3 DEF LookupFails, IdemInv, IdemTypeOK
  <2>2. w \in IdemRecord /\ w.after = old.after /\ w.pc = "unhooked"
    BY <1>0 DEF IdemRecord
  <2> HIDE DEF w
  <2>3. IdemChange(c, w)
    BY <1>0, <2>1, <2>2 DEF IdemChange
  <2>4. QED BY <2>3, IdemOneRecord
<1>4. CASE SetFails(c)
  <2> DEFINE w == [old EXCEPT !.pc = "answered"]
  <2>1. /\ idem' = [idem EXCEPT ![c] = w] /\ old.pc # "answered"
        /\ cached' = cached /\ forgotten' = forgotten \cup {c}
    BY <1>4 DEF SetFails, IdemInv, IdemTypeOK
  <2>2. w \in IdemRecord /\ w.after = old.after /\ w.pc = "answered"
    BY <1>0 DEF IdemRecord
  <2> HIDE DEF w
  <2>3. IdemChange(c, w)
    BY <1>0, <2>1, <2>2 DEF IdemChange
  <2>4. QED BY <2>3, IdemOneRecord
<1>5. ASSUME NEW status \in {200, 400, 500}, Answer(c, status) PROVE IdemInv'
  <2> DEFINE w == [old EXCEPT !.pc = IF status < 500 THEN "answered" ELSE "failed"]
  <2>1. /\ idem' = [idem EXCEPT ![c] = w] /\ old.pc \in {"hooked", "unhooked"}
        /\ cached' = IF status < 500 /\ old.pc = "hooked" THEN c ELSE cached
        /\ forgotten' = IF status < 500 /\ old.pc = "unhooked" THEN forgotten \cup {c} ELSE forgotten
    BY <1>5 DEF Answer, IdemInv, IdemTypeOK
  <2>2. /\ w \in IdemRecord /\ w.after = old.after
        /\ w.pc = IF status < 500 THEN "answered" ELSE "failed"
    BY <1>0 DEF IdemRecord
  <2> HIDE DEF w
  <2>3. /\ old.pc # "answered" /\ forgotten \subseteq forgotten'
        /\ cached' = cached \/ (cached' = c /\ w.pc = "answered")
        /\ cached' = "none" /\ w.pc = "answered" => c \in forgotten'
    BY <2>1, <2>2, IdemAssumption
  <2>4. IdemChange(c, w)
    BY <1>0, <2>1, <2>2, <2>3 DEF IdemChange
  <2>5. QED BY <2>4, IdemOneRecord
<1>6. QED BY <1>1, <1>2, <1>3, <1>4, <1>5

LEMMA IdemExpires == ASSUME IdemInv, EntryExpires PROVE IdemInv'
BY DEF EntryExpires, IdemInv, IdemTypeOK, Done, RetryIsReplayed

LEMMA IdemRestarts == ASSUME IdemInv, ServerRestarts PROVE IdemInv'
<1>1. /\ idem' = [r \in IdemRequests |-> IF idem[r].pc \in {"lookup", "hooked", "unhooked"}
                                         THEN [idem[r] EXCEPT !.pc = "cut"] ELSE idem[r]]
      /\ \/ cached' = cached /\ forgotten' = forgotten
         \/ cached' = "none" /\ forgotten' = forgotten \cup Done
  BY DEF ServerRestarts
<1>2. IdemTypeOK'
  BY <1>1 DEF IdemInv, IdemTypeOK, IdemRecord
<1>3. \A r \in IdemRequests :
         /\ idem'[r].after = idem[r].after /\ idem'[r].replayOf = idem[r].replayOf
         /\ idem'[r].pc \in {"hooked", "replayed", "answered"} => idem'[r].pc = idem[r].pc
         /\ idem[r].pc \in {"replayed", "answered"} => idem'[r].pc = idem[r].pc
  BY <1>1 DEF IdemInv, IdemTypeOK, IdemRecord
<1>4. Done' = Done
  BY <1>3 DEF Done
<1>5. RetryIsReplayed'
  BY <1>1, <1>3, <1>4 DEF IdemInv, RetryIsReplayed
<1>6. QED BY <1>1, <1>2, <1>3, <1>4, <1>5 DEF IdemInv

\* For any requests and any number of faults: idempotencyMiddleware never runs the
\* operation for a retry of an answered request unless that answer was not stored or is
\* gone, and what it replays is an answer that was given.
THEOREM RetriesAreReplayed == IdemSpec => []RetryIsReplayed
<1>1. IdemInv /\ [IdemNext]_idemVars => IdemInv'
  <2> SUFFICES ASSUME IdemInv, [IdemNext]_idemVars PROVE IdemInv'
    OBVIOUS
  <2>1. CASE IdemNext
    BY <2>1, IdemOneRequest, IdemExpires, IdemRestarts DEF IdemNext
  <2>2. CASE UNCHANGED idemVars
    BY <2>2 DEF idemVars, IdemInv, IdemTypeOK, Done, RetryIsReplayed
  <2>3. QED BY <2>1, <2>2
<1>2. IdemInv => RetryIsReplayed
  BY DEF IdemInv
<1>3. QED BY <1>1, <1>2, IdemInitial, PTL DEF IdemSpec

-----------------------------------------------------------------------------
(* The rate limiter.                                                       *)

GateRecord == [pc : {"none", "uncounted", "expire", "ttl", "passed", "refused", "dead"},
               count : Nat, window : Nat]

RateTypeOK ==
    /\ gate \in [GateRequests -> GateRecord]
    /\ counter \in [count : Nat, ttl : BOOLEAN]
    /\ windows \in Nat

\* The number INCR gave to a request is a place in its window: a request that was
\* counted has one, and in the running window it is within the counter.
CountOK(g) ==
    g.pc \notin {"none", "uncounted"} =>
      /\ g.count > 0 /\ g.window <= windows
      /\ g.window = windows => g.count <= counter.count
      /\ g.pc = "passed" => g.count <= MaxRequests

\* No two requests have the same place.
PlacesDiffer ==
    \A r, s \in GateRequests :
        /\ r # s
        /\ gate[r].pc \notin {"none", "uncounted"} /\ gate[s].pc \notin {"none", "uncounted"}
        /\ gate[r].window = gate[s].window
        => gate[r].count # gate[s].count

CounterExpires ==
    counter.count > 0 /\ ~counter.ttl => orphaned \/ \E r \in GateRequests : gate[r].pc = "expire"

RateInv ==
    /\ RateTypeOK
    /\ \A r \in GateRequests : CountOK(gate[r])
    /\ PlacesDiffer
    /\ CounterExpires

LEMMA RateInitial == RateInit => RateInv
BY DEF RateInit, RateInv, RateTypeOK, GateRecord, CountOK, PlacesDiffer, CounterExpires, NoCounter

\* The requests of a window that passed have different places up to the limit.
LEMMA PassedFit ==
    ASSUME RateInv, NEW w \in Nat
    PROVE  Cardinality({r \in GateRequests : gate[r].pc = "passed" /\ gate[r].window = w})
             <= MaxRequests
<1> DEFINE P == {r \in GateRequests : gate[r].pc = "passed" /\ gate[r].window = w}
           place == [r \in P |-> gate[r].count]
<1>1. \A r \in P : gate[r].count \in 1..MaxRequests
  BY RateLimitAssumption DEF RateInv, RateTypeOK, GateRecord, CountOK
<1>2. \A r, s \in P : gate[r].count = gate[s].count => r = s
  BY DEF RateInv, PlacesDiffer
<1>3. place \in Injection(P, 1..MaxRequests)
  BY <1>1, <1>2 DEF Injection, IsInjective
<1>4. IsFiniteSet(1..MaxRequests) /\ Cardinality(1..MaxRequests) = MaxRequests
  BY FS_Interval, RateLimitAssumption
<1> HIDE DEF P, place
<1>5. Cardinality(P) <= Cardinality(1..MaxRequests)
  BY <1>3, <1>4, FS_Injection
<1>6. QED BY <1>4, <1>5 DEF P

LEMMA RateIncr == ASSUME RateInv, NEW r \in GateRequests, Incr(r) PROVE RateInv'
<1> DEFINE n == counter.count + 1
           w == [pc |-> IF n = 1 THEN "expire" ELSE "ttl", count |-> n, window |-> windows]
<1>1. /\ gate[r].pc = "none" /\ gate' = [gate EXCEPT ![r] = w]
      /\ counter'.count = n /\ counter'.ttl = counter.ttl
      /\ counter' \in [count : Nat, ttl : BOOLEAN]
      /\ windows' = windows /\ orphaned' = orphaned
  BY DEF Incr, RateInv, RateTypeOK
<1>2. n \in Nat /\ n > counter.count /\ n > 0 /\ counter.count \in Nat
      /\ (n = 1 => counter.count = 0) /\ windows \in Nat
  BY DEF RateInv, RateTypeOK
<1>3. /\ w \in GateRecord /\ w.count = n /\ w.window = windows
      /\ w.pc = IF n = 1 THEN "expire" ELSE "ttl"
  BY <1>2 DEF GateRecord
<1> HIDE DEF w, n
<1>4. gate'[r] = w /\ \A s \in GateRequests \ {r} : gate'[s] = gate[s]
  BY <1>1 DEF RateInv, RateTypeOK
<1>5. RateTypeOK'
  BY <1>1, <1>3 DEF RateInv, RateTypeOK
<1>6. \A s \in GateRequests \ {r} : gate[s] \in GateRecord /\ CountOK(gate[s])
  BY DEF RateInv, RateTypeOK
<1>7. ASSUME NEW s \in GateRequests PROVE CountOK(gate[s])'
  <2>1. CASE s = r
    BY <1>1, <1>2, <1>3, <1>4, <2>1 DEF CountOK
  <2>2. CASE s # r
    BY <1>1, <1>2, <1>4, <1>6, <2>2 DEF CountOK, GateRecord
  <2>3. QED BY <2>1, <2>2
<1>8. \A s \in GateRequests \ {r} :
         gate[s].pc \notin {"none", "uncounted"} /\ gate[s].window = w.window => gate[s].count # w.count
  BY <1>2, <1>3, <1>6 DEF CountOK, GateRecord
<1>9. PlacesDiffer'
  BY <1>4, <1>8 DEF RateInv, PlacesDiffer
<1>10. CounterExpires'
  <2>1. CASE n = 1
    BY <1>3, <1>4, <2>1 DEF CounterExpires
  <2>2. CASE n # 1
    <3>1. counter.count > 0
      BY <1>2, <2>2 DEF n
    <3>2. QED BY <1>1, <1>4, <3>1 DEF RateInv, CounterExpires
  <2>3. QED BY <2>1, <2>2
<1>11. QED BY <1>5, <1>7, <1>9, <1>10 DEF RateInv

\* A step that changes only the pc of some requests, and of a request that was
\* counted so that it stays counted and passes only within the limit.
LEMMA RatePcStep ==
    ASSUME RateInv, windows' = windows,
           gate' \in [GateRequests -> GateRecord], counter' \in [count : Nat, ttl : BOOLEAN],
           counter'.count = counter.count,
           \A r \in GateRequests :
              /\ gate'[r].count = gate[r].count /\ gate'[r].window = gate[r].window
              /\ gate'[r].pc \notin {"none", "uncounted"} => gate[r].pc \notin {"none", "uncounted"}
              /\ gate'[r].pc = "passed" => gate[r].pc = "passed" \/ gate[r].count <= MaxRequests,
           CounterExpires'
    PROVE  RateInv'
<1>1. \A r \in GateRequests : CountOK(gate[r])'
  BY DEF RateInv, CountOK
<1>2. PlacesDiffer'
  BY DEF RateInv, PlacesDiffer
<1>3. QED BY <1>1, <1>2 DEF RateInv, RateTypeOK

LEMMA RateRequest ==
    ASSUME RateInv, NEW r \in GateRequests, PassesUncounted(r) \/ Expire(r) \/ Decide(r)
    PROVE  RateInv'
<1>1. PICK pc \in {"uncounted", "ttl", "passed", "refused"} :
         /\ gate' = [gate EXCEPT ![r].pc = pc]
         /\ \/ pc = "uncounted" /\ gate[r].pc = "none"
            \/ pc = "ttl" /\ gate[r].pc = "expire"
            \/ gate[r].pc = "ttl"
         /\ pc = "passed" => gate[r].count <= MaxRequests
  BY DEF PassesUncounted, Expire, Decide
<1>2. /\ windows' = windows /\ orphaned' = orphaned
      /\ counter' \in [count : Nat, ttl : BOOLEAN] /\ counter'.count = counter.count
      /\ gate[r].pc = "expire" => counter'.ttl \/ counter.count = 0
      /\ gate[r].pc # "expire" => counter' = counter
  BY DEF PassesUncounted, Expire, Decide, RateInv, RateTypeOK
<1>3. gate \in [GateRequests -> GateRecord]
  BY DEF RateInv, RateTypeOK
<1>4. /\ gate' \in [GateRequests -> GateRecord]
      /\ gate'[r].count = gate[r].count /\ gate'[r].window = gate[r].window /\ gate'[r].pc = pc
      /\ \A s \in GateRequests \ {r} : gate'[s] = gate[s]
  BY <1>1, <1>3 DEF GateRecord
<1>5. \A s \in GateRequests :
         /\ gate'[s].count = gate[s].count /\ gate'[s].window = gate[s].window
         /\ gate'[s].pc \notin {"none", "uncounted"} => gate[s].pc \notin {"none", "uncounted"}
         /\ gate'[s].pc = "passed" => gate[s].pc = "passed" \/ gate[s].count <= MaxRequests
  BY <1>1, <1>4
<1>6. CounterExpires'
  <2>1. CASE gate[r].pc = "expire"
    BY <1>2, <2>1 DEF CounterExpires
  <2>2. CASE gate[r].pc # "expire"
    BY <1>2, <1>4, <2>2 DEF RateInv, CounterExpires
  <2>3. QED BY <2>1, <2>2
<1>7. QED BY <1>2, <1>3, <1>4, <1>5, <1>6, RatePcStep

LEMMA RateCrash == ASSUME RateInv, GateCrashes PROVE RateInv'
<1>1. /\ windows' = windows /\ counter' = counter
      /\ orphaned' = (orphaned \/ \E r \in GateRequests : gate[r].pc = "expire")
      /\ gate' = [r \in GateRequests |->
                    IF gate[r].pc \in {"expire", "ttl"} THEN [gate[r] EXCEPT !.pc = "dead"] ELSE gate[r]]
  BY DEF GateCrashes
<1>2. gate \in [GateRequests -> GateRecord] /\ counter \in [count : Nat, ttl : BOOLEAN]
  BY DEF RateInv, RateTypeOK
<1>3. /\ gate' \in [GateRequests -> GateRecord]
      /\ \A r \in GateRequests :
           /\ gate'[r].count = gate[r].count /\ gate'[r].window = gate[r].window
           /\ gate'[r].pc \notin {"none", "uncounted"} => gate[r].pc \notin {"none", "uncounted"}
           /\ gate'[r].pc = "passed" => gate[r].pc = "passed" \/ gate[r].count <= MaxRequests
  BY <1>1, <1>2 DEF GateRecord
<1>4. CounterExpires'
  BY <1>1 DEF RateInv, CounterExpires
<1>5. QED BY <1>1, <1>2, <1>3, <1>4, RatePcStep

LEMMA RateWindow == ASSUME RateInv, WindowEnds PROVE RateInv'
<1>1. windows \in Nat /\ windows' = windows + 1 /\ counter' = NoCounter /\ gate' = gate
      /\ orphaned' = orphaned
  BY DEF WindowEnds, RateInv, RateTypeOK
<1>2. RateTypeOK'
  BY <1>1 DEF RateInv, RateTypeOK, NoCounter
<1>3. ASSUME NEW r \in GateRequests PROVE CountOK(gate[r])'
  <2>1. gate[r] \in GateRecord /\ CountOK(gate[r])
    BY DEF RateInv, RateTypeOK
  <2>2. QED BY <1>1, <2>1 DEF CountOK, GateRecord
<1>4. PlacesDiffer' /\ CounterExpires'
  BY <1>1 DEF RateInv, PlacesDiffer, CounterExpires, NoCounter
<1>5. QED BY <1>2, <1>3, <1>4 DEF RateInv

\* For any number of requests, windows and crashes: a window of rateLimit never lets
\* more than its limit pass, and a counter without expiry is one whose creator is
\* on its way to EXPIRE or was lost with its process.
THEOREM WindowsAreLimited == RateSpec => []WindowLimit
<1>1. RateInv /\ [RateNext]_rateVars => RateInv'
  <2> SUFFICES ASSUME RateInv, [RateNext]_rateVars PROVE RateInv'
    OBVIOUS
  <2>1. CASE RateNext
    BY <2>1, RateIncr, RateRequest, RateCrash, RateWindow DEF RateNext
  <2>2. CASE UNCHANGED rateVars
    BY <2>2 DEF rateVars, RateInv, RateTypeOK, CountOK, PlacesDiffer, CounterExpires
  <2>3. QED BY <2>1, <2>2
<1>2. RateInv => WindowLimit
  <2> SUFFICES ASSUME RateInv PROVE WindowLimit
    OBVIOUS
  <2>1. \A w \in 0..windows : w \in Nat
    BY DEF RateInv, RateTypeOK
  <2>2. QED BY <2>1, PassedFit DEF WindowLimit, RateInv, CounterExpires
<1>3. QED BY <1>1, <1>2, RateInitial, PTL DEF RateSpec

-----------------------------------------------------------------------------
(* The stream WebSocket: the places of an address.                         *)

ConnPcs == {"none", "refused", "snapshot", "replay", "connect", "subscribe", "live"}

ConnRecord ==
    [pc : ConnPcs, open : BOOLEAN, peer : BOOLEAN, closed : BOOLEAN, timer : BOOLEAN,
     sub : {"none", "connected", "redis", "local"}, missed : Nat, endedIn : ConnPcs]

\* The connection counts for its address.
Counts(w) == w.pc \notin {"none", "refused"} /\ ~w.closed

\* The interval is installed by the last step of the handler; what ended when live
\* stays live and closed, with neither interval nor subscription; nothing is
\* subscribed before the replay is over.
ConnOK(w) ==
    /\ w.pc \in {"none", "refused"} => ~w.closed
    /\ w.timer => w.pc = "live"
    /\ w.endedIn = "live" => w.pc = "live" /\ w.closed /\ ~w.timer /\ w.sub = "none"
    /\ w.pc \in {"none", "refused", "snapshot", "replay"} => w.sub = "none"

PlacesInv ==
    /\ conn \in [Conns -> ConnRecord]
    /\ ipCount \in Nat
    /\ \A c \in Conns : ConnOK(conn[c])
    /\ ipCount = Cardinality({c \in Conns : Counts(conn[c])})
    /\ ipCount <= MaxConnectionsPerIp

LEMMA PlacesInitial == WsInit => PlacesInv
<1> SUFFICES ASSUME WsInit PROVE PlacesInv
  OBVIOUS
<1>1. Unconnected \in ConnRecord /\ ConnOK(Unconnected) /\ ~Counts(Unconnected)
  BY DEF Unconnected, ConnRecord, ConnPcs, ConnOK, Counts
<1>2. conn = [c \in Conns |-> Unconnected] /\ ipCount = 0
  BY DEF WsInit
<1>3. {c \in Conns : Counts(conn[c])} = {}
  BY <1>1, <1>2
<1>4. ipCount = Cardinality({c \in Conns : Counts(conn[c])})
  BY <1>2, <1>3, FS_EmptySet
<1>5. QED BY <1>1, <1>2, <1>4, WsAssumption DEF PlacesInv

\* A step of one connection, whose record becomes w, and its place is taken or
\* given back with it.
ConnChange(c, w) ==
    /\ w \in ConnRecord /\ ConnOK(w)
    /\ conn' = [conn EXCEPT ![c] = w]
    /\ \/ (Counts(w) <=> Counts(conn[c])) /\ ipCount' = ipCount
       \/ Counts(w) /\ ~Counts(conn[c]) /\ ipCount' = ipCount + 1
          /\ ipCount' <= MaxConnectionsPerIp
       \/ ~Counts(w) /\ Counts(conn[c]) /\ ipCount' = IF ipCount <= 1 THEN 0 ELSE ipCount - 1

LEMMA PlacesChange ==
    ASSUME PlacesInv, NEW c \in Conns, NEW w, ConnChange(c, w)
    PROVE  PlacesInv'
<1> DEFINE S == {d \in Conns : Counts(conn[d])}
           T == {d \in Conns : Counts(conn'[d])}
<1>1. w \in ConnRecord /\ ConnOK(w) /\ conn' = [conn EXCEPT ![c] = w]
  BY DEF ConnChange
<1>2. conn'[c] = w /\ \A d \in Conns \ {c} : conn'[d] = conn[d]
  BY <1>1 DEF PlacesInv
<1>3. conn' \in [Conns -> ConnRecord] /\ \A d \in Conns : ConnOK(conn'[d])
  BY <1>1, <1>2 DEF PlacesInv
<1>4. IsFiniteSet(S) /\ Cardinality(S) = ipCount /\ ipCount \in Nat
      /\ ipCount <= MaxConnectionsPerIp
  BY FS_Subset, WsAssumption DEF PlacesInv
<1>5. ipCount' \in Nat /\ ipCount' = Cardinality(T) /\ ipCount' <= MaxConnectionsPerIp
  <2>1. CASE (Counts(w) <=> Counts(conn[c])) /\ ipCount' = ipCount
    <3>1. T = S
      BY <1>2, <2>1
    <3>2. QED BY <1>4, <2>1, <3>1
  <2>2. CASE Counts(w) /\ ~Counts(conn[c]) /\ ipCount' = ipCount + 1
             /\ ipCount' <= MaxConnectionsPerIp
    <3>1. T = S \cup {c} /\ c \notin S
      BY <1>2, <2>2
    <3> HIDE DEF S, T
    <3>2. Cardinality(T) = Cardinality(S) + 1
      BY <1>4, <3>1, FS_AddElement
    <3>3. QED BY <1>4, <2>2, <3>2
  <2>3. CASE ~Counts(w) /\ Counts(conn[c]) /\ ipCount' = IF ipCount <= 1 THEN 0 ELSE ipCount - 1
    <3>1. T = S \ {c} /\ c \in S
      BY <1>2, <2>3
    <3> HIDE DEF S, T
    <3>2. IsFiniteSet(T) /\ Cardinality(T) = Cardinality(S) - 1
      BY <1>4, <3>1, FS_RemoveElement
    <3>3. Cardinality(T) \in Nat
      BY <3>2, FS_CardinalityType
    <3>4. QED BY <1>4, <2>3, <3>2, <3>3, WsAssumption
  <2>4. QED BY <2>1, <2>2, <2>3 DEF ConnChange
<1>6. QED BY <1>3, <1>5 DEF PlacesInv

\* The record a step of connection c leaves behind.
LEMMA HandlerPlaces ==
    ASSUME PlacesInv, NEW c \in Conns,
           Connect(c) \/ HandlerStep(c) \/ PeerVanishes(c) \/ Pong(c)
    PROVE  \E w : ConnChange(c, w)
<1> DEFINE old == conn[c]
<1>1. old \in ConnRecord /\ ConnOK(old) /\ conn \in [Conns -> ConnRecord] /\ ipCount \in Nat
  BY DEF PlacesInv
<1>2. CASE Connect(c)
  <2>1. CASE ipCount + 1 > MaxConnectionsPerIp
    <3> DEFINE w == [old EXCEPT !.pc = "refused"]
    <3>1. conn' = [conn EXCEPT ![c] = w] /\ ipCount' = ipCount /\ old.pc = "none"
      BY <1>2, <2>1 DEF Connect
    <3>2. w \in ConnRecord /\ ConnOK(w) /\ ~Counts(w) /\ ~Counts(old)
      BY <1>1, <3>1 DEF ConnRecord, ConnPcs, ConnOK, Counts
    <3>3. ConnChange(c, w)
      BY <3>1, <3>2 DEF ConnChange
    <3>4. QED BY <3>3
  <2>2. CASE ~(ipCount + 1 > MaxConnectionsPerIp)
    <3> DEFINE w == [old EXCEPT !.pc = "snapshot", !.open = TRUE]
    <3>1. conn' = [conn EXCEPT ![c] = w] /\ ipCount' = ipCount + 1 /\ old.pc = "none"
      BY <1>1, <1>2, <2>2 DEF Connect, ConnRecord
    <3>2. w \in ConnRecord /\ ConnOK(w) /\ Counts(w) /\ ~Counts(old)
      BY <1>1, <3>1 DEF ConnRecord, ConnPcs, ConnOK, Counts
    <3>3. ipCount' <= MaxConnectionsPerIp
      BY <1>1, <2>2, <3>1, WsAssumption
    <3>4. ConnChange(c, w)
      BY <3>1, <3>2, <3>3 DEF ConnChange
    <3>5. QED BY <3>4
  <2>3. QED BY <2>1, <2>2
<1>3. CASE SnapshotSent(c) \/ ReplayBuffer(c)
  <2>1. PICK pc \in {"replay", "connect"} :
           conn' = [conn EXCEPT ![c].pc = pc] /\ old.pc \in {"snapshot", "replay"} /\ ipCount' = ipCount
    BY <1>3 DEF SnapshotSent, ReplayBuffer
  <2> DEFINE w == [old EXCEPT !.pc = pc]
  <2>2. conn' = [conn EXCEPT ![c] = w]
    BY <2>1
  <2>3. w \in ConnRecord /\ ConnOK(w) /\ (Counts(w) <=> Counts(old))
    BY <1>1, <2>1 DEF ConnRecord, ConnPcs, ConnOK, Counts
  <2>4. ConnChange(c, w)
    BY <2>1, <2>2, <2>3 DEF ConnChange
  <2>5. QED BY <2>4
<1>4. CASE ConnectSubscriber(c) \/ Subscribe(c)
  <2>1. /\ old.pc \in {"connect", "subscribe"} /\ ipCount' = ipCount
        /\ \/ conn' = [conn EXCEPT ![c].pc = "subscribe", ![c].sub = "connected"]
           \/ Live(c, "redis") \/ Live(c, "local")
    BY <1>4 DEF ConnectSubscriber, Subscribe
  <2>2. PICK w \in {[old EXCEPT !.pc = "subscribe", !.sub = "connected"],
                    [old EXCEPT !.pc = "live", !.sub = "redis", !.timer = TRUE],
                    [old EXCEPT !.pc = "live", !.sub = "local", !.timer = TRUE]} :
           conn' = [conn EXCEPT ![c] = w]
    BY <1>1, <2>1 DEF Live, ConnRecord
  <2>3. w \in ConnRecord /\ ConnOK(w) /\ (Counts(w) <=> Counts(old))
    BY <1>1, <2>1, <2>2 DEF ConnRecord, ConnPcs, ConnOK, Counts
  <2>4. ConnChange(c, w)
    BY <2>1, <2>2, <2>3 DEF ConnChange
  <2>5. QED BY <2>4
<1>5. CASE PeerVanishes(c) \/ Pong(c)
  <2>1. PICK w \in {[old EXCEPT !.peer = FALSE], [old EXCEPT !.missed = 0]} :
           conn' = [conn EXCEPT ![c] = w] /\ ipCount' = ipCount
    BY <1>5 DEF PeerVanishes, Pong
  <2>2. /\ w \in ConnRecord /\ w.pc = old.pc /\ w.timer = old.timer /\ w.closed = old.closed
        /\ w.endedIn = old.endedIn /\ w.sub = old.sub
    <3>1. CASE w = [old EXCEPT !.peer = FALSE]
      BY <1>1, <3>1 DEF ConnRecord
    <3>2. CASE w = [old EXCEPT !.missed = 0]
      BY <1>1, <3>2 DEF ConnRecord
    <3>3. QED BY <2>1, <3>1, <3>2
  <2>3. ConnOK(w) /\ (Counts(w) <=> Counts(old))
    BY <1>1, <2>2 DEF ConnOK, Counts
  <2>4. ConnChange(c, w)
    BY <2>1, <2>2, <2>3 DEF ConnChange
  <2>5. QED BY <2>4
<1>6. QED BY <1>2, <1>3, <1>4, <1>5 DEF HandlerStep

LEMMA CleanUpPlaces ==
    ASSUME PlacesInv, NEW c \in Conns, CleanUp(c), conn[c].pc \notin {"none", "refused"}
    PROVE  \E w : ConnChange(c, w)
<1> DEFINE old == conn[c]
<1>1. old \in ConnRecord /\ ConnOK(old)
  BY DEF PlacesInv
<1>2. CASE old.closed
  <2> DEFINE w == [old EXCEPT !.open = FALSE]
  <2>1. conn' = [conn EXCEPT ![c] = w] /\ ipCount' = ipCount
    BY <1>2 DEF CleanUp
  <2>2. w \in ConnRecord /\ ConnOK(w) /\ (Counts(w) <=> Counts(old))
    BY <1>1 DEF ConnRecord, ConnPcs, ConnOK, Counts
  <2>3. ConnChange(c, w)
    BY <2>1, <2>2 DEF ConnChange
  <2>4. QED BY <2>3
<1>3. CASE ~old.closed
  <2> DEFINE w == [old EXCEPT !.open = FALSE, !.closed = TRUE, !.timer = FALSE, !.sub = "none",
                              !.endedIn = old.pc]
  <2>1. conn' = [conn EXCEPT ![c] = w] /\ ipCount' = IF ipCount <= 1 THEN 0 ELSE ipCount - 1
    BY <1>3 DEF CleanUp
  <2>2. w \in ConnRecord /\ ConnOK(w) /\ ~Counts(w) /\ Counts(old)
    BY <1>1, <1>3 DEF ConnRecord, ConnPcs, ConnOK, Counts
  <2>3. ConnChange(c, w)
    BY <2>1, <2>2 DEF ConnChange
  <2>4. QED BY <2>3
<1>4. QED BY <1>2, <1>3

LEMMA ClosingPlaces ==
    ASSUME PlacesInv, NEW c \in Conns, SocketCloses(c) \/ CloseAfterError(c) \/ Heartbeat(c)
    PROVE  \E w : ConnChange(c, w)
<1> DEFINE old == conn[c]
<1>1. old \in ConnRecord /\ ConnOK(old)
  BY DEF PlacesInv
<1>2. CASE CleanUp(c)
  <2>1. old.pc \notin {"none", "refused"}
    BY <1>1 DEF SocketCloses, CloseAfterError, Heartbeat, ConnOK
  <2>2. QED BY <1>2, <2>1, CleanUpPlaces
<1>3. CASE ~CleanUp(c)
  <2> DEFINE w == [old EXCEPT !.missed = old.missed + 1]
  <2>1. conn' = [conn EXCEPT ![c] = w] /\ ipCount' = ipCount
    BY <1>3 DEF SocketCloses, CloseAfterError, Heartbeat
  <2>2. w \in ConnRecord /\ ConnOK(w) /\ (Counts(w) <=> Counts(old))
    BY <1>1 DEF ConnRecord, ConnPcs, ConnOK, Counts
  <2>3. ConnChange(c, w)
    BY <2>1, <2>2 DEF ConnChange
  <2>4. QED BY <2>3
<1>4. QED BY <1>2, <1>3

LEMMA PlacesStep == PlacesInv /\ [WsNext]_wsVars => PlacesInv'
<1> SUFFICES ASSUME PlacesInv, [WsNext]_wsVars PROVE PlacesInv'
  OBVIOUS
<1>1. CASE UNCHANGED <<conn, ipCount>>
  BY <1>1 DEF PlacesInv
<1>2. CASE PublishStreamEvent \/ PublishFallsBack
  BY <1>1, <1>2 DEF PublishStreamEvent, PublishFallsBack
<1>3. ASSUME NEW c \in Conns,
             \/ Connect(c) \/ HandlerStep(c) \/ SocketCloses(c) \/ CloseAfterError(c)
             \/ PeerVanishes(c) \/ Heartbeat(c) \/ Pong(c)
      PROVE  PlacesInv'
  <2>1. \E w : ConnChange(c, w)
    BY <1>3, HandlerPlaces, ClosingPlaces
  <2>2. QED BY <2>1, PlacesChange
<1>4. QED BY <1>1, <1>2, <1>3 DEF WsNext, wsVars

\* For any connections, limit and faults: _ipConnectionCount is the number of accepted
\* connections not cleaned up, within the limit, and one that ends after its set-up
\* keeps neither interval nor subscription.
THEOREM PlacesAreGivenBack == WsSpec => []PlacesGivenBack
<1>1. PlacesInv => PlacesGivenBack
  BY DEF PlacesInv, PlacesGivenBack, Counts, ConnOK
<1>2. QED BY <1>1, PlacesInitial, PlacesStep, PTL DEF WsSpec

-----------------------------------------------------------------------------
(* The stream WebSocket: the order of events.                              *)

\* Sequences of events numbered up to n, oldest first and newest first.
Increasing(s, n) ==
    /\ s \in Seq(Nat)
    /\ \A i \in DOMAIN s : s[i] <= n
    /\ \A i, j \in DOMAIN s : i < j => s[i] < s[j]

Decreasing(s, n) ==
    /\ s \in Seq(Nat)
    /\ \A i \in DOMAIN s : s[i] <= n
    /\ \A i, j \in DOMAIN s : i < j => s[i] > s[j]

LEMMA IncreasingNext ==
    ASSUME NEW n \in Nat, NEW s, Increasing(s, n)
    PROVE  /\ Increasing(s \o <<n + 1>>, n + 1)
           /\ Increasing(s \o <<>>, n + 1)
           /\ Increasing(s, n + 1)
<1>1. s \in Seq(Nat) /\ DOMAIN s = 1..Len(s) /\ Len(s) \in Nat
  BY DEF Increasing
<1>2. Increasing(s, n + 1)
  BY <1>1 DEF Increasing
<1>3. s \o <<>> = s
  BY <1>1
<1> DEFINE t == s \o <<n + 1>>
<1>4. t \in Seq(Nat) /\ Len(t) = Len(s) + 1 /\ DOMAIN t = 1..(Len(s) + 1)
  BY <1>1
<1>5. t[Len(s) + 1] = n + 1 /\ \A i \in 1..Len(s) : t[i] = s[i]
  BY <1>1
<1> HIDE DEF t
<1>6. \A i \in 1..Len(s) : s[i] <= n /\ s[i] \in Nat
  BY <1>1 DEF Increasing
<1>7. \A i \in DOMAIN t : i \in 1..Len(s) \/ i = Len(s) + 1
  BY <1>1, <1>4
<1>8. \A i \in DOMAIN t : t[i] <= n + 1
  BY <1>5, <1>6, <1>7
<1>9. ASSUME NEW i \in DOMAIN t, NEW j \in DOMAIN t, i < j PROVE t[i] < t[j]
  <2>1. i \in 1..Len(s)
    BY <1>1, <1>4, <1>9
  <2>2. CASE j \in 1..Len(s)
    BY <1>1, <1>5, <1>9, <2>1, <2>2 DEF Increasing
  <2>3. CASE j = Len(s) + 1
    BY <1>5, <1>6, <2>1, <2>3
  <2>4. QED BY <1>7, <2>2, <2>3
<1>10. Increasing(t, n + 1)
  BY <1>4, <1>8, <1>9 DEF Increasing
<1>11. QED BY <1>2, <1>3, <1>10 DEF t

LEMMA PushedDecreasing ==
    ASSUME NEW n \in Nat, NEW b, Decreasing(b, n)
    PROVE  Decreasing(Pushed(b, n + 1), n + 1) /\ Decreasing(b, n + 1)
<1> DEFINE m == IF Len(b) < EventBufferSize THEN Len(b) + 1 ELSE EventBufferSize
           t == <<n + 1>> \o b
           p == Pushed(b, n + 1)
<1>1. b \in Seq(Nat) /\ DOMAIN b = 1..Len(b) /\ Len(b) \in Nat
  BY DEF Decreasing
<1>2. m \in Nat /\ m <= Len(b) + 1
  BY <1>1, WsAssumption
<1>3. /\ t \in Seq(Nat) /\ Len(t) = Len(b) + 1 /\ t[1] = n + 1
      /\ \A i \in 2..(Len(b) + 1) : t[i] = b[i - 1]
  BY <1>1
<1>4. p = SubSeq(t, 1, m)
  BY DEF Pushed
<1> HIDE DEF m, t, p
<1>5. p \in Seq(Nat) /\ Len(p) = m /\ DOMAIN p = 1..m /\ \A i \in 1..m : p[i] = t[i]
  BY <1>1, <1>2, <1>3, <1>4
<1>6. \A i \in 1..Len(b) : b[i] <= n /\ b[i] \in Nat
  BY <1>1 DEF Decreasing
<1>7. \A i \in 1..m :
         \/ i = 1 /\ p[i] = n + 1
         \/ i - 1 \in 1..Len(b) /\ p[i] = b[i - 1]
  <2> SUFFICES ASSUME NEW i \in 1..m
               PROVE  (i = 1 /\ p[i] = n + 1) \/ (i - 1 \in 1..Len(b) /\ p[i] = b[i - 1])
    OBVIOUS
  <2>1. CASE i = 1
    BY <1>3, <1>5, <2>1
  <2>2. CASE i # 1
    <3>1. i \in 2..(Len(b) + 1) /\ i - 1 \in 1..Len(b)
      BY <1>1, <1>2, <2>2
    <3>2. QED BY <1>3, <1>5, <3>1
  <2>3. QED BY <2>1, <2>2
<1>8. \A i \in DOMAIN p : p[i] <= n + 1
  <2> SUFFICES ASSUME NEW i \in 1..m PROVE p[i] <= n + 1
    BY <1>5
  <2>1. CASE i = 1 /\ p[i] = n + 1
    BY <2>1
  <2>2. CASE i - 1 \in 1..Len(b) /\ p[i] = b[i - 1]
    <3>1. p[i] \in Nat /\ p[i] <= n
      BY <1>6, <2>2
    <3>2. QED BY <3>1
  <2>3. QED BY <1>7, <2>1, <2>2
<1>9. ASSUME NEW i \in DOMAIN p, NEW j \in DOMAIN p, i < j PROVE p[i] > p[j]
  <2>1. i \in 1..m /\ j \in 1..m /\ j # 1
    BY <1>2, <1>5, <1>9
  <2>2. j - 1 \in 1..Len(b) /\ p[j] = b[j - 1]
    BY <1>7, <2>1
  <2>3. CASE i = 1
    <3>1. p[i] = n + 1
      BY <1>3, <1>5, <2>1, <2>3
    <3>2. QED BY <1>6, <2>2, <3>1
  <2>4. CASE i # 1
    <3>1. i - 1 \in 1..Len(b) /\ p[i] = b[i - 1] /\ i - 1 < j - 1
      BY <1>2, <1>7, <1>9, <2>1, <2>4
    <3>2. QED BY <1>1, <2>2, <3>1 DEF Decreasing
  <2>5. QED BY <2>3, <2>4
<1>10. Decreasing(p, n + 1)
  BY <1>5, <1>8, <1>9 DEF Decreasing
<1>11. Decreasing(b, n + 1)
  BY <1>1, <1>6 DEF Decreasing
<1>12. QED BY <1>10, <1>11 DEF p

LEMMA ReverseIncreasing ==
    ASSUME NEW n \in Nat, NEW b, Decreasing(b, n)
    PROVE  Increasing(<<>> \o Reverse(b), n)
<1> DEFINE l == Len(b)
           t == Reverse(b)
<1>1. b \in Seq(Nat) /\ DOMAIN b = 1..l /\ l \in Nat
  BY DEF Decreasing
<1>2. t = [i \in 1..l |-> b[(l - i) + 1]]
  BY DEF Reverse
<1> HIDE DEF l, t
<1>3. \A i \in 1..l : (l - i) + 1 \in 1..l /\ b[(l - i) + 1] \in Nat /\ b[(l - i) + 1] <= n
  BY <1>1 DEF Decreasing
<1>4. t \in Seq(Nat) /\ DOMAIN t = 1..l /\ Len(t) = l
  <2>1. t \in [1..l -> Nat]
    BY <1>2, <1>3
  <2>2. QED BY <1>1, <2>1
<1>5. <<>> \o t = t
  BY <1>4
<1>6. \A i \in 1..l : t[i] = b[(l - i) + 1]
  BY <1>2
<1>7. ASSUME NEW i \in 1..l, NEW j \in 1..l, i < j PROVE t[i] < t[j]
  <2>1. (l - j) + 1 < (l - i) + 1 /\ (l - i) + 1 \in DOMAIN b /\ (l - j) + 1 \in DOMAIN b
    BY <1>1, <1>3, <1>7
  <2>2. b[(l - j) + 1] > b[(l - i) + 1]
    BY <2>1 DEF Decreasing
  <2>3. QED BY <1>3, <1>6, <2>2
<1>8. Increasing(t, n)
  BY <1>3, <1>4, <1>6, <1>7 DEF Increasing
<1>9. QED BY <1>5, <1>8 DEF t

\* What a connection was sent is in order; nothing is sent before the replay, and
\* the buffers hold the newest event first.
OrderInv ==
    /\ published \in Nat
    /\ sent \in [Conns -> Seq(Nat)]
    /\ \A c \in Conns : Increasing(sent[c], published)
    /\ \A c \in Conns : conn[c].pc \in {"none", "refused", "snapshot", "replay"} => sent[c] = <<>>
    /\ Decreasing(redisBuffer, published)
    /\ Decreasing(localBuffer, published)

LEMMA OrderInitial == WsInit => OrderInv
BY DEF WsInit, OrderInv, Increasing, Decreasing

LEMMA OrderPublish ==
    ASSUME PlacesInv, OrderInv, PublishStreamEvent \/ PublishFallsBack
    PROVE  OrderInv'
<1> DEFINE e == published + 1
<1>1. /\ published \in Nat /\ published' = e /\ conn' = conn /\ e \in Nat
      /\ redisBuffer' \in {redisBuffer, Pushed(redisBuffer, e)}
      /\ localBuffer' \in {localBuffer, Pushed(localBuffer, e)}
  <2>1. published \in Nat
    BY DEF OrderInv
  <2>2. CASE PublishStreamEvent
    BY <2>1, <2>2 DEF PublishStreamEvent
  <2>3. CASE PublishFallsBack
    BY <2>1, <2>3 DEF PublishFallsBack
  <2>4. QED BY <2>2, <2>3
<1>2. PICK buses \in SUBSET {"redis", "local"} :
         sent' = [c \in Conns |-> sent[c] \o IF \E bus \in buses : Hears(c, bus) THEN <<e>> ELSE <<>>]
  BY DEF PublishStreamEvent, PublishFallsBack, Broadcast
<1>3. Decreasing(redisBuffer', published') /\ Decreasing(localBuffer', published')
  BY <1>1, PushedDecreasing DEF OrderInv
<1>4. ASSUME NEW c \in Conns
      PROVE  /\ Increasing(sent'[c], published')
             /\ conn'[c].pc \in {"none", "refused", "snapshot", "replay"} => sent'[c] = <<>>
  <2>1. Increasing(sent[c], published)
    BY DEF OrderInv
  <2>2. sent'[c] \in {sent[c] \o <<e>>, sent[c] \o <<>>}
    BY <1>2
  <2>3. Increasing(sent'[c], published')
    BY <1>1, <2>1, <2>2, IncreasingNext
  <2>4. ASSUME conn'[c].pc \in {"none", "refused", "snapshot", "replay"} PROVE sent'[c] = <<>>
    <3>1. conn[c].sub = "none"
      BY <1>1, <2>4 DEF PlacesInv, ConnOK
    <3>2. \A bus \in buses : ~Hears(c, bus)
      BY <3>1 DEF Hears
    <3>3. sent'[c] = sent[c] \o <<>> /\ sent[c] = <<>>
      BY <1>1, <1>2, <2>4, <3>2 DEF OrderInv
    <3>4. QED BY <3>3
  <2>5. QED BY <2>3, <2>4
<1>5. sent' \in [Conns -> Seq(Nat)]
  BY <1>2, <1>4 DEF Increasing
<1>6. QED BY <1>1, <1>3, <1>4, <1>5 DEF OrderInv

LEMMA OrderReplay ==
    ASSUME PlacesInv, OrderInv, NEW c \in Conns, ReplayBuffer(c)
    PROVE  OrderInv'
<1>1. /\ conn[c].pc = "replay" /\ conn' = [conn EXCEPT ![c].pc = "connect"]
      /\ UNCHANGED <<redisBuffer, localBuffer, published>>
      /\ \E b \in {redisBuffer, localBuffer} : sent' = [sent EXCEPT ![c] = Replayed(c, b)]
  BY DEF ReplayBuffer
<1>2. PICK b \in {redisBuffer, localBuffer} : sent' = [sent EXCEPT ![c] = Replayed(c, b)]
  BY <1>1
<1>3. sent[c] = <<>> /\ Decreasing(b, published) /\ published \in Nat
      /\ sent \in [Conns -> Seq(Nat)] /\ Increasing(sent[c], published)
  BY <1>1 DEF OrderInv
<1>4. Increasing(Replayed(c, b), published)
  BY <1>3, ReverseIncreasing DEF Replayed
<1>5. sent' \in [Conns -> Seq(Nat)] /\ sent'[c] = Replayed(c, b)
      /\ \A d \in Conns \ {c} : sent'[d] = sent[d]
  BY <1>2, <1>3, <1>4 DEF Increasing
<1>6. \A d \in Conns : Increasing(sent'[d], published)
  BY <1>4, <1>5 DEF OrderInv
<1>7. conn'[c].pc = "connect" /\ \A d \in Conns \ {c} : conn'[d] = conn[d]
  BY <1>1 DEF PlacesInv, ConnRecord
<1>8. \A d \in Conns : conn'[d].pc \in {"none", "refused", "snapshot", "replay"} => sent'[d] = <<>>
  BY <1>5, <1>7 DEF OrderInv
<1>9. QED BY <1>1, <1>3, <1>5, <1>6, <1>8 DEF OrderInv

\* A step that sends nothing and takes no connection back before its replay.
LEMMA OrderOther ==
    ASSUME OrderInv, UNCHANGED <<redisBuffer, localBuffer, published, sent>>,
           \A c \in Conns : conn'[c].pc \in {"none", "refused", "snapshot", "replay"} =>
                              conn[c].pc \in {"none", "refused", "snapshot", "replay"}
    PROVE  OrderInv'
BY DEF OrderInv

LEMMA OrderConnection ==
    ASSUME PlacesInv, OrderInv, NEW c \in Conns,
           \/ Connect(c) \/ SnapshotSent(c) \/ ConnectSubscriber(c) \/ Subscribe(c)
           \/ SocketCloses(c) \/ CloseAfterError(c) \/ PeerVanishes(c) \/ Heartbeat(c) \/ Pong(c)
    PROVE  OrderInv'
<1>1. UNCHANGED <<redisBuffer, localBuffer, published, sent>>
  BY DEF Connect, SnapshotSent, ConnectSubscriber, Subscribe, SocketCloses, CloseAfterError,
         PeerVanishes, Heartbeat, Pong
<1>2. conn \in [Conns -> ConnRecord]
  BY DEF PlacesInv
<1>3. \A d \in Conns \ {c} : conn'[d] = conn[d]
  BY <1>2 DEF Connect, SnapshotSent, ConnectSubscriber, Subscribe, Live, SocketCloses,
              CloseAfterError, CleanUp, PeerVanishes, Heartbeat, Pong
<1>4. conn'[c].pc = conn[c].pc \/ conn[c].pc \in {"none", "snapshot"}
        \/ conn'[c].pc \in {"subscribe", "live"}
  <2>1. CASE Connect(c) \/ SnapshotSent(c)
    BY <2>1 DEF Connect, SnapshotSent
  <2>2. CASE ConnectSubscriber(c) \/ Subscribe(c)
    BY <1>2, <2>2 DEF ConnectSubscriber, Subscribe, Live, ConnRecord
  <2>3. CASE PeerVanishes(c) \/ Pong(c)
    BY <1>2, <2>3 DEF PeerVanishes, Pong, ConnRecord
  <2>4. CASE CleanUp(c)
    BY <1>2, <2>4 DEF CleanUp, ConnRecord
  <2>5. CASE Heartbeat(c) /\ ~CleanUp(c)
    BY <1>2, <2>5 DEF Heartbeat, ConnRecord
  <2>6. QED BY <2>1, <2>2, <2>3, <2>4, <2>5 DEF SocketCloses, CloseAfterError
<1>5. QED BY <1>1, <1>3, <1>4, OrderOther

LEMMA OrderStep == PlacesInv /\ OrderInv /\ [WsNext]_wsVars => OrderInv'
<1> SUFFICES ASSUME PlacesInv, OrderInv, [WsNext]_wsVars PROVE OrderInv'
  OBVIOUS
<1>1. CASE UNCHANGED wsVars
  BY <1>1 DEF wsVars, OrderInv
<1>2. CASE WsNext
  BY <1>2, OrderPublish, OrderReplay, OrderConnection DEF WsNext, HandlerStep
<1>3. QED BY <1>1, <1>2

\* For any connections, buffer size, events and faults: publishStreamEvent and the
\* connection handler give no connection an event twice or out of order, wherever the
\* replay, the subscription and the fall-backs to the in-process bus fall.
THEOREM EventsArriveInOrder == WsSpec => []EventsInOrder
<1>1. OrderInv => EventsInOrder
  BY DEF OrderInv, EventsInOrder, Increasing
<1>2. QED BY <1>1, PlacesInitial, PlacesStep, OrderInitial, OrderStep, PTL DEF WsSpec

-----------------------------------------------------------------------------
(* The token bucket accounts for what it admits and nearly keeps the       *)
(* promise of Retry-After, for every capacity, window, fineness of the     *)
(* numbers and difference of the clocks.                                   *)

\* What the stored hash says, and what it accounts for.  While none is stored, the
\* windows that had to pass since the last one pay for the full bucket to come.
BucketInv ==
    /\ ticks \in Nat /\ admitted \in Nat /\ wentBack \in Nat /\ roundings \in Nat
    /\ bucket = NoBucket => admitted * One <= (ticks + wentBack) * RefillRate + roundings
    /\ bucket # NoBucket =>
          /\ bucket \in [tokens : Nat, updated : Nat, expires : Nat]
          /\ bucket.tokens <= Full
          /\ bucket.updated <= ticks + Skew
          /\ bucket.updated + 2 * Window <= bucket.expires + Skew
          /\ admitted * One + bucket.tokens <= Full + (bucket.updated + wentBack) * RefillRate + roundings

\* A refused client's wait pays for a token, counted from the last update and up to
\* a unit for each rounding.
RefusalInv ==
    refusal # NoRefusal =>
       /\ refusal \in [at : Nat, retry : Nat, rounded : Nat]
       /\ bucket # NoBucket =>
             refusal.retry * RefillRate + bucket.tokens + 1 + (roundings - refusal.rounded)
                 >= One + (bucket.updated - refusal.at) * RefillRate

LEMMA Distributes ==
    ASSUME NEW a \in Int, NEW b \in Int, NEW c \in Int
    PROVE  (a - b) * c = a * c - b * c /\ (a + b) * c = a * c + b * c /\ a * c \in Int /\ b * c \in Int
OBVIOUS

LEMMA Ordered ==
    ASSUME NEW a \in Int, NEW b \in Int, NEW c \in Nat, a <= b
    PROVE  a * c <= b * c
<1>1. (b - a) * c >= 0
  OBVIOUS
<1> QED BY <1>1, Distributes

LEMMA Units ==
    /\ One \in Nat \ {0} /\ RefillRate \in Nat \ {0} /\ Full \in Nat
    /\ Full = Window * RefillRate /\ Full >= One
<1> USE BucketAssumption
<1>1. One \in Nat \ {0} /\ RefillRate \in Nat \ {0}
  BY DEF One, RefillRate
<1>2. Full \in Nat
  BY <1>1 DEF Full
<1>3. Full = Window * RefillRate
  BY DEF Full, One, RefillRate
<1>4. 1 * One <= Capacity * One
  BY <1>1, Ordered
<1> QED BY <1>1, <1>2, <1>3, <1>4 DEF Full

\* The refill of the script: a full bucket, or the stored tokens and what was earned,
\* a unit more or less; and what that leaves to account for.
LEMMA RefillBounds ==
    ASSUME BucketInv, NEW now \in Clocks, NEW tokens \in Refilled(now)
    PROVE  /\ tokens \in Nat /\ tokens <= Full /\ now \in Nat
           /\ Behind(now) \in Nat /\ Rounded(now) \in {0, 1}
           /\ admitted * One + tokens
                 <= Full + (now + (wentBack + Behind(now))) * RefillRate + (roundings + Rounded(now))
           /\ bucket = NoBucket => tokens = Full
           /\ bucket # NoBucket /\ tokens < Full =>
                 tokens + Rounded(now) >= bucket.tokens + (now - bucket.updated) * RefillRate
<1> USE BucketAssumption, Units
<1>1. /\ ticks \in Nat /\ admitted \in Nat /\ wentBack \in Nat /\ roundings \in Nat
      /\ now \in Nat /\ now >= ticks /\ admitted * One \in Nat
  BY DEF BucketInv, Clocks
<1>2. CASE bucket = NoBucket
  <2>1. tokens = Full /\ Behind(now) = 0 /\ Rounded(now) = 0
    BY <1>2 DEF Refilled, Behind, Rounded, Elapsed
  <2>2. (ticks + wentBack) * RefillRate <= (now + wentBack) * RefillRate
    BY <1>1, Ordered
  <2>3. (ticks + wentBack) * RefillRate \in Nat /\ (now + wentBack) * RefillRate \in Nat
    BY <1>1
  <2>4. admitted * One <= (ticks + wentBack) * RefillRate + roundings
    BY <1>2 DEF BucketInv
  <2>5. now + (wentBack + Behind(now)) = now + wentBack
    BY <1>1, <2>1
  <2>6. admitted * One + tokens <= Full + (now + wentBack) * RefillRate + roundings
    BY <1>1, <2>1, <2>2, <2>3, <2>4
  <2> QED BY <1>1, <1>2, <2>1, <2>5, <2>6
<1>3. CASE bucket # NoBucket
  <2>1. /\ bucket.tokens \in Nat /\ bucket.updated \in Nat /\ bucket.tokens <= Full
        /\ admitted * One + bucket.tokens <= Full + (bucket.updated + wentBack) * RefillRate + roundings
    BY <1>3 DEF BucketInv
  <2> DEFINE n == now * RefillRate
             u == bucket.updated * RefillRate
             w == wentBack * RefillRate
  <2>2. n \in Nat /\ u \in Nat /\ w \in Nat
    BY <1>1, <2>1
  <2>3. /\ (bucket.updated + wentBack) * RefillRate = u + w
        /\ (now - bucket.updated) * RefillRate = n - u
    BY <1>1, <2>1, Distributes
  <2>4. CASE now <= bucket.updated
    <3> HIDE Units
    <3>1. tokens = bucket.tokens /\ Rounded(now) = 0 /\ Behind(now) = bucket.updated - now
      <4>1. Elapsed(now) = 0
        BY <1>1, <2>1, <2>4 DEF Elapsed
      <4>2. Refilled(now) = {bucket.tokens}
        BY <1>3, <4>1 DEF Refilled
      <4>3. Behind(now) = bucket.updated - now
        BY <1>1, <1>3, <2>1, <2>4 DEF Behind
      <4> QED BY <4>1, <4>2, <4>3 DEF Rounded
    <3> USE Units
    <3>2. now + (wentBack + Behind(now)) = bucket.updated + wentBack
      BY <1>1, <2>1, <3>1
    <3>3. (now - bucket.updated) * RefillRate <= 0 * RefillRate
      BY <1>1, <2>1, <2>4, Ordered
    <3>4. n - u <= 0
      BY <2>2, <2>3, <3>3
    <3> HIDE DEF n, u, w
    <3> QED BY <1>1, <1>3, <2>1, <2>2, <2>3, <2>4, <3>1, <3>2, <3>4
  <2>5. CASE now > bucket.updated
    <3>1. Elapsed(now) = now - bucket.updated /\ Elapsed(now) # 0 /\ Rounded(now) = 1 /\ Behind(now) = 0
      BY <1>1, <1>3, <2>1, <2>5 DEF Elapsed, Rounded, Behind
    <3>2. (1 + bucket.updated) * RefillRate <= now * RefillRate
      BY <1>1, <2>1, <2>5, Ordered
    <3>3. (1 + bucket.updated) * RefillRate = 1 * RefillRate + u
      BY <2>1, Distributes
    <3>4. n - u >= 1
      BY <2>2, <3>2, <3>3
    <3> DEFINE exact == bucket.tokens + (n - u)
    <3>5. Refilled(now) = {IF units < Full THEN units ELSE Full : units \in exact - 1 .. exact + 1}
      BY <1>3, <2>3, <3>1 DEF Refilled
    <3> HIDE DEF n, u, w
    <3>6. exact \in Nat /\ exact >= 1
      BY <2>1, <2>2, <3>4
    <3>7. PICK units \in exact - 1 .. exact + 1 : tokens = IF units < Full THEN units ELSE Full
      BY <3>5
    <3>8. tokens \in Nat /\ tokens <= Full /\ tokens <= exact + 1 /\ (tokens < Full => tokens + 1 >= exact)
      BY <3>6, <3>7
    <3>9. (now + (wentBack + Behind(now))) * RefillRate = n + w
      BY <1>1, <3>1, Distributes DEF n, w
    <3>10. admitted * One + tokens <= Full + (n + w) + (roundings + 1)
      BY <1>1, <2>1, <2>2, <2>3, <3>8
    <3> QED BY <1>1, <1>3, <2>3, <2>5, <3>1, <3>8, <3>9, <3>10
  <2> QED BY <1>1, <2>1, <2>4, <2>5
<1> QED BY <1>2, <1>3

\* What a script's step writes is a hash that the account still covers.
LEMMA SavedIsABucket ==
    ASSUME BucketInv, NEW now \in Clocks, NEW left \in Nat, left <= Full,
           bucket' = Saved(now, left), Reckoned(now), ticks' = ticks, admitted' \in Nat,
           Behind(now) \in Nat, Rounded(now) \in {0, 1},
           admitted' * One + left
              <= Full + (now + (wentBack + Behind(now))) * RefillRate + (roundings + Rounded(now))
    PROVE  BucketInv' /\ bucket' # NoBucket /\ bucket'.tokens = left /\ bucket'.updated = now
<1> USE BucketAssumption
<1>1. /\ ticks \in Nat /\ now \in Nat /\ now <= ticks + Skew
      /\ wentBack' = wentBack + Behind(now) /\ wentBack' \in Nat
      /\ roundings' = roundings + Rounded(now) /\ roundings' \in Nat
  BY DEF BucketInv, Clocks, Reckoned
<1>2. /\ bucket'.tokens = left /\ bucket'.updated = now /\ bucket'.expires = ticks + 2 * Window
      /\ bucket' \in [tokens : Nat, updated : Nat, expires : Nat]
  BY <1>1 DEF Saved
<1>3. bucket' # NoBucket
  BY <1>2 DEF NoBucket
<1>4. /\ bucket'.updated <= ticks' + Skew
      /\ bucket'.updated + 2 * Window <= bucket'.expires + Skew
  BY <1>1, <1>2
<1>5. admitted' * One + bucket'.tokens <= Full + (bucket'.updated + wentBack') * RefillRate + roundings'
  BY <1>1, <1>2
<1>6. Full' = Full /\ One' = One /\ RefillRate' = RefillRate
  BY DEF Full, One, RefillRate
<1> QED BY <1>1, <1>2, <1>3, <1>4, <1>5, <1>6 DEF BucketInv

LEMMA TakeTokenKeeps ==
    ASSUME BucketInv, NEW now \in Clocks, TakeToken(now)
    PROVE  (BucketInv /\ RefusalInv)'
<1> USE BucketAssumption, Units
<1>1. PICK tokens \in Refilled(now) : tokens >= One /\ bucket' = Saved(now, tokens - One)
  BY DEF TakeToken
<1>2. admitted' = admitted + 1 /\ refusal' = NoRefusal /\ Reckoned(now) /\ ticks' = ticks
  BY DEF TakeToken
<1> DEFINE left == tokens - One
           covered == Full + (now + (wentBack + Behind(now))) * RefillRate + (roundings + Rounded(now))
<1>3. tokens \in Nat /\ tokens <= Full /\ admitted * One + tokens <= covered
  BY <1>1, RefillBounds
<1>4. left \in Nat /\ left <= Full /\ admitted \in Nat
  BY <1>1, <1>3 DEF BucketInv
<1>5. (admitted + 1) * One = admitted * One + One /\ admitted * One \in Nat
  BY <1>4, Distributes
<1> HIDE DEF covered
<1>6. admitted' * One + left = admitted * One + tokens
  BY <1>2, <1>3, <1>4, <1>5
<1>7. admitted' * One + left <= covered
  BY <1>3, <1>6
<1> HIDE DEF left
<1>8. Behind(now) \in Nat /\ Rounded(now) \in {0, 1} /\ admitted' \in Nat
  BY <1>1, <1>2, <1>4, RefillBounds
<1>9. BucketInv'
  BY <1>1, <1>2, <1>4, <1>7, <1>8, SavedIsABucket DEF left, covered
<1> QED BY <1>2, <1>9 DEF RefusalInv, NoRefusal

LEMMA RefuseKeeps ==
    ASSUME BucketInv, RefusalInv, NEW now \in Clocks, RefuseRequest(now)
    PROVE  (BucketInv /\ RefusalInv)'
<1> USE BucketAssumption, Units
<1>0. PICK tokens \in Refilled(now) :
         /\ tokens < One /\ bucket' = Saved(now, tokens)
         /\ \E retry \in RetryMs(tokens) :
               refusal' = IF refusal = NoRefusal
                          THEN [at |-> now, retry |-> retry, rounded |-> roundings'] ELSE refusal
  BY DEF RefuseRequest
<1>1. PICK retry \in RetryMs(tokens) :
         /\ tokens < One /\ bucket' = Saved(now, tokens)
         /\ refusal' = IF refusal = NoRefusal
                       THEN [at |-> now, retry |-> retry, rounded |-> roundings'] ELSE refusal
  BY <1>0
<1>2. Reckoned(now) /\ ticks' = ticks /\ admitted' = admitted /\ admitted \in Nat
  BY DEF RefuseRequest, BucketInv
<1>3. /\ tokens \in Nat /\ tokens <= Full /\ now \in Nat
      /\ Behind(now) \in Nat /\ Rounded(now) \in {0, 1}
  BY <1>1, RefillBounds
<1>4. admitted' * One + tokens
         <= Full + (now + (wentBack + Behind(now))) * RefillRate + (roundings + Rounded(now))
  BY <1>1, <1>2, RefillBounds
<1>5. BucketInv' /\ bucket' # NoBucket /\ bucket'.tokens = tokens /\ bucket'.updated = now
  BY <1>1, <1>2, <1>3, <1>4, SavedIsABucket
<1>6. roundings \in Nat /\ roundings' = roundings + Rounded(now) /\ roundings' \in Nat
  BY <1>3, <1>2 DEF Reckoned, BucketInv
<1>7. One' = One /\ RefillRate' = RefillRate
  BY DEF One, RefillRate
<1>8. CASE refusal = NoRefusal
  <2>1. refusal' = [at |-> now, retry |-> retry, rounded |-> roundings']
    BY <1>1, <1>8
  <2>2. retry \in Nat /\ One - tokens - 1 <= retry * RefillRate
    BY <1>1 DEF RetryMs
  <2>3. /\ refusal'.at = now /\ refusal'.retry = retry /\ refusal'.rounded = roundings'
        /\ refusal' \in [at : Nat, retry : Nat, rounded : Nat]
    BY <1>3, <1>6, <2>1, <2>2
  <2>4. (bucket'.updated - refusal'.at) * RefillRate = 0 /\ retry * RefillRate \in Nat
    BY <1>3, <1>5, <2>2, <2>3
  <2>5. refusal'.retry * RefillRate + bucket'.tokens + 1 + (roundings' - refusal'.rounded)
           >= One + (bucket'.updated - refusal'.at) * RefillRate
    BY <1>3, <1>5, <1>6, <2>2, <2>3, <2>4
  <2> QED BY <1>5, <1>7, <2>3, <2>5 DEF RefusalInv
<1>9. CASE refusal # NoRefusal
  <2>1. /\ refusal' = refusal /\ refusal \in [at : Nat, retry : Nat, rounded : Nat]
        /\ refusal.at \in Nat /\ refusal.retry \in Nat /\ refusal.rounded \in Nat
    BY <1>1, <1>9 DEF RefusalInv
  <2>2. bucket # NoBucket
    BY <1>1, <1>3, RefillBounds
  <2>3. bucket.tokens \in Nat /\ bucket.updated \in Nat
    BY <2>2 DEF BucketInv
  <2>4. tokens + Rounded(now) >= bucket.tokens + (now - bucket.updated) * RefillRate
    BY <1>1, <1>3, <2>2, RefillBounds
  <2>5. refusal.retry * RefillRate + bucket.tokens + 1 + (roundings - refusal.rounded)
            >= One + (bucket.updated - refusal.at) * RefillRate
    BY <1>9, <2>2 DEF RefusalInv
  <2> DEFINE n == now * RefillRate
             u == bucket.updated * RefillRate
             a == refusal.at * RefillRate
             w == refusal.retry * RefillRate
  <2>6. n \in Nat /\ u \in Nat /\ a \in Nat /\ w \in Nat
    BY <1>3, <2>1, <2>3
  <2>7. /\ (now - bucket.updated) * RefillRate = n - u
        /\ (bucket.updated - refusal.at) * RefillRate = u - a
        /\ (now - refusal.at) * RefillRate = n - a
    BY <1>3, <2>1, <2>3, Distributes
  <2> HIDE DEF n, u, a
  <2>8. w + tokens + 1 + (roundings' - refusal.rounded) >= One + (now - refusal.at) * RefillRate
    <3> HIDE DEF w
    <3>1. w + bucket.tokens + 1 + (roundings - refusal.rounded) >= One + (u - a)
      BY <2>5, <2>7 DEF w
    <3> QED BY <1>3, <1>6, <2>1, <2>3, <2>4, <2>6, <2>7, <3>1
  <2> QED BY <1>5, <1>7, <2>1, <2>8 DEF RefusalInv
<1> QED BY <1>8, <1>9

LEMMA TickKeeps == BucketInv /\ RefusalInv /\ BucketTick => (BucketInv /\ RefusalInv)'
<1> SUFFICES ASSUME BucketInv, RefusalInv, BucketTick PROVE (BucketInv /\ RefusalInv)'
  OBVIOUS
<1> USE BucketAssumption, Units
<1>1. /\ ticks \in Nat /\ ticks' = ticks + 1 /\ ticks' \in Nat
      /\ UNCHANGED <<admitted, refusal, wentBack, roundings>>
      /\ admitted \in Nat /\ wentBack \in Nat /\ roundings \in Nat
  BY DEF BucketTick, BucketInv
<1>2. One' = One /\ RefillRate' = RefillRate /\ Full' = Full
  BY DEF One, RefillRate, Full
<1>3. CASE bucket' = bucket /\ bucket # NoBucket
  BY <1>1, <1>2, <1>3 DEF BucketInv, RefusalInv
<1>4. CASE bucket' = NoBucket /\ bucket = NoBucket
  <2>1. (ticks + wentBack) * RefillRate <= (ticks' + wentBack) * RefillRate
    BY <1>1, Ordered
  <2>2. /\ admitted * One \in Nat
        /\ (ticks + wentBack) * RefillRate \in Nat /\ (ticks' + wentBack) * RefillRate \in Nat
    BY <1>1
  <2>3. admitted * One <= (ticks + wentBack) * RefillRate + roundings
    BY <1>4 DEF BucketInv
  <2>4. admitted * One <= (ticks' + wentBack) * RefillRate + roundings
    BY <1>1, <2>1, <2>2, <2>3
  <2> QED BY <1>1, <1>2, <1>4, <2>4 DEF BucketInv, RefusalInv
<1>5. CASE bucket' = NoBucket /\ bucket # NoBucket
  <2>1. bucket.expires <= ticks'
    BY <1>5 DEF BucketTick
  <2>2. /\ bucket.tokens \in Nat /\ bucket.updated \in Nat /\ bucket.expires \in Nat
        /\ bucket.updated + 2 * Window <= bucket.expires + Skew
        /\ admitted * One + bucket.tokens <= Full + (bucket.updated + wentBack) * RefillRate + roundings
    BY <1>5 DEF BucketInv
  <2>3. (bucket.updated + wentBack) + Window <= ticks' + wentBack
    BY <1>1, <2>1, <2>2
  <2>4. ((bucket.updated + wentBack) + Window) * RefillRate <= (ticks' + wentBack) * RefillRate
    BY <1>1, <2>2, <2>3, Ordered
  <2>5. ((bucket.updated + wentBack) + Window) * RefillRate = (bucket.updated + wentBack) * RefillRate + Full
    BY <1>1, <2>2, Distributes
  <2>6. /\ admitted * One \in Nat /\ (bucket.updated + wentBack) * RefillRate \in Nat
        /\ (ticks' + wentBack) * RefillRate \in Nat
    BY <1>1, <2>2
  <2>7. admitted * One <= (ticks' + wentBack) * RefillRate + roundings
    BY <1>1, <2>2, <2>4, <2>5, <2>6
  <2> QED BY <1>1, <1>2, <1>5, <2>7 DEF BucketInv, RefusalInv
<1> QED BY <1>3, <1>4, <1>5 DEF BucketTick

\* The invariant gives both halves of BucketSound.
LEMMA BucketInvSuffices == BucketInv /\ RefusalInv => BucketSound
<1> SUFFICES ASSUME BucketInv, RefusalInv PROVE BucketPays /\ RetryAfterSuffices
  BY DEF BucketSound
<1> USE BucketAssumption, Units
<1>1. ticks \in Nat /\ admitted \in Nat /\ wentBack \in Nat /\ roundings \in Nat /\ admitted * One \in Nat
  BY DEF BucketInv
<1>2. BucketPays
  <2> DEFINE most == (ticks + Skew + wentBack) * RefillRate
  <2>1. most \in Nat
    BY <1>1
  <2>2. CASE bucket = NoBucket
    <3>1. (ticks + wentBack) * RefillRate <= most /\ (ticks + wentBack) * RefillRate \in Nat
      BY <1>1, Ordered
    <3>2. admitted * One <= (ticks + wentBack) * RefillRate + roundings
      BY <2>2 DEF BucketInv
    <3> HIDE DEF most
    <3>3. admitted * One + 0 <= Full + most + roundings
      BY <1>1, <2>1, <3>1, <3>2
    <3> QED BY <2>2, <3>3 DEF BucketPays, most
  <2>3. CASE bucket # NoBucket
    <3>1. /\ bucket.tokens \in Nat /\ bucket.updated \in Nat /\ bucket.updated <= ticks + Skew
          /\ admitted * One + bucket.tokens <= Full + (bucket.updated + wentBack) * RefillRate + roundings
      BY <2>3 DEF BucketInv
    <3>2. /\ (bucket.updated + wentBack) * RefillRate <= most
          /\ (bucket.updated + wentBack) * RefillRate \in Nat
      BY <1>1, <3>1, Ordered
    <3> HIDE DEF most
    <3>3. admitted * One + bucket.tokens <= Full + most + roundings
      BY <1>1, <2>1, <3>1, <3>2
    <3> QED BY <2>3, <3>3 DEF BucketPays, most
  <2> QED BY <2>2, <2>3
<1>3. RetryAfterSuffices
  <2> SUFFICES ASSUME refusal # NoRefusal, NEW now \in Clocks, NEW tokens \in Refilled(now),
                      now > refusal.at + refusal.retry, roundings - refusal.rounded + 2 <= RefillRate
               PROVE  tokens >= One
    BY DEF RetryAfterSuffices
  <2>1. tokens \in Nat /\ tokens <= Full /\ now \in Nat /\ Rounded(now) \in {0, 1}
    BY RefillBounds
  <2>2. CASE bucket = NoBucket \/ tokens = Full
    BY <2>1, <2>2, RefillBounds
  <2>3. CASE bucket # NoBucket /\ tokens < Full
    <3>1. bucket.tokens \in Nat /\ bucket.updated \in Nat
      BY <2>3 DEF BucketInv
    <3>2. /\ refusal.at \in Nat /\ refusal.retry \in Nat /\ refusal.rounded \in Nat
          /\ refusal.retry * RefillRate + bucket.tokens + 1 + (roundings - refusal.rounded)
                >= One + (bucket.updated - refusal.at) * RefillRate
      BY <2>3 DEF RefusalInv
    <3>3. tokens + Rounded(now) >= bucket.tokens + (now - bucket.updated) * RefillRate
      BY <2>3, RefillBounds
    <3> DEFINE n == now * RefillRate
               u == bucket.updated * RefillRate
               a == refusal.at * RefillRate
               w == refusal.retry * RefillRate
    <3>4. n \in Nat /\ u \in Nat /\ a \in Nat /\ w \in Nat
      BY <2>1, <3>1, <3>2
    <3>5. ((refusal.at + refusal.retry) + 1) * RefillRate <= n
      BY <2>1, <3>2, Ordered
    <3>6. /\ ((refusal.at + refusal.retry) + 1) * RefillRate = (refusal.at + refusal.retry) * RefillRate + RefillRate
          /\ (refusal.at + refusal.retry) * RefillRate = a + w
          /\ (now - bucket.updated) * RefillRate = n - u
          /\ (bucket.updated - refusal.at) * RefillRate = u - a
      BY <2>1, <3>1, <3>2, Distributes
    <3>7. w + bucket.tokens + 1 + (roundings - refusal.rounded) >= One + (u - a)
      BY <3>2, <3>6
    <3> HIDE DEF n, u, a, w
    <3>8. a + w + RefillRate <= n
      BY <3>5, <3>6
    <3>9. tokens + Rounded(now) >= bucket.tokens + (n - u)
      BY <3>3, <3>6
    <3> QED BY <1>1, <2>1, <3>1, <3>2, <3>4, <3>7, <3>8, <3>9
  <2> QED BY <2>1, <2>2, <2>3
<1> QED BY <1>2, <1>3

\* What TOKEN_BUCKET_SCRIPT promises, for every capacity and window, with rounded
\* numbers and clocks that differ: every admission is accounted for, and a client
\* that waits a tick longer than Retry-After said is not refused.
THEOREM BucketIsSound == BucketSpec => []BucketSound
<1>1. BucketInit => BucketInv /\ RefusalInv
  <2>1. 0 * One = 0 /\ (0 + 0) * RefillRate = 0
    BY Units
  <2> QED BY <2>1 DEF BucketInit, BucketInv, RefusalInv
<1>2. BucketInv /\ RefusalInv /\ [BucketNext]_bucketVars => (BucketInv /\ RefusalInv)'
  <2>1. BucketInv /\ RefusalInv /\ UNCHANGED bucketVars => (BucketInv /\ RefusalInv)'
    BY DEF bucketVars, BucketInv, RefusalInv, Full, One, RefillRate
  <2> QED BY <2>1, TakeTokenKeeps, RefuseKeeps, TickKeeps DEF BucketNext
<1> QED BY <1>1, <1>2, BucketInvSuffices, PTL DEF BucketSpec

-----------------------------------------------------------------------------
(* The RPC pool.  Two counters run against each other in a quarantine: the *)
(* window that is left and the time since the mark add up to the whole.    *)
(* And a node that is passed over comes nearer to rrIndex by every pick.   *)

NodeRecord == [healthy : BOOLEAN, window : 0..QuarantineWindow, failures : Nat]
MarkRecord == [ago : 0..QuarantineWindow, cleared : BOOLEAN]

PoolTypeOK ==
    /\ node \in [Nodes -> NodeRecord]
    /\ rrIndex \in Nodes
    /\ rpcCall \in [PoolCallers -> Nodes \cup {-1}]
    /\ checks \in SUBSET [node : Nodes, age : 0..QuarantineWindow]
    /\ quarantine \in [Nodes -> MarkRecord]
    /\ missed \in [Nodes -> Nat]

\* A node record v and a history h of its quarantine.
WaitsOut(v, h) ==
    \/ h.cleared = TRUE
    \/ h.ago >= QuarantineWindow
    \/ v.healthy = FALSE /\ v.window + h.ago >= QuarantineWindow

\* How many nodes a rotation that starts at `index` meets before n.
Distance(index, n) == IF index <= n THEN n - index ELSE (n + NodeCount) - index

PoolInv ==
    /\ PoolTypeOK
    /\ \A n \in Nodes : WaitsOut(node[n], quarantine[n])
    /\ \A n \in Nodes : missed[n] + Distance(rrIndex, n) <= NodeCount - 1

LEMMA PoolNumbers ==
    /\ NodeCount \in Nat /\ NodeCount >= 1 /\ 0 \in Nodes
    /\ QuarantineWindow \in Nat /\ FailureThreshold \in Nat /\ FailureThreshold >= 1
    /\ \A n \in Nodes : n \in Nat /\ n <= NodeCount - 1
BY PoolAssumption DEF Nodes

\* rrIndex is advanced modulo the number of nodes, by at most one rotation.
LEMMA Rotation ==
    ASSUME NEW a \in Nat, a < NodeCount + NodeCount
    PROVE  /\ a % NodeCount = IF a < NodeCount THEN a ELSE a - NodeCount
           /\ a % NodeCount \in Nodes
<1>1. NodeCount \in Nat \ {0}
  BY PoolAssumption
<1>2. a % NodeCount = IF a < NodeCount THEN a ELSE a - NodeCount
  BY <1>1
<1>3. QED BY <1>1, <1>2 DEF Nodes

LEMMA PoolStarts == PoolInit => PoolInv
<1> SUFFICES ASSUME PoolInit PROVE PoolInv
  OBVIOUS
<1>1. PoolTypeOK
  BY PoolNumbers DEF PoolInit, PoolTypeOK, NodeRecord, MarkRecord
<1>2. ASSUME NEW n \in Nodes
      PROVE  /\ quarantine[n].cleared = TRUE
             /\ missed[n] + Distance(rrIndex, n) <= NodeCount - 1
  BY PoolNumbers DEF PoolInit, Distance
<1>3. QED BY <1>1, <1>2 DEF PoolInv, WaitsOut

\* What a pick finds.
LEMMA PoolPick ==
    ASSUME PoolInv, NEW c \in PoolCallers, Pick(c)
    PROVE  /\ PoolInv'
           /\ rpcCall'[c] \in Nodes /\ quarantine' = quarantine
           /\ WaitsOut([node[rpcCall'[c]] EXCEPT !.healthy = TRUE], quarantine[rpcCall'[c]])
           /\ \A d \in PoolCallers \ {c} : rpcCall'[d] = rpcCall[d]
<1>0. /\ node \in [Nodes -> NodeRecord] /\ rrIndex \in Nodes
      /\ rpcCall \in [PoolCallers -> Nodes \cup {-1}]
      /\ quarantine \in [Nodes -> MarkRecord] /\ missed \in [Nodes -> Nat]
  BY DEF PoolInv, PoolTypeOK
<1>1. PICK steps \in 1..NodeCount :
          LET n == (rrIndex + steps - 1) % NodeCount
          IN  /\ Available(n)
              /\ \A i \in 1..(steps - 1) : ~Available((rrIndex + i - 1) % NodeCount)
              /\ rrIndex' = NextIndex(steps)
              /\ node' = [node EXCEPT ![n] = Readmitted(n)]
              /\ rpcCall' = [rpcCall EXCEPT ![c] = n]
              /\ missed' = [m \in Nodes |-> IF m = n \/ ~Available(m) THEN 0
                                            ELSE IF missed[m] < NodeCount THEN missed[m] + 1
                                            ELSE NodeCount]
  BY DEF Pick
<1> DEFINE n == (rrIndex + steps - 1) % NodeCount
           k == rrIndex'
<1>2. checks' = checks /\ quarantine' = quarantine
  BY DEF Pick
<1>3. /\ NodeCount \in Nat /\ NodeCount >= 1 /\ rrIndex \in Nat /\ rrIndex <= NodeCount - 1
      /\ steps \in Nat /\ 1 <= steps /\ steps <= NodeCount
  BY <1>0, PoolNumbers
<1>4. /\ rrIndex + steps - 1 \in Nat /\ rrIndex + steps - 1 < NodeCount + NodeCount
      /\ rrIndex + steps \in Nat /\ rrIndex + steps < NodeCount + NodeCount
  BY <1>3
<1>5. n \in Nodes /\ n = IF rrIndex + steps - 1 < NodeCount THEN rrIndex + steps - 1
                                                            ELSE (rrIndex + steps - 1) - NodeCount
  BY <1>4, Rotation
<1>6. k \in Nodes /\ k = IF rrIndex + steps < NodeCount THEN rrIndex + steps
                                                        ELSE (rrIndex + steps) - NodeCount
  BY <1>1, <1>4, Rotation DEF NextIndex
<1> HIDE DEF n, k
<1>7. /\ Available(n) /\ node' = [node EXCEPT ![n] = Readmitted(n)]
      /\ rpcCall' = [rpcCall EXCEPT ![c] = n]
      /\ missed' = [m \in Nodes |-> IF m = n \/ ~Available(m) THEN 0
                                    ELSE IF missed[m] < NodeCount THEN missed[m] + 1
                                    ELSE NodeCount]
  BY <1>1 DEF n
<1>8. node[n] \in NodeRecord /\ quarantine[n] \in MarkRecord /\ WaitsOut(node[n], quarantine[n])
  BY <1>0, <1>5 DEF PoolInv
<1>9. Readmitted(n) \in NodeRecord
  BY <1>8 DEF Readmitted, NodeRecord
<1>10. PoolTypeOK'
  <2>1. node' \in [Nodes -> NodeRecord] /\ rpcCall' \in [PoolCallers -> Nodes \cup {-1}]
    BY <1>0, <1>5, <1>7, <1>9
  <2>2. missed' \in [Nodes -> Nat]
    BY <1>0, <1>3, <1>7
  <2>3. QED BY <1>2, <1>6, <2>1, <2>2 DEF PoolInv, PoolTypeOK, k
<1>11. quarantine[n].cleared = TRUE \/ quarantine[n].ago >= QuarantineWindow
  <2>1. node[n].healthy = TRUE \/ node[n].healthy = FALSE
    BY <1>8 DEF NodeRecord
  <2>2. node[n].healthy = FALSE => node[n].window = 0
    BY <1>7 DEF Available
  <2>3. quarantine[n].ago \in Nat
    BY <1>8, PoolNumbers DEF MarkRecord
  <2>4. 0 + quarantine[n].ago = quarantine[n].ago
    BY <2>3
  <2>5. QED BY <1>8, <2>1, <2>2, <2>4 DEF WaitsOut
<1>12. ASSUME NEW m \in Nodes PROVE WaitsOut(node'[m], quarantine'[m])
  <2>1. CASE m = n
    BY <1>2, <1>11, <2>1 DEF WaitsOut
  <2>2. CASE m # n
    BY <1>0, <1>2, <1>7, <2>2 DEF PoolInv
  <2>3. QED BY <2>1, <2>2
<1>13. ASSUME NEW m \in Nodes PROVE missed'[m] + Distance(k, m) <= NodeCount - 1
  <2>0. m \in Nat /\ m <= NodeCount - 1 /\ missed[m] \in Nat /\ k \in Nat /\ k <= NodeCount - 1
    BY <1>0, <1>6, PoolNumbers
  <2>1. CASE m = n \/ ~Available(m)
    <3>1. missed'[m] = 0
      BY <1>7, <2>1
    <3>2. QED BY <1>3, <2>0, <3>1 DEF Distance
  <2>2. CASE m # n /\ Available(m)
    <3> DEFINE d == Distance(rrIndex, m)
               i == d + 1
    <3>1. d \in Nat /\ d <= NodeCount - 1 /\ missed[m] + d <= NodeCount - 1
      BY <1>3, <2>0 DEF Distance, PoolInv
    <3>2. rrIndex + i - 1 \in Nat /\ rrIndex + i - 1 < NodeCount + NodeCount
      BY <1>3, <3>1
    <3>3. (rrIndex + i - 1) % NodeCount = m
      <4>1. (rrIndex + i - 1) % NodeCount
              = IF rrIndex + i - 1 < NodeCount THEN rrIndex + i - 1
                                               ELSE (rrIndex + i - 1) - NodeCount
        BY <3>2, Rotation
      <4>2. QED BY <1>3, <2>0, <4>1 DEF Distance
    <3> HIDE DEF d
    <3>4. d >= steps
      <4>1. CASE i \in 1..(steps - 1)
        BY <1>1, <2>2, <3>3, <4>1
      <4>2. i # steps
        BY <2>2, <3>3 DEF n
      <4>3. QED BY <1>3, <3>1, <4>1, <4>2
    <3>5. Distance(k, m) = d - steps
      BY <1>3, <1>6, <2>0, <3>4 DEF Distance, d
    <3>6. missed'[m] = missed[m] + 1
      BY <1>3, <1>7, <2>0, <2>2, <3>1
    <3>7. QED BY <1>3, <2>0, <3>1, <3>5, <3>6
  <2>3. QED BY <2>1, <2>2
<1>14. PoolInv'
  BY <1>10, <1>12, <1>13 DEF PoolInv, k
<1>15. rpcCall'[c] = n /\ \A d \in PoolCallers \ {c} : rpcCall'[d] = rpcCall[d]
  BY <1>0, <1>7
<1>16. WaitsOut([node[n] EXCEPT !.healthy = TRUE], quarantine[n])
  BY <1>11 DEF WaitsOut
<1>17. QED BY <1>2, <1>5, <1>14, <1>15, <1>16

\* A report or a check changes the record of one node to v.
NodeChange(n, v, ago) ==
    /\ n \in Nodes /\ v \in NodeRecord /\ ago \in 0..QuarantineWindow
    /\ node' = [node EXCEPT ![n] = v] /\ rrIndex' = rrIndex
    /\ Marks(n, ago)
    /\ \/ v = Recovered
       \/ v.healthy = node[n].healthy /\ v.window = node[n].window /\ v # Recovered
       \/ v.healthy = FALSE /\ node[n].healthy = TRUE /\ v.window + ago >= QuarantineWindow

LEMMA PoolReport ==
    ASSUME PoolInv, NEW n, NEW v, NEW ago, NodeChange(n, v, ago),
           rpcCall' \in [PoolCallers -> Nodes \cup {-1}], checks' \subseteq checks
    PROVE  PoolInv'
<1>0. /\ node \in [Nodes -> NodeRecord] /\ rrIndex \in Nodes
      /\ quarantine \in [Nodes -> MarkRecord] /\ missed \in [Nodes -> Nat]
      /\ n \in Nodes /\ v \in NodeRecord /\ ago \in 0..QuarantineWindow /\ rrIndex' = rrIndex
      /\ checks \in SUBSET [node : Nodes, age : 0..QuarantineWindow]
  BY DEF PoolInv, PoolTypeOK, NodeChange
<1>1. node' \in [Nodes -> NodeRecord] /\ node'[n] = v
      /\ \A m \in Nodes \ {n} : node'[m] = node[m]
  BY <1>0 DEF NodeChange
<1> DEFINE h == IF node[n].healthy /\ ~v.healthy
                THEN [ago |-> ago, cleared |-> FALSE]
                ELSE [ago |-> quarantine[n].ago, cleared |-> quarantine[n].cleared \/ v = Recovered]
<1>2. quarantine' = [quarantine EXCEPT ![n] = h]
  BY <1>1 DEF NodeChange, Marks
<1>3. quarantine[n] \in MarkRecord /\ node[n] \in NodeRecord
  BY <1>0
<1>4. quarantine[n].ago \in 0..QuarantineWindow /\ quarantine[n].cleared \in BOOLEAN
      /\ node[n].healthy \in BOOLEAN /\ v.healthy \in BOOLEAN
  BY <1>0, <1>3 DEF MarkRecord, NodeRecord
<1>5. h \in MarkRecord
  <2>1. CASE node[n].healthy /\ ~v.healthy
    BY <1>0, <2>1 DEF MarkRecord
  <2>2. CASE ~(node[n].healthy /\ ~v.healthy)
    <3> DEFINE cl == quarantine[n].cleared \/ v = Recovered
    <3>1. cl \in BOOLEAN
      BY <1>4
    <3>2. h = [ago |-> quarantine[n].ago, cleared |-> cl]
      BY <2>2
    <3> HIDE DEF cl, h
    <3>3. QED BY <1>4, <3>1, <3>2 DEF MarkRecord
  <2>3. QED BY <2>1, <2>2
<1>6. WaitsOut(v, h)
  <2>0. WaitsOut(node[n], quarantine[n])
    BY <1>0 DEF PoolInv
  <2>1. CASE v = Recovered
    <3>1. v.healthy = TRUE
      BY <2>1 DEF Recovered
    <3>2. h = [ago |-> quarantine[n].ago, cleared |-> quarantine[n].cleared \/ v = Recovered]
      BY <3>1
    <3>3. (quarantine[n].cleared \/ v = Recovered) = TRUE
      BY <2>1
    <3>4. h.cleared = TRUE
      BY <3>2, <3>3
    <3>5. QED BY <3>4 DEF WaitsOut
  <2>2. CASE v.healthy = node[n].healthy /\ v.window = node[n].window /\ v # Recovered
    <3>1. ~(node[n].healthy /\ ~v.healthy)
      BY <1>4, <2>2
    <3>2. (quarantine[n].cleared \/ v = Recovered) = quarantine[n].cleared
      BY <1>4, <2>2
    <3>3. h = [ago |-> quarantine[n].ago, cleared |-> quarantine[n].cleared]
      BY <3>1, <3>2
    <3> HIDE DEF h
    <3>4. h.ago = quarantine[n].ago /\ h.cleared = quarantine[n].cleared
      BY <3>3
    <3>5. QED BY <2>0, <2>2, <3>4 DEF WaitsOut
  <2>3. CASE v.healthy = FALSE /\ node[n].healthy = TRUE /\ v.window + ago >= QuarantineWindow
    <3>1. h = [ago |-> ago, cleared |-> FALSE]
      BY <2>3
    <3> HIDE DEF h
    <3>2. h.ago = ago
      BY <3>1
    <3>3. QED BY <2>3, <3>2 DEF WaitsOut
  <2>4. QED BY <2>1, <2>2, <2>3 DEF NodeChange
<1> HIDE DEF h
<1>7. quarantine' \in [Nodes -> MarkRecord] /\ quarantine'[n] = h
      /\ \A m \in Nodes \ {n} : quarantine'[m] = quarantine[m]
  BY <1>0, <1>2, <1>5
<1>8. missed' = missed \/ missed' = [missed EXCEPT ![n] = 0]
  BY DEF NodeChange, Marks
<1>9. missed' \in [Nodes -> Nat] /\ \A m \in Nodes : missed'[m] = missed[m] \/ missed'[m] = 0
  BY <1>0, <1>8
<1>10. PoolTypeOK'
  BY <1>0, <1>1, <1>7, <1>9 DEF PoolTypeOK
<1>11. ASSUME NEW m \in Nodes PROVE WaitsOut(node'[m], quarantine'[m])
  BY <1>1, <1>6, <1>7 DEF PoolInv
<1>12. ASSUME NEW m \in Nodes PROVE missed'[m] + Distance(rrIndex, m) <= NodeCount - 1
  <2>1. missed[m] + Distance(rrIndex, m) <= NodeCount - 1 /\ missed[m] \in Nat
        /\ Distance(rrIndex, m) \in Int /\ NodeCount \in Nat
    BY <1>0, PoolNumbers DEF PoolInv, Distance
  <2>2. QED BY <1>9, <2>1
<1>13. QED BY <1>0, <1>10, <1>11, <1>12 DEF PoolInv

\* What a failure makes of the record of a node, as NodeChange has it.
LEMMA PoolFailed ==
    ASSUME PoolInv, NEW n \in Nodes, NEW ago \in 0..QuarantineWindow,
           node' = [node EXCEPT ![n] = Failed(n, QuarantineWindow - ago)], rrIndex' = rrIndex,
           Marks(n, ago)
    PROVE  NodeChange(n, Failed(n, QuarantineWindow - ago), ago)
<1> DEFINE v == Failed(n, QuarantineWindow - ago)
           f == node[n].failures + 1
<1>1. node[n] \in NodeRecord
  BY DEF PoolInv, PoolTypeOK
<1>2. node[n].healthy \in BOOLEAN /\ node[n].window \in 0..QuarantineWindow /\ f \in Nat /\ f # 0
      /\ node[n].failures \in Nat
  BY <1>1 DEF NodeRecord
<1>3. QuarantineWindow - ago \in 0..QuarantineWindow /\ FailureThreshold \in Nat
      /\ FailureThreshold >= 1 /\ (QuarantineWindow - ago) + ago >= QuarantineWindow
  BY PoolNumbers
<1>4. CASE f >= FailureThreshold /\ node[n].healthy
  <2>1. v = [healthy |-> FALSE, window |-> QuarantineWindow - ago, failures |-> FailureThreshold]
    BY <1>2, <1>4 DEF Failed
  <2> HIDE DEF v
  <2>2. v \in NodeRecord
    BY <1>3, <2>1 DEF NodeRecord
  <2>3. v.healthy = FALSE /\ v.window + ago >= QuarantineWindow /\ node[n].healthy = TRUE
    BY <1>2, <1>3, <1>4, <2>1
  <2>4. QED BY <2>2, <2>3 DEF NodeChange, v
<1>5. CASE ~(f >= FailureThreshold /\ node[n].healthy)
  <2>1. \E g \in Nat \ {0} : v = [node[n] EXCEPT !.failures = g]
    <3>1. CASE f >= FailureThreshold
      <4>1. v = [node[n] EXCEPT !.failures = FailureThreshold]
        BY <1>2, <1>5, <3>1 DEF Failed
      <4>2. FailureThreshold \in Nat \ {0}
        BY <1>3
      <4>3. QED BY <4>1, <4>2
    <3>2. CASE ~(f >= FailureThreshold)
      <4>1. v = [node[n] EXCEPT !.failures = f]
        BY <1>2, <3>2 DEF Failed
      <4>2. QED BY <1>2, <4>1
    <3>3. QED BY <3>1, <3>2
  <2>2. PICK g \in Nat \ {0} : v = [node[n] EXCEPT !.failures = g]
    BY <2>1
  <2> HIDE DEF v
  <2>3. v \in NodeRecord /\ v.healthy = node[n].healthy /\ v.window = node[n].window
        /\ v.failures = g
    BY <1>1, <2>2 DEF NodeRecord
  <2>4. v # Recovered
    BY <2>3 DEF Recovered
  <2>5. QED BY <2>3, <2>4 DEF NodeChange, v
<1>6. QED BY <1>4, <1>5

LEMMA PoolRecovered ==
    ASSUME NEW n \in Nodes, node' = [node EXCEPT ![n] = Recovered], rrIndex' = rrIndex, Marks(n, 0)
    PROVE  NodeChange(n, Recovered, 0)
BY PoolNumbers DEF NodeChange, Recovered, NodeRecord

LEMMA PoolTicks ==
    ASSUME PoolInv, PoolTick
    PROVE  PoolInv'
<1>0. /\ node \in [Nodes -> NodeRecord] /\ quarantine \in [Nodes -> MarkRecord]
      /\ checks \in SUBSET [node : Nodes, age : 0..QuarantineWindow]
      /\ QuarantineWindow \in Nat
  BY PoolNumbers DEF PoolInv, PoolTypeOK
<1>1. /\ node' = [n \in Nodes |-> [node[n] EXCEPT !.window = IF @ > 0 THEN @ - 1 ELSE 0]]
      /\ checks' = {[k EXCEPT !.age = IF @ < QuarantineWindow THEN @ + 1 ELSE @] : k \in checks}
      /\ quarantine' = [n \in Nodes |->
            [quarantine[n] EXCEPT !.ago = IF @ < QuarantineWindow THEN @ + 1 ELSE @]]
      /\ UNCHANGED <<rrIndex, rpcCall, checking, missed>>
  BY DEF PoolTick
<1>2. ASSUME NEW n \in Nodes
      PROVE  /\ node'[n] \in NodeRecord /\ quarantine'[n] \in MarkRecord
             /\ WaitsOut(node'[n], quarantine'[n])
  <2> DEFINE v == node[n]
             h == quarantine[n]
             w == IF v.window > 0 THEN v.window - 1 ELSE 0
             a == IF h.ago < QuarantineWindow THEN h.ago + 1 ELSE h.ago
  <2>1. v \in NodeRecord /\ h \in MarkRecord /\ WaitsOut(v, h)
    BY <1>0 DEF PoolInv
  <2>2. node'[n] = [v EXCEPT !.window = w] /\ quarantine'[n] = [h EXCEPT !.ago = a]
    BY <1>1
  <2>3. v.window \in 0..QuarantineWindow /\ h.ago \in 0..QuarantineWindow
    BY <2>1 DEF NodeRecord, MarkRecord
  <2>4. w \in 0..QuarantineWindow /\ a \in 0..QuarantineWindow
    BY <1>0, <2>3
  <2> HIDE DEF v, h
  <2>5. (h.ago >= QuarantineWindow => a >= QuarantineWindow)
        /\ (v.window + h.ago >= QuarantineWindow => w + a >= QuarantineWindow)
    BY <1>0, <2>3
  <2> HIDE DEF w, a
  <2>6. node'[n] \in NodeRecord /\ node'[n].healthy = v.healthy /\ node'[n].window = w
    BY <2>1, <2>2, <2>4 DEF NodeRecord
  <2>7. quarantine'[n] \in MarkRecord /\ quarantine'[n].cleared = h.cleared
        /\ quarantine'[n].ago = a
    BY <2>1, <2>2, <2>4 DEF MarkRecord
  <2>8. QED BY <2>1, <2>5, <2>6, <2>7 DEF WaitsOut
<1>3. checks' \in SUBSET [node : Nodes, age : 0..QuarantineWindow]
  <2> SUFFICES ASSUME NEW k \in checks
               PROVE  [k EXCEPT !.age = IF @ < QuarantineWindow THEN @ + 1 ELSE @]
                        \in [node : Nodes, age : 0..QuarantineWindow]
    BY <1>1
  <2> DEFINE a == IF k.age < QuarantineWindow THEN k.age + 1 ELSE k.age
  <2>1. k \in [node : Nodes, age : 0..QuarantineWindow]
    BY <1>0
  <2>2. a \in 0..QuarantineWindow
    BY <1>0, <2>1
  <2> HIDE DEF a
  <2>3. [k EXCEPT !.age = a] \in [node : Nodes, age : 0..QuarantineWindow]
    BY <2>1, <2>2
  <2>4. QED BY <2>3 DEF a
<1>4. node' \in [Nodes -> NodeRecord] /\ quarantine' \in [Nodes -> MarkRecord]
  <2>1. DOMAIN node' = Nodes /\ node' = [n \in Nodes |-> node'[n]]
    BY <1>1
  <2>2. DOMAIN quarantine' = Nodes /\ quarantine' = [n \in Nodes |-> quarantine'[n]]
    BY <1>1
  <2>3. QED BY <1>2, <2>1, <2>2
<1>5. QED BY <1>1, <1>2, <1>3, <1>4 DEF PoolInv, PoolTypeOK

\* No other step starts a call.
PicksOnly ==
    \A c \in PoolCallers : rpcCall'[c] = rpcCall[c] \/ rpcCall'[c] = -1

LEMMA PoolSteps ==
    ASSUME PoolInv, [PoolNext]_poolVars, \A c \in PoolCallers : ~Pick(c)
    PROVE  PoolInv' /\ PicksOnly
<1>0. /\ rpcCall \in [PoolCallers -> Nodes \cup {-1}]
      /\ checks \in SUBSET [node : Nodes, age : 0..QuarantineWindow] /\ QuarantineWindow \in Nat
      /\ QuarantineWindow - 0 = QuarantineWindow /\ 0 \in 0..QuarantineWindow
  BY PoolNumbers DEF PoolInv, PoolTypeOK
<1>1. CASE UNCHANGED poolVars
  BY <1>1 DEF poolVars, PoolInv, PoolTypeOK, PicksOnly
<1>2. ASSUME NEW c \in PoolCallers, ReportSuccess(c) \/ ReportFailure(c) PROVE PoolInv' /\ PicksOnly
  <2>1. /\ rpcCall' = [rpcCall EXCEPT ![c] = -1] /\ rpcCall[c] \in Nodes
        /\ rrIndex' = rrIndex /\ checks' = checks
    BY <1>0, <1>2 DEF ReportSuccess, ReportFailure
  <2>2. rpcCall' \in [PoolCallers -> Nodes \cup {-1}] /\ PicksOnly
    BY <1>0, <2>1 DEF PicksOnly
  <2>3. CASE ReportSuccess(c)
    <3>1. NodeChange(rpcCall[c], Recovered, 0)
      BY <2>1, <2>3, PoolRecovered DEF ReportSuccess
    <3>2. QED BY <2>1, <2>2, <3>1, PoolReport
  <2>4. CASE ReportFailure(c)
    <3>1. node' = [node EXCEPT ![rpcCall[c]] = Failed(rpcCall[c], QuarantineWindow - 0)]
      BY <1>0, <2>4 DEF ReportFailure
    <3>2. NodeChange(rpcCall[c], Failed(rpcCall[c], QuarantineWindow - 0), 0)
      BY <1>0, <2>1, <2>4, <3>1, PoolFailed DEF ReportFailure
    <3>3. QED BY <2>1, <2>2, <3>2, PoolReport
  <2>5. QED BY <1>2, <2>3, <2>4
<1>3. ASSUME NEW k \in checks, CheckPasses(k) \/ CheckFails(k) PROVE PoolInv' /\ PicksOnly
  <2>1. rrIndex' = rrIndex /\ rpcCall' = rpcCall /\ checks' \subseteq checks
    BY <1>3 DEF CheckPasses, CheckFails
  <2>2. k.node \in Nodes /\ k.age \in 0..QuarantineWindow
    BY <1>0
  <2>3. rpcCall' \in [PoolCallers -> Nodes \cup {-1}] /\ PicksOnly
    BY <1>0, <2>1 DEF PicksOnly
  <2>4. CASE CheckPasses(k)
    <3>1. NodeChange(k.node, Recovered, 0)
      BY <2>1, <2>2, <2>4, PoolRecovered DEF CheckPasses
    <3>2. QED BY <2>1, <2>3, <3>1, PoolReport
  <2>5. CASE CheckFails(k)
    <3>1. NodeChange(k.node, Failed(k.node, QuarantineWindow - k.age), k.age)
      BY <2>1, <2>2, <2>5, PoolFailed DEF CheckFails
    <3>2. QED BY <2>1, <2>3, <3>1, PoolReport
  <2>6. QED BY <1>3, <2>4, <2>5
<1>4. CASE SwitchHealthChecks
  BY <1>4 DEF SwitchHealthChecks, PoolInv, PoolTypeOK, PicksOnly
<1>5. CASE RunHealthChecks
  <2>1. checks' \in SUBSET [node : Nodes, age : 0..QuarantineWindow]
    <3>1. \A m \in Nodes : [node |-> m, age |-> 0] \in [node : Nodes, age : 0..QuarantineWindow]
      BY <1>0
    <3>2. QED BY <1>0, <1>5, <3>1 DEF RunHealthChecks
  <2>2. QED BY <1>5, <2>1 DEF RunHealthChecks, PoolInv, PoolTypeOK, PicksOnly
<1>6. CASE PoolTick
  <2>1. PicksOnly
    BY <1>6 DEF PoolTick, PicksOnly
  <2>2. QED BY <1>6, <2>1, PoolTicks
<1>7. QED BY <1>1, <1>2, <1>3, <1>4, <1>5, <1>6 DEF PoolNext

LEMMA PoolInvHolds == PoolSpec => []PoolInv
<1>1. PoolInv /\ [PoolNext]_poolVars => PoolInv'
  BY PoolPick, PoolSteps
<1>2. QED BY PoolStarts, <1>1, PTL DEF PoolSpec

\* A step that starts a call waits out the quarantine.
WaitsFirst ==
    \A c \in PoolCallers :
        LET n == rpcCall'[c]
        IN  (rpcCall[c] = -1 /\ n # -1 /\ ~quarantine[n].cleared) => quarantine[n].ago >= QuarantineWindow

\* For any callers, nodes, thresholds and checks in flight: pick never returns a node before
\* its quarantine is over, counted from the failure or from the start of the check, unless the
\* node answered meanwhile; and no available node is passed over for a whole rotation.
THEOREM PoolPicksSoundly == PoolSpec => PoolSound
<1>1. PoolInv /\ [PoolNext]_poolVars => [WaitsFirst]_poolVars
  <2> SUFFICES ASSUME PoolInv, [PoolNext]_poolVars, NEW c \in PoolCallers,
                      rpcCall[c] = -1, rpcCall'[c] # -1, ~quarantine[rpcCall'[c]].cleared
               PROVE  quarantine[rpcCall'[c]].ago >= QuarantineWindow
    BY DEF WaitsFirst
  <2>1. PICK d \in PoolCallers : Pick(d)
    BY PoolSteps DEF PicksOnly
  <2>2. d = c
    BY <2>1, PoolPick
  <2> DEFINE n == rpcCall'[c]
  <2>3. n \in Nodes /\ WaitsOut([node[n] EXCEPT !.healthy = TRUE], quarantine[n])
    BY <2>1, <2>2, PoolPick
  <2> HIDE DEF n
  <2>4. node[n] \in NodeRecord
    BY <2>3 DEF PoolInv, PoolTypeOK
  <2>5. [node[n] EXCEPT !.healthy = TRUE].healthy = TRUE
    BY <2>4 DEF NodeRecord
  <2>6. quarantine[n].ago >= QuarantineWindow
    BY <2>3, <2>5 DEF WaitsOut, n
  <2>7. QED BY <2>6 DEF n
<1>2. PoolInv => RoundRobinIsFair
  <2> SUFFICES ASSUME PoolInv, NEW n \in Nodes PROVE missed[n] < NodeCount
    BY DEF RoundRobinIsFair
  <2>1. missed[n] \in Nat /\ rrIndex \in Nodes /\ missed[n] + Distance(rrIndex, n) <= NodeCount - 1
    BY DEF PoolInv, PoolTypeOK
  <2>2. Distance(rrIndex, n) \in Nat
    BY <2>1, PoolNumbers DEF Distance
  <2>3. QED BY <2>1, <2>2, PoolNumbers
<1>3. QED BY PoolInvHolds, <1>1, <1>2, PTL DEF PoolSpec, PoolSound, QuarantineHolds, WaitsFirst
=============================================================================
