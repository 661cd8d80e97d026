---------------------------- MODULE LiveUpdates ----------------------------
(***************************************************************************)
(* The WebSocket endpoint /ws/claimable (ws.ts): the registry of clients   *)
(* per recipient, the sweep of idle clients, and the watcher of closed     *)
(* ledgers.  Data the ws library had buffered is still delivered after     *)
(* terminate(), before the close event.                                    *)
(***************************************************************************)
EXTENDS FiniteSets

CONSTANTS
    WsClients,
    WsRecipients

ASSUME LiveAssumption ==
    IsFiniteSet(WsClients) /\ IsFiniteSet(WsRecipients) /\ "none" \notin WsRecipients

VARIABLES
    wsClient,       \* per client: [state, recent, recipient], recipient is subscribedRecipient
    subscriptions,  \* per recipient: the clients in its set, {} when it has none
    snapshot,       \* per recipient: "none", or "sending" while fetchClaimable of a ledger is awaited
    watcher         \* the Horizon stream: "connecting", "reading", "pause", "over"

liveVars == <<wsClient, subscriptions, snapshot, watcher>>

LiveInit ==
    /\ wsClient = [c \in WsClients |-> [state |-> "none", recent |-> FALSE, recipient |-> "none"]]
    /\ subscriptions = [r \in WsRecipients |-> {}]
    /\ snapshot = [r \in WsRecipients |-> "none"]
    /\ watcher = "connecting"

OpenSocket(c) ==
    /\ wsClient[c].state = "none"
    /\ wsClient' = [wsClient EXCEPT ![c].state = "open", ![c].recent = TRUE]
    /\ UNCHANGED <<subscriptions, snapshot, watcher>>

\* Mutant: the client stays in the set of the recipient it leaves.
SubscribeTo_KeepsPrevious(c, r) ==
    /\ wsClient[c].state \in {"open", "closing"}
    /\ wsClient' = [wsClient EXCEPT ![c].recent = TRUE, ![c].recipient = r]
    /\ subscriptions' = [subscriptions EXCEPT ![r] = @ \union {c}]
    /\ UNCHANGED <<snapshot, watcher>>

\* A subscribe message, also one that was buffered when the client was swept.
SubscribeTo(c, r) ==
    /\ wsClient[c].state \in {"open", "closing"}
    /\ wsClient' = [wsClient EXCEPT ![c].recent = TRUE, ![c].recipient = r]
    /\ subscriptions' = [q \in WsRecipients |->
                           IF q = r THEN subscriptions[q] \union {c}
                           ELSE IF q = wsClient[c].recipient THEN subscriptions[q] \ {c} ELSE subscriptions[q]]
    /\ UNCHANGED <<snapshot, watcher>>

\* IDLE_TIMEOUT_MS without a message.
GoesIdle(c) ==
    /\ wsClient[c].state = "open" /\ wsClient[c].recent
    /\ wsClient' = [wsClient EXCEPT ![c].recent = FALSE]
    /\ UNCHANGED <<subscriptions, snapshot, watcher>>

\* The sweep looks at registered clients only.
IdleSweep ==
    LET idle == {c \in UNION {subscriptions[r] : r \in WsRecipients} : ~wsClient[c].recent} IN
    /\ idle # {}
    /\ wsClient' = [c \in WsClients |-> IF c \in idle THEN [wsClient[c] EXCEPT !.state = "closing"] ELSE wsClient[c]]
    /\ subscriptions' = [r \in WsRecipients |-> subscriptions[r] \ idle]
    /\ UNCHANGED <<snapshot, watcher>>

\* The close or the error event; removeSubscription.
SocketEnds(c) ==
    /\ wsClient[c].state \in {"open", "closing"}
    /\ wsClient' = [wsClient EXCEPT ![c].state = "closed"]
    /\ subscriptions' = [r \in WsRecipients |->
                           IF r = wsClient[c].recipient THEN subscriptions[r] \ {c} ELSE subscriptions[r]]
    /\ UNCHANGED <<snapshot, watcher>>

\* startHorizonSSE connects, or fails and tries again after a pause.
WatcherConnects ==
    /\ watcher \in {"connecting", "pause"}
    /\ watcher' = IF watcher = "pause" THEN "connecting" ELSE "reading"
    /\ UNCHANGED <<wsClient, subscriptions, snapshot>>

\* An error schedules a reconnect; the end of the stream does not.
WatcherStops(error) ==
    /\ watcher = "reading" \/ (watcher = "connecting" /\ error)
    /\ \A r \in WsRecipients : snapshot[r] = "none"
    /\ watcher' = IF error THEN "pause" ELSE "over"
    /\ UNCHANGED <<wsClient, subscriptions, snapshot>>

\* A closed ledger: broadcastLedger reads the amount of every recipient with clients,
\* and the watcher waits for all of them.
LedgerCloses ==
    /\ watcher = "reading"
    /\ \A r \in WsRecipients : snapshot[r] = "none"
    /\ snapshot' = [r \in WsRecipients |-> IF subscriptions[r] = {} THEN "none" ELSE "sending"]
    /\ UNCHANGED <<wsClient, subscriptions, watcher>>

\* fetchClaimable has answered or failed: open clients are sent the amount or an error.
SnapshotDone(r) ==
    /\ snapshot[r] = "sending"
    /\ snapshot' = [snapshot EXCEPT ![r] = "none"]
    /\ UNCHANGED <<wsClient, subscriptions, watcher>>

LiveNext ==
    \/ \E c \in WsClients : \/ OpenSocket(c) \/ GoesIdle(c) \/ SocketEnds(c)
                            \/ \E r \in WsRecipients : SubscribeTo(c, r)
    \/ IdleSweep \/ WatcherConnects \/ LedgerCloses
    \/ \E error \in BOOLEAN : WatcherStops(error)
    \/ \E r \in WsRecipients : SnapshotDone(r)

LiveSpec == LiveInit /\ [][LiveNext]_liveVars

-----------------------------------------------------------------------------
(* Properties.                                                             *)

\* An open client that subscribed gets the events of the recipient it named last and of
\* no other, and a closed one has left the registry, whatever it sent before and after
\* it was swept (lines 62-80, 262-289).
RegistryExact ==
    \A c \in WsClients, r \in WsRecipients :
        /\ c \in subscriptions[r] => wsClient[c].recipient = r /\ wsClient[c].state # "closed"
        /\ wsClient[c].state = "open" /\ wsClient[c].recipient = r => c \in subscriptions[r]

=============================================================================
