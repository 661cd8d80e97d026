--------------------------- MODULE StatusService ---------------------------
(***************************************************************************)
(* Writers of one vesting_streams row: the terminal event handlers         *)
(* (indexer/terminalEventHandlers.ts), direct callers of                   *)
(* transitionStreamStatus (streamStatusService.ts) and the expiry job.     *)
(* A handler runs in the transaction of its page and holds the row lock    *)
(* from SELECT ... FOR UPDATE to COMMIT, so it is one step; a rolled back  *)
(* one is no step.  A direct caller on a Pool has each statement in a      *)
(* transaction of its own: the lock is gone before the UPDATE.             *)
(***************************************************************************)
EXTENDS StreamStatus, Integers, Sequences

CONSTANTS
    CancelEvents,    \* StreamCancelled events, one tx_hash each
    ClawbackEvents,  \* StreamClawedBack events
    DirectCallers,   \* calls of transitionStreamStatus with a Pool
    NoEvent          \* SQL NULL

\* Horizon gives every event a transaction hash.
ASSUME StatusAssumption == NoEvent \notin CancelEvents \cup ClawbackEvents

VARIABLES
    streamRow,   \* status and the hash columns of the terminal details
    audit,       \* stream_status_transitions in the order of created_at
    unhandled,   \* terminal events not yet applied
    direct       \* per direct caller: [pc, from, to, event]

statusVars == <<streamRow, audit, unhandled, direct>>

\* A row has no audit entry for its creation.
StatusInit ==
    /\ streamRow \in [status : {Absent, "pre_cliff", "active", "expired"},
                      cancelTx : {NoEvent}, clawTx : {NoEvent}]
    /\ audit = <<>>
    /\ unhandled = CancelEvents \cup ClawbackEvents
    /\ direct = [c \in DirectCallers |->
                    [pc |-> "idle", from |-> Absent, to |-> Absent, event |-> NoEvent]]

\* fn_stream_status_audit: a row per change of status, without metadata.
Audited(from, to) ==
    IF from = to THEN audit
                 ELSE Append(audit, [from |-> from, to |-> to, event |-> NoEvent])

\* The metadata UPDATE: the newest entry for this pair; COALESCE keeps what is
\* there when the new value is NULL; without such an entry nothing is updated.
Named(entries, from, to, event) ==
    LET same == {i \in DOMAIN entries : entries[i].from = from /\ entries[i].to = to}
        newest == {i \in same : \A j \in same : j <= i}
    IN  [i \in DOMAIN entries |->
            IF i \in newest /\ event # NoEvent THEN [entries[i] EXCEPT !.event = event]
                                               ELSE entries[i]]

\* transitionStreamStatus on the client of a transaction: found, legal, and
\* accepted by the trigger.
TransitionApplies(from, to) ==
    from # Absent /\ IsValidTransition(from, to) /\ TriggerAllows(from, to)

\* The entries after a transition: an identity transition returns early and
\* names nothing.
Transition(from, to, e) ==
    IF from = to THEN audit ELSE Named(Audited(from, to), from, to, e)

\* Mutant: details are written for a stream that was refused, too.
HandleStreamCancelled_Always(e) ==
    /\ e \in unhandled \cap CancelEvents
    /\ unhandled' = unhandled \ {e}
    /\ streamRow' = [streamRow EXCEPT !.status = IF TransitionApplies(@, "cancelled") THEN "cancelled" ELSE @,
                                      !.cancelTx = e]
    /\ audit' = IF TransitionApplies(streamRow.status, "cancelled")
                THEN Transition(streamRow.status, "cancelled", e) ELSE audit
    /\ UNCHANGED direct

\* StreamNotFoundError and StatusTransitionError are caught and logged; the
\* event row stays.  After an identity transition the details are written again.
HandleStreamCancelled(e) ==
    /\ e \in unhandled \cap CancelEvents
    /\ unhandled' = unhandled \ {e}
    /\ IF TransitionApplies(streamRow.status, "cancelled")
       THEN /\ streamRow' = [streamRow EXCEPT !.status = "cancelled", !.cancelTx = e]
            /\ audit' = Transition(streamRow.status, "cancelled", e)
       ELSE UNCHANGED <<streamRow, audit>>
    /\ UNCHANGED direct

HandleStreamClawedBack(e) ==
    /\ e \in unhandled \cap ClawbackEvents
    /\ unhandled' = unhandled \ {e}
    /\ IF TransitionApplies(streamRow.status, "clawedback")
       THEN /\ streamRow' = [streamRow EXCEPT !.status = "clawedback", !.clawTx = e]
            /\ audit' = Transition(streamRow.status, "clawedback", e)
       ELSE UNCHANGED <<streamRow, audit>>
    /\ UNCHANGED direct

\* The bulk UPDATE of the expiry job reaches this row.
ExpireRow ==
    /\ streamRow.status \in {"active", "pre_cliff"}
    /\ streamRow' = [streamRow EXCEPT !.status = "expired"]
    /\ audit' = Audited(streamRow.status, "expired")
    /\ UNCHANGED <<unhandled, direct>>

-----------------------------------------------------------------------------
(* A direct call on a Pool: SELECT, UPDATE, metadata UPDATE.               *)

SelectStatus(c) ==
    /\ direct[c].pc = "idle"
    /\ \E to \in Status, event \in {NoEvent, c} :
          LET from == streamRow.status
              goes == from # Absent /\ from # to /\ IsValidTransition(from, to)
          IN  direct' = [direct EXCEPT ![c] =
                  [pc |-> IF goes THEN "selected" ELSE "returned",
                   from |-> from, to |-> to, event |-> event]]
    /\ UNCHANGED <<streamRow, audit, unhandled>>

\* The status may have moved on since; only the trigger looks at it again.
UpdateStatus(c) ==
    /\ direct[c].pc = "selected"
    /\ IF TriggerAllows(streamRow.status, direct[c].to)
       THEN /\ streamRow' = [streamRow EXCEPT !.status = direct[c].to]
            /\ audit' = Audited(streamRow.status, direct[c].to)
            /\ direct' = [direct EXCEPT ![c].pc =
                             IF direct[c].event = NoEvent THEN "returned" ELSE "updated"]
       ELSE /\ direct' = [direct EXCEPT ![c].pc = "returned"]
            /\ UNCHANGED <<streamRow, audit>>
    /\ UNCHANGED unhandled

WriteMetadata(c) ==
    /\ direct[c].pc = "updated"
    /\ audit' = Named(audit, direct[c].from, direct[c].to, direct[c].event)
    /\ direct' = [direct EXCEPT ![c].pc = "returned"]
    /\ UNCHANGED <<streamRow, unhandled>>

StatusNext ==
    \/ \E e \in unhandled : HandleStreamCancelled(e) \/ HandleStreamClawedBack(e)
    \/ ExpireRow
    \/ \E c \in DirectCallers : SelectStatus(c) \/ UpdateStatus(c) \/ WriteMetadata(c)

StatusSpec == StatusInit /\ [][StatusNext]_statusVars

-----------------------------------------------------------------------------
(* Properties.                                                             *)

\* The audit trail is a path of VALID_TRANSITIONS that ends at the status of the
\* row, although direct callers act on a status they read before others wrote
\* (streamStatusService.ts:131-173 and the trigger of migrations 006 and 008).
AuditIsAPath ==
    /\ \A i \in DOMAIN audit : audit[i].to \in VALID_TRANSITIONS[audit[i].from]
    /\ \A i \in 1..(Len(audit) - 1) : audit[i].to = audit[i + 1].from
    /\ audit # <<>> => audit[Len(audit)].to = streamRow.status

\* Terminal details are only ever on a row whose status they explain, never the
\* details of a cancellation and of a clawback together; and when it was a
\* handler that ended the stream, the last audit entry carries a terminal event
\* of that kind (terminalEventHandlers.ts:69-139 and 171-222).
TerminalDetailsAgree ==
    LET handlerEnded(hash, status) ==
            hash # NoEvent /\ \A c \in DirectCallers : direct[c].to # status
        lastEvent == audit[Len(audit)].event
    IN  /\ streamRow.cancelTx # NoEvent => streamRow.status = "cancelled"
        /\ streamRow.clawTx # NoEvent => streamRow.status = "clawedback"
        /\ handlerEnded(streamRow.cancelTx, "cancelled") => lastEvent \in CancelEvents
        /\ handlerEnded(streamRow.clawTx, "clawedback") => lastEvent \in ClawbackEvents

\* The trail, the row and its details tell one story, whoever changed the status
\* (transitionStreamStatus, the terminal handlers and the triggers).
StatusInv == AuditIsAPath /\ TerminalDetailsAgree

=============================================================================
