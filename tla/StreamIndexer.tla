---------------------------- MODULE StreamIndexer ----------------------------
(***************************************************************************)
(* The event indexer: StreamIndexer.ts (poll loop), horizonClient.ts       *)
(* (page fetch), decoder.ts, persistence.ts and balanceTracker.ts (the     *)
(* PostgreSQL side), and the expiry job that writes the same status rows.  *)
(*                                                                         *)
(* A tick is split at its awaits.  A tick, or a timer that will start one, *)
(* lives in a slot: one slot is the normal case, a second one is what      *)
(* start() after stop() leaves behind while an old tick is in flight.      *)
(* Paging tokens are positions in chain; 0 is the empty token.  A ledger   *)
(* number used as the fallback token sorts before every paging token, so   *)
(* it also stands for position 0.                                          *)
(***************************************************************************)
EXTENDS Integers, Sequences, FiniteSetsExt, StreamStatus

CONSTANTS
    Recipients,     \* recipient addresses
    Slots,          \* concurrent poll loops of one StreamIndexer object
    FinalityDepth,  \* cfg.finalityDepth
    PageLimit,      \* cfg.pageLimit
    EndLedger,      \* end_ledger column of each recipient's stream row
    LedgerContents, \* event sequences one ledger may hold
    CursorRow,      \* TRUE: migration 006 seeded the indexer_cursors row
    LedgerFetchMayFail, \* TRUE: GET /ledgers may fail while /events succeeds
    MaxLedger,      \* bound: ledgers closed
    MaxFaults,      \* bound: crashes, stops, failed requests, lost connections
    Null

VARIABLES
    chain,    \* Horizon: contract events in paging order
    tip,      \* Horizon: latest closed ledger
    cursor,   \* indexer_cursors: token, or Null when the row is missing
    db,       \* committed tables [rows, bal, status]
    work,     \* the same tables as the open transaction sees them
    owner,    \* slot holding the open transaction, or Null
    at,       \* records of its page the open transaction has gone through
    running,  \* this.running
    timer,    \* this.timer: slot of the last timer armed, or Null
    pc,       \* per slot: where its timer or tick stands
    from,     \* per slot: the token its tick read
    page,     \* per slot: page.records
    latest,   \* per slot: page.latestLedger
    faults    \* faults injected so far

chainVars == <<chain, tip>>
tableVars == <<db, work, owner, at>>
tickVars  == <<from, page, latest>>
vars      == <<chain, tip, cursor, db, work, owner, at,
               running, timer, pc, from, page, latest, faults>>

Types   == {"StreamCreated", "TokensClaimed", "StreamCancelled",
            "StreamClawedBack", "StreamDrained"}
Unknown == "Unknown"     \* a topic the decoder does not know

\* One event of LedgerContents; tx numbers the transaction inside its ledger.
Body  == [tx : Nat, type : Types \cup {Unknown}, recipient : Recipients,
          amount : Nat \cup {Null}]
Event == [tx : Nat \X Nat, type : Types \cup {Unknown}, recipient : Recipients,
          amount : Nat \cup {Null}, ledger : Nat]

ASSUME IndexerAssumption ==
    /\ FinalityDepth \in Nat
    /\ PageLimit \in Nat \ {0}
    /\ MaxLedger \in Nat
    /\ MaxFaults \in Nat
    /\ EndLedger \in [Recipients -> Nat]
    /\ \A s \in LedgerContents : s \in Seq(Body)
    /\ CursorRow \in BOOLEAN
    /\ LedgerFetchMayFail \in BOOLEAN
    /\ Null \notin Slots
    /\ Null \notin Nat

-----------------------------------------------------------------------------
(* Horizon, external: ledgers close and append their events.               *)

Stamp(b, n) == [tx |-> <<n, b.tx>>, type |-> b.type, recipient |-> b.recipient,
                amount |-> b.amount, ledger |-> n]

CloseLedger ==
    /\ tip < MaxLedger
    /\ tip' = tip + 1
    /\ \E evs \in LedgerContents :
         chain' = chain \o [i \in 1..Len(evs) |-> Stamp(evs[i], tip + 1)]
    /\ UNCHANGED <<cursor, db, work, owner, at, running, timer, pc, from, page,
                   latest, faults>>

\* One /soroban/events page in ascending order after token c.
PageAfter(c) == SubSeq(chain, c + 1, IF c + PageLimit < Len(chain)
                                     THEN c + PageLimit ELSE Len(chain))

-----------------------------------------------------------------------------
(* The tables.  A missing stream_balances row equals an all-zero row: both *)
(* upserts create it with what they would add to zeros.                    *)

Balance == [deposit : Nat, claimed : Nat, remaining : Int]
Tables  == [rows : SUBSET Event, bal : [Recipients -> Balance],
            status : [Recipients -> Status \cup {Absent}]]

TxHashes(rows) == {e.tx : e \in rows}

\* The balance row of ev's recipient after the event was inserted.
InsertedBalance(b, ev) ==
    IF ev.amount = Null THEN b
    ELSE IF ev.type = "StreamCreated"
    THEN [deposit |-> ev.amount, claimed |-> b.claimed,
          remaining |-> ev.amount - b.claimed]
    ELSE IF ev.type = "TokensClaimed"
    THEN [deposit |-> b.deposit, claimed |-> b.claimed + ev.amount,
          remaining |-> b.deposit - (b.claimed + ev.amount)]
    ELSE b

\* UPDATE ... SET status = 'cancelled' WHERE ... AND status != 'cancelled'.
CancelledStatus(s) == IF s = Absent THEN Absent ELSE "cancelled"

\* The statement the event runs fails: the StreamDrained UPDATE carries an ON
\* CONFLICT clause, which PostgreSQL accepts on INSERT only; the
\* StreamCancelled UPDATE can be refused by the status trigger.
Raises(t, ev) ==
    \/ ev.type = "StreamDrained"
    \/ /\ ev.type = "StreamCancelled"
       /\ t.status[ev.recipient] # Absent
       /\ ~TriggerAllows(t.status[ev.recipient], "cancelled")

\* Mutant: balances are also updated for rows ON CONFLICT skipped.
Applied_CountsDuplicates(t, ev) ==
    [t EXCEPT !.rows = IF ev.tx \in TxHashes(@) THEN @ ELSE @ \cup {ev},
              !.bal[ev.recipient] = InsertedBalance(@, ev)]

\* One iteration of the loop of upsertStreamEvents.
Applied(t, ev) ==
    LET fresh == ev.tx \notin TxHashes(t.rows)
        r     == ev.recipient
    IN [rows   |-> IF fresh THEN t.rows \cup {ev} ELSE t.rows,
        bal    |-> IF fresh
                   THEN [t.bal EXCEPT ![r] = InsertedBalance(@, ev)] ELSE t.bal,
        status |-> IF ev.type = "StreamCancelled"
                   THEN [t.status EXCEPT ![r] = CancelledStatus(@)] ELSE t.status]

-----------------------------------------------------------------------------
(* The poll loop.                                                          *)

\* start(): no check that a loop already runs.
Start ==
    /\ running' = TRUE
    /\ \E l \in Slots :
         /\ pc[l] = "free"
         /\ pc' = [pc EXCEPT ![l] = "timer"]
         /\ timer' = l
    /\ UNCHANGED <<chainVars, cursor, tableVars, tickVars, faults>>

\* stop(): clears the remembered timer; a tick in flight goes on.
Stop ==
    /\ running
    /\ faults < MaxFaults
    /\ faults' = faults + 1
    /\ running' = FALSE
    /\ timer' = Null
    /\ pc' = [l \in Slots |-> IF l = timer /\ pc[l] = "timer" THEN "free" ELSE pc[l]]
    /\ UNCHANGED <<chainVars, cursor, tableVars, tickVars>>

Fire(l) ==
    /\ pc[l] = "timer"
    /\ pc' = [pc EXCEPT ![l] = "cursor"]
    /\ UNCHANGED <<chainVars, cursor, tableVars, running, timer, tickVars, faults>>

\* readCursor, with the fallback to the default start ledger.
ReadCursor(l) ==
    /\ pc[l] = "cursor"
    /\ from' = [from EXCEPT ![l] = IF cursor = Null THEN 0 ELSE cursor]
    /\ pc' = [pc EXCEPT ![l] = "fetch"]
    /\ UNCHANGED <<chainVars, cursor, tableVars, running, timer, page, latest, faults>>

\* Promise.all: the events response and the ledger response, in either order.
FetchEvents(l) ==
    /\ pc[l] \in {"fetch", "ledger"}
    /\ page' = [page EXCEPT ![l] = PageAfter(from[l])]
    /\ pc' = [pc EXCEPT ![l] = IF @ = "fetch" THEN "events" ELSE "process"]
    /\ UNCHANGED <<chainVars, cursor, tableVars, running, timer, from, latest, faults>>

FetchLatestLedger(l) ==
    /\ pc[l] \in {"fetch", "events"}
    /\ \E seq \in {tip} \cup (IF LedgerFetchMayFail THEN {0} ELSE {}) :
         latest' = [latest EXCEPT ![l] = seq]
    /\ pc' = [pc EXCEPT ![l] = IF @ = "fetch" THEN "ledger" ELSE "process"]
    /\ UNCHANGED <<chainVars, cursor, tableVars, running, timer, from, page, faults>>

\* Mutant: one ledger too early.
Finalised_OffByOne(rec, seq) == seq - rec.ledger >= FinalityDepth - 1

\* The finality filter, then decodeEvent (null for unknown topics).
Finalised(rec, seq) == seq - rec.ledger >= FinalityDepth
Decodes(rec) == rec.type # Unknown
Passes(rec, seq) == Finalised(rec, seq) /\ Decodes(rec)

\* Mutant: the cursor is written before the events are persisted.
ProcessPage_CursorFirst(l) ==
    /\ pc[l] = "process"
    /\ pc' = [pc EXCEPT ![l] = "advance"]
    /\ UNCHANGED <<chainVars, cursor, tableVars, running, timer, tickVars, faults>>

\* Steps 3 to 5 of tick() up to the first statement of the transaction.
ProcessPage(l) ==
    /\ pc[l] = "process"
    /\ pc' = [pc EXCEPT ![l] = IF \E i \in 1..Len(page[l]) : Passes(page[l][i], latest[l])
                               THEN "begin" ELSE "advance"]
    /\ UNCHANGED <<chainVars, cursor, tableVars, running, timer, tickVars, faults>>

\* Mutants: a failed or finished tick is never scheduled again; a tick
\* schedules the next one without looking at this.running.
EndTick_NoRetry(l) ==
    /\ pc' = [pc EXCEPT ![l] = "free"]
    /\ UNCHANGED <<running, timer, from, page, latest>>
EndTick_IgnoresStop(l) ==
    /\ pc' = [pc EXCEPT ![l] = "timer"]
    /\ timer' = l
    /\ UNCHANGED <<running, from, page, latest>>

\* The finally block: the slot's tick ends and re-arms its timer when running.
EndTick(l) ==
    /\ pc'     = [pc EXCEPT ![l] = IF running THEN "timer" ELSE "free"]
    /\ timer'  = IF running THEN l ELSE timer
    /\ from'   = [from EXCEPT ![l] = 0]
    /\ page'   = [page EXCEPT ![l] = <<>>]
    /\ latest' = [latest EXCEPT ![l] = 0]
    /\ UNCHANGED running

\* Mutant: the connection returns to the pool with its statements applied.
Rollback_KeepsWork == owner' = Null /\ at' = 0 /\ UNCHANGED work

\* The catch block of upsertStreamEvents.
Rollback == work' = db /\ owner' = Null /\ at' = 0

\* BEGIN.  Transactions that touch the same rows wait for each other and
\* those that do not commute, so one at a time is open.
BeginTxn(l) ==
    /\ pc[l] = "begin"
    /\ owner = Null
    /\ owner' = l
    /\ pc' = [pc EXCEPT ![l] = "txn"]
    /\ UNCHANGED <<chainVars, cursor, db, work, at, running, timer, tickVars, faults>>

\* One record of the page: filtered out, or one iteration of the loop of
\* upsertStreamEvents.
ApplyEvent(l) ==
    /\ owner = l
    /\ at < Len(page[l])
    /\ LET ev == page[l][at + 1]
       IN /\ Passes(ev, latest[l]) => ~Raises(work, ev)
          /\ work' = IF Passes(ev, latest[l]) THEN Applied(work, ev) ELSE work
    /\ at' = at + 1
    /\ UNCHANGED <<chainVars, cursor, db, owner, running, timer, pc, tickVars, faults>>

\* A statement fails: ROLLBACK, and the tick's catch and finally blocks.
RaiseEvent(l) ==
    /\ owner = l
    /\ at < Len(page[l])
    /\ Passes(page[l][at + 1], latest[l])
    /\ Raises(work, page[l][at + 1])
    /\ Rollback
    /\ EndTick(l)
    /\ UNCHANGED <<chainVars, cursor, db, faults>>

CommitTxn(l) ==
    /\ owner = l
    /\ at = Len(page[l])
    /\ db' = work
    /\ owner' = Null
    /\ at' = 0
    /\ pc' = [pc EXCEPT ![l] = "advance"]
    /\ UNCHANGED <<chainVars, cursor, work, running, timer, tickVars, faults>>

\* Mutant: the cursor written is the length of the page, not its last token.
AdvanceCursor_Relative(l) ==
    /\ pc[l] = "advance"
    /\ cursor' = IF page[l] = <<>> THEN cursor ELSE Len(page[l])
    /\ EndTick(l)
    /\ UNCHANGED <<chainVars, tableVars, faults>>

\* Steps 6 to 8: writeCursor (an UPDATE, without effect on a missing row) when
\* the page had records, then the finally block.
AdvanceCursor(l) ==
    /\ pc[l] = "advance"
    /\ cursor' = IF page[l] = <<>> \/ cursor = Null THEN cursor
                 ELSE from[l] + Len(page[l])
    /\ EndTick(l)
    /\ UNCHANGED <<chainVars, tableVars, faults>>

-----------------------------------------------------------------------------
(* Faults.                                                                 *)

\* A request to Horizon, or a statement outside the transaction, fails.
TickFails(l) ==
    /\ pc[l] \in {"cursor", "fetch", "events", "ledger", "begin", "advance"}
    /\ pc[l] = "advance" => page[l] # <<>>
    /\ faults < MaxFaults
    /\ faults' = faults + 1
    /\ EndTick(l)
    /\ UNCHANGED <<chainVars, cursor, tableVars>>

\* The connection is lost inside the transaction; when it is lost at COMMIT
\* the server may already have committed.
ConnectionLost(l) ==
    /\ owner = l
    /\ faults < MaxFaults
    /\ faults' = faults + 1
    /\ \/ Rollback /\ UNCHANGED db
       \/ /\ at = Len(page[l])
          /\ db' = work
          /\ owner' = Null
          /\ at' = 0
          /\ UNCHANGED work
    /\ EndTick(l)
    /\ UNCHANGED <<chainVars, cursor>>

\* The process dies; PostgreSQL rolls its open transaction back.
Crash ==
    /\ \E l \in Slots : pc[l] # "free"
    /\ faults < MaxFaults
    /\ faults' = faults + 1
    /\ running' = FALSE
    /\ timer' = Null
    /\ pc' = [l \in Slots |-> "free"]
    /\ from' = [l \in Slots |-> 0]
    /\ page' = [l \in Slots |-> <<>>]
    /\ latest' = [l \in Slots |-> 0]
    /\ Rollback
    /\ UNCHANGED <<chainVars, cursor, db>>

-----------------------------------------------------------------------------
(* runExpiryJob: an independent cron job.  The RPC node it asks for the    *)
(* current ledger may lag behind the tip.  It waits for row locks.         *)

ExpireStreams ==
    /\ owner = Null
    /\ \E current \in 1..tip :
         LET expires(r) == /\ db.status[r] \in {"active", "pre_cliff"}
                           /\ EndLedger[r] < current
         IN /\ \E r \in Recipients : expires(r)
            /\ db' = [db EXCEPT !.status =
                        [r \in Recipients |-> IF expires(r) THEN "expired" ELSE @[r]]]
    /\ work' = db'
    /\ UNCHANGED <<chainVars, cursor, owner, at, running, timer, pc, tickVars, faults>>

-----------------------------------------------------------------------------
ZeroBalance == [deposit |-> 0, claimed |-> 0, remaining |-> 0]

\* Stream rows are written by other services: any live or missing row.
Init ==
    /\ chain = <<>>
    /\ tip = 0
    /\ cursor = IF CursorRow THEN 0 ELSE Null
    /\ \E st \in [Recipients -> {Absent, "pre_cliff", "active"}] :
         db = [rows |-> {}, bal |-> [r \in Recipients |-> ZeroBalance], status |-> st]
    /\ work = db
    /\ owner = Null
    /\ at = 0
    /\ running = FALSE
    /\ timer = Null
    /\ pc = [l \in Slots |-> "free"]
    /\ from = [l \in Slots |-> 0]
    /\ page = [l \in Slots |-> <<>>]
    /\ latest = [l \in Slots |-> 0]
    /\ faults = 0

TickStep(l) ==
    \/ Fire(l)
    \/ ReadCursor(l)
    \/ FetchEvents(l)
    \/ FetchLatestLedger(l)
    \/ ProcessPage(l)
    \/ BeginTxn(l)
    \/ ApplyEvent(l)
    \/ RaiseEvent(l)
    \/ CommitTxn(l)
    \/ AdvanceCursor(l)

Next ==
    \/ CloseLedger
    \/ Start
    \/ Stop
    \/ Crash
    \/ ExpireStreams
    \/ \E l \in Slots : TickStep(l) \/ TickFails(l) \/ ConnectionLost(l)

Spec == Init /\ [][Next]_vars

\* The event loop runs what is due and requests are answered.  Nothing
\* forces ledgers to close, streams to expire or faults to happen.
LoopFairSpec == Spec /\ \A l \in Slots : WF_vars(TickStep(l))
-----------------------------------------------------------------------------
(* Properties.                                                             *)

TypeOK ==
    /\ chain \in Seq(Event)
    /\ tip \in Nat
    /\ cursor \in Nat \cup {Null}
    /\ db \in Tables
    /\ work \in Tables
    /\ owner \in Slots \cup {Null}
    /\ at \in Nat
    /\ running \in BOOLEAN
    /\ timer \in Slots \cup {Null}
    /\ pc \in [Slots -> {"free", "timer", "cursor", "fetch", "events", "ledger",
                         "process", "begin", "txn", "advance"}]
    /\ from \in [Slots -> Nat]
    /\ page \in [Slots -> Seq(Event)]
    /\ latest \in [Slots -> Nat]
    /\ faults \in Nat

Claims(rows, r) == {e \in rows : /\ e.type = "TokensClaimed"
                                 /\ e.recipient = r
                                 /\ e.amount # Null}
ClaimSum(rows, r) == SumFunction([e \in Claims(rows, r) |-> e.amount])

\* The balance row of every recipient is what the persisted events add up
\* to, whatever was crashed, replayed, rolled back or processed by two loops
\* at once: upsertStreamEvents updates balances only for rows it inserted.
BalancesMatchEvents ==
    \A r \in Recipients :
        /\ db.bal[r].claimed = ClaimSum(db.rows, r)
        /\ db.bal[r].remaining = db.bal[r].deposit - db.bal[r].claimed
        /\ \/ db.bal[r].deposit = 0
           \/ \E e \in db.rows : /\ e.type = "StreamCreated"
                                 /\ e.recipient = r
                                 /\ e.amount = db.bal[r].deposit

\* No event is persisted before its ledger is FinalityDepth behind the tip,
\* although the tip a tick compares with may be older than its page.
FinalityRespected == \A e \in db.rows : tip - e.ledger >= FinalityDepth

\* A tick about to write the cursor has committed every event its page let
\* through the filter: a crash at any point costs a replay and no event.
CursorAfterCommit ==
    \A l \in Slots : pc[l] = "advance" =>
        \A i \in 1..Len(page[l]) :
            Passes(page[l][i], latest[l]) => page[l][i].tx \in TxHashes(db.rows)

\* The inductive strengthening of FinalityRespected and CursorAfterCommit:
\* what an open transaction has done so far, and what it still owes.
TxnInv ==
    /\ \A l \in Slots : owner = l <=> pc[l] = "txn"
    /\ owner = Null => work = db /\ at = 0
    /\ db.rows \subseteq work.rows
    /\ \A l \in Slots : latest[l] <= tip
    /\ \A e \in work.rows : tip - e.ledger >= FinalityDepth
    /\ \A l \in Slots : pc[l] = "txn" =>
         /\ at <= Len(page[l])
         /\ \A i \in 1..at : Passes(page[l][i], latest[l])
                                => page[l][i].tx \in TxHashes(work.rows)

\* Across crashes, restarts and two loops at once, a transaction and its page stay
\* consistent from BEGIN to the cursor write, and what was committed adds up
\* (upsertStreamEvents and tick).
PersistenceInv == TypeOK /\ TxnInv /\ BalancesMatchEvents

\* The status column only moves along VALID_TRANSITIONS although the expiry
\* job and the indexer write it without knowing of each other, and a stream
\* that reached a final status keeps it.
StatusOnlyMovesForward ==
    [][\A r \in Recipients :
         db'.status[r] # db.status[r] =>
            /\ db.status[r] \in Status
            /\ IsValidTransition(db.status[r], db'.status[r])]_vars

\* The saved cursor never moves backwards (with a single poll loop).
CursorNeverRegresses == [][cursor' >= cursor]_cursor

\* Neither the status of a stream nor the cursor ever goes back, whichever of the
\* indexer and the expiry job writes (check_stream_status_transition, tick).
ForwardOnly == StatusOnlyMovesForward /\ CursorNeverRegresses

\* An indexer that is left running works through to the end of the chain and
\* stays there, whatever faults happened before and however many loops
\* start() left behind.
CatchesUp == <>[]running => <>[](cursor = Len(chain))

\* After stop() every tick in flight and every forgotten timer winds down,
\* unless the indexer is started again.
StopQuiesces == ~running ~> (running \/ \A l \in Slots : pc[l] = "free")

(* What the documentation says, and the code does not do.                  *)

\* "No events are lost": every event behind the saved cursor is persisted.
NoEventLost ==
    cursor # Null =>
        \A i \in 1..cursor : Decodes(chain[i]) => chain[i].tx \in TxHashes(db.rows)

\* A terminal event whose transition is refused is "skipped": a tick that
\* has events to persist gets to commit them.
TransactionCommits ==
    \A l \in Slots : pc[l] = "begin" ~> pc[l] = "advance"
=============================================================================
