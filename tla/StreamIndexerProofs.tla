------------------------- MODULE StreamIndexerProofs -------------------------
(***************************************************************************)
(* Safety of the indexer for every number of poll loops, every page size,  *)
(* finality depth, chain and fault pattern: types, FinalityRespected,      *)
(* CursorAfterCommit, balances that add up, and what never goes back.      *)
(***************************************************************************)
EXTENDS StreamIndexer, FoldTheorems, SequenceTheorems, TLAPS

\* What a ledger appends to the chain is a sequence of events.
LEMMA CloseLedgerType ==
    ASSUME chain \in Seq(Event), tip \in Nat, NEW evs \in LedgerContents
    PROVE  chain \o [i \in 1..Len(evs) |-> Stamp(evs[i], tip + 1)] \in Seq(Event)
<1>1. evs \in Seq(Body)
  BY IndexerAssumption
<1>2. Len(evs) \in Nat
  BY <1>1
<1>3. ASSUME NEW i \in 1..Len(evs)
      PROVE  Stamp(evs[i], tip + 1) \in Event
  <2>1. evs[i] \in Body
    BY <1>1
  <2>2. QED BY <2>1 DEF Body, Event, Stamp
<1>4. [i \in 1..Len(evs) |-> Stamp(evs[i], tip + 1)] \in Seq(Event)
  BY <1>2, <1>3, IsASeq
<1>5. QED BY <1>4, ConcatProperties

\* A page of the chain is a sequence of events.
LEMMA PageType ==
    ASSUME chain \in Seq(Event), NEW c \in Nat
    PROVE  PageAfter(c) \in Seq(Event)
<1> DEFINE n == IF c + PageLimit < Len(chain) THEN c + PageLimit ELSE Len(chain)
<1>1. n \in Nat /\ n <= Len(chain) /\ Len(chain) \in Nat
  BY IndexerAssumption
<1>2. \A i \in (c + 1)..n : i \in 1..Len(chain)
  BY <1>1
<1>3. SubSeq(chain, c + 1, n) \in Seq(Event)
  BY <1>1, <1>2, SubSeqProperties
<1>4. QED BY <1>3 DEF PageAfter

\* Applying an event keeps the tables well formed.
LEMMA AppliedType ==
    ASSUME NEW t \in Tables, NEW ev \in Event
    PROVE  Applied(t, ev) \in Tables
<1>1. \A b \in Balance : InsertedBalance(b, ev) \in Balance
  <2> SUFFICES ASSUME NEW b \in Balance PROVE InsertedBalance(b, ev) \in Balance
    OBVIOUS
  <2>1. ev.amount # Null => ev.amount \in Nat
    BY DEF Event
  <2>2. QED BY <2>1 DEF InsertedBalance, Balance
<1>2. \A s \in Status \cup {Absent} : CancelledStatus(s) \in Status \cup {Absent}
  BY DEF CancelledStatus, Status, Absent
<1>3. t.bal \in [Recipients -> Balance] /\ t.rows \subseteq Event
      /\ t.status \in [Recipients -> Status \cup {Absent}] /\ ev.recipient \in Recipients
  BY DEF Tables, Event
<1>4. [t.bal EXCEPT ![ev.recipient] = InsertedBalance(@, ev)] \in [Recipients -> Balance]
  BY <1>1, <1>3
<1>5. [t.status EXCEPT ![ev.recipient] = CancelledStatus(@)]
        \in [Recipients -> Status \cup {Absent}]
  BY <1>2, <1>3
<1>6. QED BY <1>3, <1>4, <1>5 DEF Applied, Tables

\* Applying an event keeps every row and gives the event's hash a row.
LEMMA AppliedRows ==
    ASSUME NEW t \in Tables, NEW ev \in Event
    PROVE  /\ t.rows \subseteq Applied(t, ev).rows
           /\ ev.tx \in TxHashes(Applied(t, ev).rows)
           /\ \A e \in Applied(t, ev).rows : e \in t.rows \/ e = ev
BY DEF Applied, TxHashes

\* The state of an open transaction is well typed after EndTick and Rollback.
LEMMA TypeStep == TypeOK /\ [Next]_vars => TypeOK'
<1> SUFFICES ASSUME TypeOK, [Next]_vars PROVE TypeOK'
  OBVIOUS
<1> USE DEF TypeOK
<1>1. CASE CloseLedger
  BY <1>1, CloseLedgerType, SMT DEF CloseLedger
<1>2. CASE Start
  BY <1>2 DEF Start, chainVars, tableVars, tickVars
<1>3. CASE Stop
  <2>1. pc' \in [Slots -> {"free", "timer", "cursor", "fetch", "events", "ledger",
                           "process", "begin", "txn", "advance"}]
    BY <1>3 DEF Stop
  <2>2. faults' \in Nat /\ timer' = Null
    BY <1>3 DEF Stop
  <2>2b. running' \in BOOLEAN
    BY <1>3, Zenon DEF Stop
  <2>3. UNCHANGED <<chainVars, cursor, tableVars, tickVars>>
    BY <1>3 DEF Stop
  <2>4. QED BY <2>1, <2>2, <2>2b, <2>3 DEF chainVars, tableVars, tickVars
<1>4. CASE Crash
  <2>1. pc' \in [Slots -> {"free", "timer", "cursor", "fetch", "events", "ledger",
                           "process", "begin", "txn", "advance"}]
    BY <1>4 DEF Crash
  <2>2. page' \in [Slots -> Seq(Event)] /\ from' \in [Slots -> Nat]
        /\ latest' \in [Slots -> Nat]
    BY <1>4 DEF Crash
  <2>3. faults' \in Nat /\ timer' = Null
    BY <1>4 DEF Crash
  <2>3b. running' \in BOOLEAN
    BY <1>4, Zenon DEF Crash
  <2>4. Rollback /\ UNCHANGED <<chainVars, cursor, db>>
    BY <1>4 DEF Crash
  <2>5. QED BY <2>1, <2>2, <2>3, <2>3b, <2>4 DEF Rollback, chainVars
<1>5. CASE ExpireStreams
  <2> DEFINE expires(c, r) == /\ db.status[r] \in {"active", "pre_cliff"}
                              /\ EndLedger[r] < c
             S(c) == [r \in Recipients |-> IF expires(c, r) THEN "expired" ELSE db.status[r]]
  <2>1. PICK c \in 1..tip : db' = [db EXCEPT !.status = S(c)]
    BY <1>5 DEF ExpireStreams
  <2>2. S(c) \in [Recipients -> Status \cup {Absent}]
    BY DEF Status, Tables
  <2>3. db' \in Tables
    BY <2>1, <2>2 DEF Tables
  <2>4. QED BY <1>5, <2>3 DEF ExpireStreams, chainVars, tickVars
<1>6. ASSUME NEW l \in Slots, TickStep(l) PROVE TypeOK'
  <2>1. CASE Fire(l)
    BY <2>1 DEF Fire, chainVars, tableVars, tickVars
  <2>2. CASE ReadCursor(l)
    BY <2>2 DEF ReadCursor, chainVars, tableVars
  <2>3. CASE FetchEvents(l)
    BY <2>3, PageType DEF FetchEvents, chainVars, tableVars
  <2>4. CASE FetchLatestLedger(l)
    BY <2>4 DEF FetchLatestLedger, chainVars, tableVars
  <2>5. CASE ProcessPage(l)
    BY <2>5 DEF ProcessPage, chainVars, tableVars, tickVars
  <2>6. CASE BeginTxn(l)
    BY <2>6 DEF BeginTxn, chainVars, tickVars
  <2>7. CASE ApplyEvent(l)
    <3>1. page[l][at + 1] \in Event
      BY <2>7 DEF ApplyEvent
    <3>2. work' \in Tables
      BY <2>7, <3>1, AppliedType DEF ApplyEvent
    <3>3. QED BY <2>7, <3>2 DEF ApplyEvent, chainVars, tickVars
  <2>8. CASE RaiseEvent(l)
    BY <2>8 DEF RaiseEvent, Rollback, EndTick, chainVars
  <2>9. CASE CommitTxn(l)
    BY <2>9 DEF CommitTxn, chainVars, tickVars
  <2>10. CASE AdvanceCursor(l)
    <3>1. Len(page[l]) \in Nat
      OBVIOUS
    <3>2. QED BY <2>10, <3>1 DEF AdvanceCursor, EndTick, chainVars, tableVars
  <2>11. QED BY <1>6, <2>1, <2>2, <2>3, <2>4, <2>5, <2>6, <2>7, <2>8, <2>9, <2>10 DEF TickStep
<1>7. ASSUME NEW l \in Slots, TickFails(l) PROVE TypeOK'
  BY <1>7 DEF TickFails, EndTick, chainVars, tableVars
<1>8. ASSUME NEW l \in Slots, ConnectionLost(l) PROVE TypeOK'
  <2>1. db' \in Tables /\ work' \in Tables /\ owner' = Null /\ at' \in Nat
        /\ faults' \in Nat
    BY <1>8 DEF ConnectionLost, Rollback
  <2>2. EndTick(l) /\ UNCHANGED <<chainVars, cursor>>
    BY <1>8 DEF ConnectionLost
  <2>3. QED BY <2>1, <2>2 DEF EndTick, chainVars
<1>9. CASE UNCHANGED vars
  BY <1>9 DEF vars
<1>10. QED BY <1>1, <1>2, <1>3, <1>4, <1>5, <1>6, <1>7, <1>8, <1>9 DEF Next

\* Every variable keeps its type in every behaviour of the indexer.
THEOREM TypeCorrect == Spec => []TypeOK
<1>1. Init => TypeOK
  <2> SUFFICES ASSUME Init PROVE TypeOK
    OBVIOUS
  <2>1. PICK st \in [Recipients -> {Absent, "pre_cliff", "active"}] :
          db = [rows |-> {}, bal |-> [r \in Recipients |-> ZeroBalance], status |-> st]
    BY DEF Init
  <2>2. st \in [Recipients -> Status \cup {Absent}]
    BY DEF Status
  <2>3. [r \in Recipients |-> ZeroBalance] \in [Recipients -> Balance]
    BY DEF ZeroBalance, Balance
  <2>4. db \in Tables /\ work = db
    BY <2>1, <2>2, <2>3 DEF Tables, Init
  <2>5. /\ pc \in [Slots -> {"free", "timer", "cursor", "fetch", "events", "ledger",
                             "process", "begin", "txn", "advance"}]
        /\ from \in [Slots -> Nat] /\ latest \in [Slots -> Nat]
        /\ page \in [Slots -> Seq(Event)]
    BY DEF Init
  <2>6. chain \in Seq(Event)
    BY DEF Init
  <2>6b. running \in BOOLEAN
    BY Zenon DEF Init
  <2>7. cursor \in Nat \cup {Null}
    BY DEF Init
  <2>8. QED BY <2>4, <2>5, <2>6, <2>6b, <2>7 DEF Init, TypeOK
<1>2. QED BY <1>1, TypeStep, PTL DEF Spec

-----------------------------------------------------------------------------
\* The invariant holds initially: nothing is persisted and no tick runs.
LEMMA InvInit == Init => TxnInv /\ CursorAfterCommit
<1> SUFFICES ASSUME Init PROVE TxnInv /\ CursorAfterCommit
  OBVIOUS
<1>1. db.rows = {} /\ work = db
  BY DEF Init
<1>2. QED BY <1>1, IndexerAssumption DEF Init, TxnInv, CursorAfterCommit

\* A statement about the page of a slot that no longer has one.
LEMMA EndTickFacts ==
    ASSUME TypeOK, NEW l \in Slots, EndTick(l)
    PROVE  /\ pc'[l] \in {"timer", "free"}
           /\ \A k \in Slots : k # l => /\ pc'[k] = pc[k]
                                        /\ page'[k] = page[k]
                                        /\ latest'[k] = latest[k]
           /\ latest'[l] = 0
BY DEF EndTick, TypeOK

\* A tick that ends keeps the invariant when the tables only gained rows, the
\* transaction it held (if any) is closed and the others are as they were.
LEMMA EndTickKeeps ==
    ASSUME TypeOK, TypeOK', TxnInv, CursorAfterCommit, NEW l \in Slots, EndTick(l),
           tip' = tip, db.rows \subseteq db'.rows, db'.rows \subseteq work'.rows,
           work'.rows \subseteq work.rows,
           \/ UNCHANGED <<work, db, owner, at>> /\ pc[l] # "txn"
           \/ owner = l /\ owner' = Null /\ at' = 0 /\ work' = db'
    PROVE  TxnInv' /\ CursorAfterCommit'
<1> USE IndexerAssumption
<1>1. CursorAfterCommit'
  <2> SUFFICES ASSUME NEW k \in Slots, pc'[k] = "advance",
                      NEW i \in 1..Len(page'[k]), Passes(page'[k][i], latest'[k])
               PROVE  page'[k][i].tx \in TxHashes(db'.rows)
    BY DEF CursorAfterCommit, Passes, Finalised, Decodes
  <2>1. k # l /\ pc[k] = "advance" /\ page'[k] = page[k] /\ latest'[k] = latest[k]
    BY EndTickFacts
  <2>2. page[k][i].tx \in TxHashes(db.rows)
    BY <2>1 DEF CursorAfterCommit
  <2>3. QED BY <2>1, <2>2 DEF TxHashes
<1>2. (\A k \in Slots : owner = k <=> pc[k] = "txn")'
  BY EndTickFacts DEF TxnInv
<1>3. (owner = Null => work = db /\ at = 0)'
  BY DEF TxnInv
<1>4. (\A k \in Slots : latest[k] <= tip)'
  <2>1. tip \in Nat /\ 0 <= tip
    BY DEF TypeOK
  <2>2. QED BY <2>1, EndTickFacts DEF TxnInv
<1>5. (\A e \in work.rows : tip - e.ledger >= FinalityDepth)'
  BY DEF TxnInv
<1>6. ASSUME NEW k \in Slots, pc'[k] = "txn"
      PROVE  /\ at' <= Len(page'[k])
             /\ \A i \in 1..at' : Passes(page'[k][i], latest'[k])
                                     => page'[k][i].tx \in TxHashes(work'.rows)
  <2>1. k # l /\ pc[k] = "txn" /\ page'[k] = page[k] /\ latest'[k] = latest[k]
    BY <1>6, EndTickFacts
  <2>2. owner = k /\ UNCHANGED <<work, at>>
    BY <2>1 DEF TxnInv
  <2>3. QED BY <2>1, <2>2 DEF TxnInv
<1>7. TxnInv'
  BY <1>2, <1>3, <1>4, <1>5, <1>6 DEF TxnInv, Passes, Finalised, Decodes
<1>8. QED BY <1>1, <1>7

\* What one loop's transaction commits stays committed: every step keeps the
\* invariant, provided it keeps the types.
LEMMA InvStep == TypeOK /\ TxnInv /\ CursorAfterCommit /\ [Next]_vars
                    => TxnInv' /\ CursorAfterCommit'
<1> SUFFICES ASSUME TypeOK, TxnInv, CursorAfterCommit, [Next]_vars, TypeOK'
             PROVE  TxnInv' /\ CursorAfterCommit'
  BY TypeStep
<1> USE IndexerAssumption
<1>0. \A e \in work.rows \cup db.rows : e.ledger \in Nat
  BY DEF TypeOK, Tables, Event
<1>1. CASE CloseLedger
  <2>1. tip' = tip + 1 /\ tip \in Nat
    BY <1>1 DEF CloseLedger, TypeOK
  <2>2. \A e \in work.rows : tip' - e.ledger >= FinalityDepth
    BY <1>0, <2>1 DEF TxnInv
  <2>3. \A k \in Slots : latest[k] <= tip'
    BY <2>1 DEF TxnInv, TypeOK
  <2>4. QED BY <1>1, <2>2, <2>3 DEF CloseLedger, TxnInv, CursorAfterCommit
<1>2. CASE Start
  BY <1>2 DEF Start, TxnInv, CursorAfterCommit, TypeOK, chainVars, tableVars, tickVars
<1>3. CASE Stop
  <2>1. \A k \in Slots : pc'[k] = pc[k] \/ (pc[k] = "timer" /\ pc'[k] = "free")
    BY <1>3 DEF Stop
  <2>2. UNCHANGED <<chainVars, tableVars, tickVars>>
    BY <1>3 DEF Stop
  <2>3. QED BY <2>1, <2>2 DEF TxnInv, CursorAfterCommit, chainVars, tableVars, tickVars
<1>4. CASE Crash
  <2>1. \A k \in Slots : pc'[k] = "free" /\ latest'[k] = 0
    BY <1>4 DEF Crash
  <2>2. work' = db /\ db' = db /\ owner' = Null /\ at' = 0 /\ tip' = tip
    BY <1>4 DEF Crash, Rollback, chainVars
  <2>3. CursorAfterCommit'
    BY <2>1 DEF CursorAfterCommit
  <2>4. \A e \in db.rows : tip - e.ledger >= FinalityDepth
    BY DEF TxnInv
  <2>5. tip \in Nat /\ 0 <= tip
    BY DEF TypeOK
  <2>6. TxnInv'
    BY <2>1, <2>2, <2>4, <2>5 DEF TxnInv
  <2>7. QED BY <2>3, <2>6
<1>5. CASE ExpireStreams
  <2>1. db'.rows = db.rows /\ work' = db' /\ owner = Null /\ at = 0 /\ work = db
    <3>1. owner = Null /\ work = db /\ at = 0
      BY <1>5 DEF ExpireStreams, TxnInv
    <3>2. db'.rows = db.rows /\ work' = db'
      BY <1>5 DEF ExpireStreams, TypeOK, Tables
    <3>3. QED BY <3>1, <3>2
  <2>2. UNCHANGED <<tip, owner, at, pc, page, latest>>
    BY <1>5 DEF ExpireStreams, chainVars, tickVars
  <2>3. QED BY <2>1, <2>2 DEF TxnInv, CursorAfterCommit, Passes, Finalised, Decodes, TxHashes
<1>6. ASSUME NEW l \in Slots, TickStep(l) PROVE TxnInv' /\ CursorAfterCommit'
  <2>1. CASE Fire(l)
    BY <2>1 DEF Fire, TxnInv, CursorAfterCommit, TypeOK, chainVars, tableVars, tickVars
  <2>2. CASE ReadCursor(l)
    BY <2>2 DEF ReadCursor, TxnInv, CursorAfterCommit, TypeOK, chainVars, tableVars
  <2>3. CASE FetchEvents(l)
    <3>1. /\ \A k \in Slots : k # l => pc'[k] = pc[k] /\ page'[k] = page[k]
          /\ pc[l] # "txn" /\ pc'[l] \in {"events", "process"}
      BY <2>3 DEF FetchEvents, TypeOK
    <3>2. UNCHANGED <<tip, db, work, owner, at, latest>>
      BY <2>3 DEF FetchEvents, chainVars, tableVars
    <3>3. QED BY <3>1, <3>2 DEF TxnInv, CursorAfterCommit
  <2>4. CASE FetchLatestLedger(l)
    <3>1. /\ \A k \in Slots : k # l => pc'[k] = pc[k] /\ latest'[k] = latest[k]
          /\ pc[l] # "txn" /\ pc'[l] \in {"ledger", "process"}
      BY <2>4 DEF FetchLatestLedger, TypeOK
    <3>2. UNCHANGED <<tip, db, work, owner, at, page>>
      BY <2>4 DEF FetchLatestLedger, chainVars, tableVars
    <3>3. latest'[l] <= tip
      BY <2>4 DEF FetchLatestLedger, TypeOK
    <3>4. QED BY <3>1, <3>2, <3>3 DEF TxnInv, CursorAfterCommit
  <2>5. CASE ProcessPage(l)
    <3>1. /\ \A k \in Slots : k # l => pc'[k] = pc[k]
          /\ pc[l] # "txn" /\ pc'[l] # "txn"
      BY <2>5 DEF ProcessPage, TypeOK
    <3>2. pc'[l] = "advance" => \A i \in 1..Len(page[l]) : ~Passes(page[l][i], latest[l])
      BY <2>5 DEF ProcessPage, TypeOK
    <3>3. UNCHANGED <<tip, db, work, owner, at, page, latest>>
      BY <2>5 DEF ProcessPage, chainVars, tableVars, tickVars
    <3>4. QED BY <3>1, <3>2, <3>3 DEF TxnInv, CursorAfterCommit
  <2>6. CASE BeginTxn(l)
    <3>1. /\ \A k \in Slots : pc'[k] = IF k = l THEN "txn" ELSE pc[k]
          /\ owner = Null /\ owner' = l
      BY <2>6 DEF BeginTxn, TypeOK
    <3>2. \A k \in Slots : pc[k] # "txn"
      BY <3>1 DEF TxnInv
    <3>3. UNCHANGED <<tip, db, work, at, page, latest>> /\ at = 0
      BY <2>6 DEF BeginTxn, TxnInv, chainVars, tickVars
    <3>4. Len(page[l]) \in Nat
      BY DEF TypeOK
    <3>5. QED BY <3>1, <3>2, <3>3, <3>4 DEF TxnInv, CursorAfterCommit
  <2>7. CASE ApplyEvent(l)
    <3> DEFINE ev == page[l][at + 1]
    <3>1. ev \in Event /\ at \in Nat /\ at' = at + 1 /\ at + 1 <= Len(page[l])
      BY <2>7 DEF ApplyEvent, TypeOK
    <3>2. UNCHANGED <<tip, db, owner, pc, page, latest>> /\ owner = l
      BY <2>7 DEF ApplyEvent, chainVars, tickVars
    <3>3. pc[l] = "txn" /\ \A k \in Slots : pc[k] = "txn" => k = l
      BY <3>2 DEF TxnInv
    <3>4. work' = IF Passes(ev, latest[l]) THEN Applied(work, ev) ELSE work
      BY <2>7 DEF ApplyEvent
    <3>5. /\ work.rows \subseteq work'.rows
          /\ Passes(ev, latest[l]) => ev.tx \in TxHashes(work'.rows)
          /\ \A e \in work'.rows : e \in work.rows \/ (e = ev /\ Passes(ev, latest[l]))
      <4>1. work \in Tables
        BY DEF TypeOK
      <4>2. QED BY <3>1, <3>4, <4>1, AppliedRows
    <3>6. Passes(ev, latest[l]) => tip - ev.ledger >= FinalityDepth
      <4>1. ev.ledger \in Nat
        BY <3>1 DEF Event
      <4>2. tip \in Nat /\ latest[l] \in Nat /\ latest[l] <= tip
        BY DEF TypeOK, TxnInv
      <4>3. QED BY <4>1, <4>2 DEF Passes, Finalised
    <3>7. \A e \in work'.rows : tip - e.ledger >= FinalityDepth
      BY <3>5, <3>6 DEF TxnInv
    <3>8. \A i \in 1..at' : Passes(page[l][i], latest[l])
                                => page[l][i].tx \in TxHashes(work'.rows)
      <4>1. TAKE i \in 1..at'
      <4>2. CASE i = at + 1
        BY <4>2, <3>5
      <4>3. CASE i \in 1..at
        BY <4>3, <3>3, <3>5 DEF TxnInv, TxHashes
      <4>4. QED BY <4>2, <4>3, <3>1
    <3>9. TxnInv'
      BY <3>1, <3>2, <3>3, <3>5, <3>7, <3>8 DEF TxnInv, TypeOK
    <3>10. QED BY <3>2, <3>9 DEF CursorAfterCommit
  <2>8. CASE RaiseEvent(l)
    <3>1. EndTick(l) /\ work' = db /\ db' = db /\ owner' = Null /\ at' = 0 /\ tip' = tip
          /\ owner = l
      BY <2>8 DEF RaiseEvent, Rollback, chainVars
    <3>2. QED BY <3>1, EndTickKeeps DEF TxnInv
  <2>9. CASE CommitTxn(l)
    <3>1. /\ \A k \in Slots : pc'[k] = IF k = l THEN "advance" ELSE pc[k]
          /\ owner = l /\ owner' = Null /\ at = Len(page[l]) /\ at' = 0
          /\ db' = work /\ work' = work
      BY <2>9 DEF CommitTxn, TypeOK
    <3>2. UNCHANGED <<tip, page, latest>>
      BY <2>9 DEF CommitTxn, chainVars, tickVars
    <3>3. TxnInv'
      BY <3>1, <3>2 DEF TxnInv
    <3>4. db.rows \subseteq work.rows
      BY DEF TxnInv
    <3>5. CursorAfterCommit'
      BY <3>1, <3>2, <3>4 DEF TxnInv, CursorAfterCommit, TxHashes
    <3>6. QED BY <3>3, <3>5
  <2>10. CASE AdvanceCursor(l)
    <3>1. EndTick(l) /\ UNCHANGED <<tip, db, work, owner, at>> /\ pc[l] = "advance"
      BY <2>10 DEF AdvanceCursor, chainVars, tableVars
    <3>2. QED BY <3>1, EndTickKeeps DEF TxnInv
  <2>11. QED BY <1>6, <2>1, <2>2, <2>3, <2>4, <2>5, <2>6, <2>7, <2>8, <2>9, <2>10 DEF TickStep
<1>7. ASSUME NEW l \in Slots, TickFails(l) PROVE TxnInv' /\ CursorAfterCommit'
  <2>1. EndTick(l) /\ UNCHANGED <<tip, db, work, owner, at>> /\ pc[l] # "txn"
    BY <1>7 DEF TickFails, chainVars, tableVars
  <2>2. QED BY <2>1, EndTickKeeps DEF TxnInv
<1>8. ASSUME NEW l \in Slots, ConnectionLost(l) PROVE TxnInv' /\ CursorAfterCommit'
  <2>1. /\ EndTick(l) /\ owner = l /\ owner' = Null /\ at' = 0 /\ tip' = tip
        /\ \/ work' = db /\ db' = db
           \/ work' = work /\ db' = work
    BY <1>8 DEF ConnectionLost, Rollback, chainVars
  <2>2. db.rows \subseteq work.rows
    BY DEF TxnInv
  <2>3. QED BY <2>1, <2>2, EndTickKeeps
<1>9. CASE UNCHANGED vars
  BY <1>9 DEF vars, TxnInv, CursorAfterCommit
<1>10. QED BY <1>1, <1>2, <1>3, <1>4, <1>5, <1>6, <1>7, <1>8, <1>9 DEF Next

\* The bookkeeping of the open transaction holds in every behaviour.
THEOREM TransactionInvariant == Spec => [](TxnInv /\ CursorAfterCommit)
<1>1. Spec => []TypeOK
  BY TypeCorrect
<1>2. QED BY <1>1, InvInit, InvStep, PTL DEF Spec

\* No event is persisted before it is final, for every finality depth, page
\* size, number of loops and fault pattern.
THEOREM FinalityHolds == Spec => []FinalityRespected
<1>1. TxnInv => FinalityRespected
  BY DEF TxnInv, FinalityRespected
<1>2. QED BY <1>1, TransactionInvariant, PTL

\* A tick that reaches the cursor write has committed its page's events.
THEOREM CommitBeforeCursor == Spec => []CursorAfterCommit
BY TransactionInvariant, PTL

-----------------------------------------------------------------------------
(* The balances.  What a transaction has not committed has to add up too:  *)
(* its tables are the committed ones of the next step.                     *)

\* The balance rows of t are what the event rows of t add up to.
AddsUp(t) ==
    \A r \in Recipients :
        /\ t.bal[r].claimed = ClaimSum(t.rows, r)
        /\ t.bal[r].remaining = t.bal[r].deposit - t.bal[r].claimed
        /\ \/ t.bal[r].deposit = 0
           \/ \E e \in t.rows : /\ e.type = "StreamCreated"
                                /\ e.recipient = r
                                /\ e.amount = t.bal[r].deposit

BalanceInv == /\ IsFiniteSet(db.rows) /\ IsFiniteSet(work.rows)
              /\ AddsUp(db) /\ AddsUp(work)

\* The claims of a table have amounts to add.
LEMMA ClaimValues ==
    ASSUME NEW rows, rows \subseteq Event, IsFiniteSet(rows), NEW r \in Recipients
    PROVE  /\ IsFiniteSet(Claims(rows, r))
           /\ [e \in Claims(rows, r) |-> e.amount] \in [Claims(rows, r) -> Int]
<1>1. Claims(rows, r) \subseteq rows
  BY DEF Claims
<1>2. IsFiniteSet(Claims(rows, r))
  BY <1>1, FS_Subset
<1>3. \A e \in Claims(rows, r) : e.amount \in Int
  BY DEF Claims, Event
<1>4. QED BY <1>2, <1>3

\* A row that is no claim of r leaves the sum alone, a new claim is added.
LEMMA ClaimSumNext ==
    ASSUME NEW rows, rows \subseteq Event, IsFiniteSet(rows), NEW r \in Recipients,
           NEW ev \in Event, ev \notin rows
    PROVE  ClaimSum(rows \cup {ev}, r) =
               IF ev.type = "TokensClaimed" /\ ev.recipient = r /\ ev.amount # Null
               THEN ClaimSum(rows, r) + ev.amount
               ELSE ClaimSum(rows, r)
<1> DEFINE counts == ev.type = "TokensClaimed" /\ ev.recipient = r /\ ev.amount # Null
           C == Claims(rows, r)
           u == [e \in C |-> e.amount]
           N == Claims(rows \cup {ev}, r)
           v == [e \in N |-> e.amount]
<1>1. CASE counts
  <2>1. N = C \cup {ev} /\ ev \notin C
    BY <1>1 DEF Claims
  <2>2. IsFiniteSet(C) /\ u \in [C -> Int]
    BY ClaimValues
  <2>3. rows \cup {ev} \subseteq Event /\ IsFiniteSet(rows \cup {ev})
    BY FS_AddElement
  <2>4. v \in [C \cup {ev} -> Int]
    BY <2>1, <2>3, ClaimValues
  <2>5. (\A y \in C : u[y] = v[y]) /\ v[ev] = ev.amount
    BY <2>1
  <2>6. MoreBy(v, u, C, ev)
    BY <2>2, <2>4, <2>5 DEF MoreBy
  <2> HIDE DEF C, u, N, v
  <2>7. SumFunction(v) = SumFunction(u) + v[ev]
    BY <2>1, <2>2, <2>6, SumAdd
  <2>8. QED BY <1>1, <2>5, <2>7 DEF ClaimSum, C, u, N, v
<1>2. CASE ~counts
  <2>1. N = C
    BY <1>2 DEF Claims
  <2>2. QED BY <1>2, <2>1 DEF ClaimSum
<1>3. QED BY <1>1, <1>2

\* One iteration of upsertStreamEvents keeps the books: a row that ON
\* CONFLICT skips changes no balance, a row that is inserted changes the one
\* it belongs to by what it says.
LEMMA AppliedAddsUp ==
    ASSUME NEW t \in Tables, NEW ev \in Event, IsFiniteSet(t.rows), AddsUp(t)
    PROVE  IsFiniteSet(Applied(t, ev).rows) /\ AddsUp(Applied(t, ev))
<1> DEFINE n == Applied(t, ev)
           b == InsertedBalance(t.bal[ev.recipient], ev)
<1>1. CASE ev.tx \in TxHashes(t.rows)
  <2>1. n.rows = t.rows /\ n.bal = t.bal
    BY <1>1 DEF Applied
  <2>2. QED BY <2>1 DEF AddsUp
<1>2. CASE ev.tx \notin TxHashes(t.rows)
  <2>1. ev \notin t.rows
    BY <1>2 DEF TxHashes
  <2>2. n.rows = t.rows \cup {ev} /\ n.bal = [t.bal EXCEPT ![ev.recipient] = b]
    BY <1>2 DEF Applied
  <2>3. t.rows \subseteq Event /\ t.bal \in [Recipients -> Balance]
        /\ ev.recipient \in Recipients /\ (ev.amount # Null => ev.amount \in Nat)
    BY DEF Tables, Event
  <2>4. IsFiniteSet(n.rows)
    BY <2>2, FS_AddElement
  <2> HIDE DEF n
  <2>5. ASSUME NEW r \in Recipients
        PROVE  /\ n.bal[r].claimed = ClaimSum(n.rows, r)
               /\ n.bal[r].remaining = n.bal[r].deposit - n.bal[r].claimed
               /\ \/ n.bal[r].deposit = 0
                  \/ \E e \in n.rows : /\ e.type = "StreamCreated"
                                       /\ e.recipient = r
                                       /\ e.amount = n.bal[r].deposit
    <3>1. ClaimSum(n.rows, r) =
             IF ev.type = "TokensClaimed" /\ ev.recipient = r /\ ev.amount # Null
             THEN ClaimSum(t.rows, r) + ev.amount ELSE ClaimSum(t.rows, r)
      BY <2>1, <2>2, <2>3, ClaimSumNext
    <3>2. t.bal[r] \in Balance /\ t.bal[r].claimed = ClaimSum(t.rows, r)
          /\ t.bal[r].remaining = t.bal[r].deposit - t.bal[r].claimed
          /\ \/ t.bal[r].deposit = 0
             \/ \E e \in t.rows : /\ e.type = "StreamCreated"
                                  /\ e.recipient = r
                                  /\ e.amount = t.bal[r].deposit
      BY <2>3 DEF AddsUp
    <3>3. CASE r # ev.recipient
      <4>1. n.bal[r] = t.bal[r]
        BY <2>2, <2>3, <3>3
      <4>2. QED BY <2>2, <3>1, <3>2, <3>3, <4>1
    <3>4. CASE r = ev.recipient
      <4>1. n.bal[r] = b
        BY <2>2, <2>3, <3>4
      <4>2. CASE ev.amount = Null \/ ev.type \notin {"StreamCreated", "TokensClaimed"}
        <5>1. b = t.bal[r]
          BY <3>4, <4>2 DEF InsertedBalance
        <5> HIDE DEF b
        <5>2. QED BY <2>2, <3>1, <3>2, <4>1, <4>2, <5>1
      <4>3. CASE ev.amount # Null /\ ev.type = "StreamCreated"
        <5>1. b = [deposit |-> ev.amount, claimed |-> t.bal[r].claimed,
                   remaining |-> ev.amount - t.bal[r].claimed]
          BY <3>4, <4>3 DEF InsertedBalance
        <5> HIDE DEF b
        <5>2. b.deposit = ev.amount /\ b.claimed = t.bal[r].claimed
              /\ b.remaining = ev.amount - t.bal[r].claimed
          BY <5>1
        <5>3. ev \in n.rows
          BY <2>2
        <5>4. QED BY <3>1, <3>2, <3>4, <4>1, <4>3, <5>2, <5>3
      <4>4. CASE ev.amount # Null /\ ev.type = "TokensClaimed"
        <5>1. b = [deposit |-> t.bal[r].deposit, claimed |-> t.bal[r].claimed + ev.amount,
                   remaining |-> t.bal[r].deposit - (t.bal[r].claimed + ev.amount)]
          BY <3>4, <4>4 DEF InsertedBalance
        <5> HIDE DEF b
        <5>2. b.deposit = t.bal[r].deposit /\ b.claimed = t.bal[r].claimed + ev.amount
              /\ b.remaining = t.bal[r].deposit - (t.bal[r].claimed + ev.amount)
          BY <5>1
        <5>3. QED BY <2>2, <3>1, <3>2, <3>4, <4>1, <4>4, <5>2
      <4>5. QED BY <4>2, <4>3, <4>4
    <3>5. QED BY <3>3, <3>4
  <2>6. AddsUp(n)
    BY <2>5 DEF AddsUp
  <2>7. QED BY <2>4, <2>6 DEF n
<1>3. QED BY <1>1, <1>2

LEMMA BalanceInitial == Init => BalanceInv
<1> SUFFICES ASSUME Init PROVE BalanceInv
  OBVIOUS
<1>1. work = db /\ db.rows = {} /\ \A r \in Recipients : db.bal[r] = ZeroBalance
  BY DEF Init
<1>2. ASSUME NEW r \in Recipients PROVE ClaimSum(db.rows, r) = 0
  <2> DEFINE v == [e \in Claims(db.rows, r) |-> e.amount]
  <2>1. Claims(db.rows, r) = {}
    BY <1>1 DEF Claims
  <2>2. DOMAIN v = {} /\ v \in [{} -> Int]
    BY <2>1
  <2> HIDE DEF v
  <2>3. SumFunction(v) = 0
    BY <2>2, SumEmpty
  <2>4. QED BY <2>3 DEF ClaimSum, v
<1>3. AddsUp(db)
  BY <1>1, <1>2 DEF AddsUp, ZeroBalance
<1>4. QED BY <1>1, <1>3, FS_EmptySet DEF BalanceInv

\* A step that only exchanges the two copies of the tables, or changes the
\* status column, keeps the books.
LEMMA BalanceKept ==
    ASSUME BalanceInv,
           \/ db'.rows = db.rows /\ db'.bal = db.bal
           \/ db'.rows = work.rows /\ db'.bal = work.bal,
           \/ work'.rows = db.rows /\ work'.bal = db.bal
           \/ work'.rows = work.rows /\ work'.bal = work.bal
    PROVE  BalanceInv'
BY DEF BalanceInv, AddsUp

LEMMA BalanceStep == TypeOK /\ BalanceInv /\ [Next]_vars => BalanceInv'
<1> SUFFICES ASSUME TypeOK, BalanceInv, [Next]_vars PROVE BalanceInv'
  OBVIOUS
<1>1. CASE CloseLedger
  BY <1>1, BalanceKept DEF CloseLedger
<1>2. CASE Start \/ Stop
  BY <1>2, BalanceKept DEF Start, Stop, tableVars
<1>3. CASE Crash
  BY <1>3, BalanceKept DEF Crash, Rollback
<1>4. CASE ExpireStreams
  <2>1. db'.rows = db.rows /\ db'.bal = db.bal /\ work' = db'
    BY <1>4 DEF ExpireStreams, TypeOK, Tables
  <2>2. QED BY <2>1, BalanceKept
<1>5. ASSUME NEW l \in Slots, TickStep(l) PROVE BalanceInv'
  <2>1. CASE \/ Fire(l) \/ ReadCursor(l) \/ FetchEvents(l) \/ FetchLatestLedger(l)
             \/ ProcessPage(l) \/ AdvanceCursor(l)
    <3>1. UNCHANGED <<db, work>>
      BY <2>1 DEF Fire, ReadCursor, FetchEvents, FetchLatestLedger, ProcessPage,
                  AdvanceCursor, tableVars
    <3>2. QED BY <3>1, BalanceKept
  <2>2. CASE BeginTxn(l)
    BY <2>2, BalanceKept DEF BeginTxn
  <2>3. CASE ApplyEvent(l)
    <3> DEFINE ev == page[l][at + 1]
    <3>1. ev \in Event
      BY <2>3 DEF ApplyEvent, TypeOK
    <3>2. db' = db /\ (work' = work \/ work' = Applied(work, ev))
      BY <2>3 DEF ApplyEvent
    <3> HIDE DEF ev
    <3>3. CASE work' = work
      BY <3>2, <3>3, BalanceKept
    <3>4. CASE work' = Applied(work, ev)
      <4>1. work \in Tables
        BY DEF TypeOK
      <4>2. IsFiniteSet(Applied(work, ev).rows) /\ AddsUp(Applied(work, ev))
        BY <3>1, <4>1, AppliedAddsUp DEF BalanceInv
      <4>3. IsFiniteSet(work'.rows) /\ AddsUp(work)'
        BY <3>4, <4>2 DEF AddsUp
      <4>4. IsFiniteSet(db'.rows) /\ AddsUp(db)'
        BY <3>2 DEF BalanceInv, AddsUp
      <4>5. QED BY <4>3, <4>4 DEF BalanceInv
    <3>5. QED BY <3>2, <3>3, <3>4
  <2>4. CASE RaiseEvent(l)
    BY <2>4, BalanceKept DEF RaiseEvent, Rollback
  <2>5. CASE CommitTxn(l)
    BY <2>5, BalanceKept DEF CommitTxn
  <2>6. QED BY <1>5, <2>1, <2>2, <2>3, <2>4, <2>5 DEF TickStep
<1>6. ASSUME NEW l \in Slots, TickFails(l) PROVE BalanceInv'
  BY <1>6, BalanceKept DEF TickFails, tableVars
<1>7. ASSUME NEW l \in Slots, ConnectionLost(l) PROVE BalanceInv'
  BY <1>7, BalanceKept DEF ConnectionLost, Rollback
<1>8. CASE UNCHANGED vars
  BY <1>8, BalanceKept DEF vars
<1>9. QED BY <1>1, <1>2, <1>3, <1>4, <1>5, <1>6, <1>7, <1>8 DEF Next

\* The balances a client reads are what the persisted events add up to, for
\* every chain, every fault pattern and every number of loops: what
\* upsertStreamEvents inserts and what it adds are one and the same.
THEOREM BalancesAddUp == Spec => []BalancesMatchEvents
<1>1. BalanceInv => BalancesMatchEvents
  BY DEF BalanceInv, AddsUp, BalancesMatchEvents
<1>2. QED BY <1>1, TypeCorrect, BalanceInitial, BalanceStep, PTL DEF Spec

\* Types, the bookkeeping of the open transaction and the balances together.
THEOREM PersistenceHolds == Spec => []PersistenceInv
<1>1. TypeOK /\ TxnInv /\ BalancesMatchEvents => PersistenceInv
  BY DEF PersistenceInv
<1>2. QED BY <1>1, TypeCorrect, TransactionInvariant, BalancesAddUp, PTL

-----------------------------------------------------------------------------
(* What never goes back.                                                   *)

\* An open transaction is ahead of the committed statuses by cancellations
\* the trigger accepted, and by nothing else.
StatusAhead ==
    \A r \in Recipients :
        \/ work.status[r] = db.status[r]
        \/ db.status[r] \in {"active", "pre_cliff"} /\ work.status[r] = "cancelled"

\* One step of the committed status column.
StatusStep(r) ==
    db'.status[r] # db.status[r] =>
        /\ db.status[r] \in Status
        /\ IsValidTransition(db.status[r], db'.status[r])

LEMMA ForwardTransitions ==
    ASSUME NEW status \in {"active", "pre_cliff"}, NEW later \in {"cancelled", "expired"}
    PROVE  status \in Status /\ IsValidTransition(status, later)
BY DEF IsValidTransition, VALID_TRANSITIONS, Status

\* A commit publishes what the transaction is ahead by, a rollback drops it.
LEMMA AheadPublished ==
    ASSUME StatusAhead, db' = db \/ db' = work, work' = db' \/ (db' = db /\ work' = work)
    PROVE  StatusAhead' /\ \A r \in Recipients : StatusStep(r)
<1>1. StatusAhead'
  BY DEF StatusAhead
<1>2. ASSUME NEW r \in Recipients PROVE StatusStep(r)
  BY ForwardTransitions DEF StatusAhead, StatusStep
<1>3. QED BY <1>1, <1>2

LEMMA AheadStep ==
    TypeOK /\ TxnInv /\ StatusAhead /\ [Next]_vars
        => StatusAhead' /\ \A r \in Recipients : StatusStep(r)
<1> SUFFICES ASSUME TypeOK, TxnInv, StatusAhead, [Next]_vars
             PROVE  StatusAhead' /\ \A r \in Recipients : StatusStep(r)
  OBVIOUS
<1>1. CASE UNCHANGED <<db, work>>
  BY <1>1, AheadPublished
<1>2. CASE CloseLedger \/ Start \/ Stop
  BY <1>1, <1>2 DEF CloseLedger, Start, Stop, tableVars
<1>3. CASE Crash
  BY <1>3, AheadPublished DEF Crash, Rollback
<1>4. CASE ExpireStreams
  <2> DEFINE expires(c, r) == /\ db.status[r] \in {"active", "pre_cliff"}
                              /\ EndLedger[r] < c
             S(c) == [r \in Recipients |-> IF expires(c, r) THEN "expired" ELSE db.status[r]]
  <2>1. PICK c \in 1..tip : db' = [db EXCEPT !.status = S(c)]
    BY <1>4 DEF ExpireStreams
  <2>2. work' = db'
    BY <1>4 DEF ExpireStreams
  <2>3. db'.status = S(c)
    BY <2>1 DEF TypeOK, Tables
  <2>4. ASSUME NEW r \in Recipients PROVE StatusStep(r)
    <3>1. \/ db'.status[r] = db.status[r]
          \/ db.status[r] \in {"active", "pre_cliff"} /\ db'.status[r] = "expired"
      BY <2>3
    <3>2. QED BY <3>1, ForwardTransitions DEF StatusStep
  <2>5. QED BY <2>2, <2>4 DEF StatusAhead
<1>5. ASSUME NEW l \in Slots, TickStep(l)
      PROVE  StatusAhead' /\ \A r \in Recipients : StatusStep(r)
  <2>1. CASE \/ Fire(l) \/ ReadCursor(l) \/ FetchEvents(l) \/ FetchLatestLedger(l)
             \/ ProcessPage(l) \/ AdvanceCursor(l) \/ BeginTxn(l)
    <3>1. UNCHANGED <<db, work>>
      BY <2>1 DEF Fire, ReadCursor, FetchEvents, FetchLatestLedger, ProcessPage,
                  AdvanceCursor, BeginTxn, tableVars
    <3>2. QED BY <1>1, <3>1
  <2>2. CASE ApplyEvent(l)
    <3> DEFINE ev == page[l][at + 1]
               t == ev.recipient
    <3>1. ev \in Event
      BY <2>2 DEF ApplyEvent, TypeOK
    <3>2. db' = db /\ (work' = work \/ (~Raises(work, ev) /\ work' = Applied(work, ev)))
      BY <2>2 DEF ApplyEvent
    <3> HIDE DEF ev
    <3>3. CASE work' = work
      BY <1>1, <3>2, <3>3
    <3>4. CASE ~Raises(work, ev) /\ work' = Applied(work, ev)
      <4>1. work.status \in [Recipients -> Status \cup {Absent}] /\ t \in Recipients
        BY <3>1 DEF TypeOK, Tables, Event
      <4>2. CASE ev.type # "StreamCancelled"
        <5>1. work'.status = work.status
          BY <3>4, <4>2 DEF Applied
        <5>2. QED BY <3>2, <5>1 DEF StatusAhead, StatusStep
      <4>3. CASE ev.type = "StreamCancelled"
        <5>1. work'.status = [work.status EXCEPT ![t] = CancelledStatus(@)]
          BY <3>4, <4>3 DEF Applied
        <5>2. work.status[t] = Absent \/ TriggerAllows(work.status[t], "cancelled")
          BY <3>4, <4>3 DEF Raises
        <5>3. \/ work'.status[t] = work.status[t]
              \/ work.status[t] \in {"active", "pre_cliff"} /\ work'.status[t] = "cancelled"
          BY <4>1, <5>1, <5>2 DEF CancelledStatus, TriggerAllows, Absent
        <5>4. \A r \in Recipients : r # t => work'.status[r] = work.status[r]
          BY <4>1, <5>1
        <5>5. StatusAhead'
          BY <3>2, <5>3, <5>4 DEF StatusAhead
        <5>6. QED BY <3>2, <5>5 DEF StatusStep
      <4>4. QED BY <4>2, <4>3
    <3>5. QED BY <3>2, <3>3, <3>4
  <2>3. CASE RaiseEvent(l)
    BY <2>3, AheadPublished DEF RaiseEvent, Rollback
  <2>4. CASE CommitTxn(l)
    BY <2>4, AheadPublished DEF CommitTxn
  <2>5. QED BY <1>5, <2>1, <2>2, <2>3, <2>4 DEF TickStep
<1>6. ASSUME NEW l \in Slots, TickFails(l)
      PROVE  StatusAhead' /\ \A r \in Recipients : StatusStep(r)
  BY <1>1, <1>6 DEF TickFails, tableVars
<1>7. ASSUME NEW l \in Slots, ConnectionLost(l)
      PROVE  StatusAhead' /\ \A r \in Recipients : StatusStep(r)
  BY <1>7, AheadPublished DEF ConnectionLost, Rollback
<1>8. CASE UNCHANGED vars
  BY <1>1, <1>8 DEF vars
<1>9. QED BY <1>2, <1>3, <1>4, <1>5, <1>6, <1>7, <1>8 DEF Next

\* Whoever writes the status column, the indexer inside a transaction or the
\* expiry job between two, and however many loops and crashes there are, it
\* only moves along the transition table.
THEOREM StatusesMoveForward == Spec => StatusOnlyMovesForward
<1>1. Init => StatusAhead
  BY DEF Init, StatusAhead
<1>2. TypeOK /\ TxnInv /\ StatusAhead /\ [Next]_vars
        => [\A r \in Recipients :
              db'.status[r] # db.status[r] =>
                 /\ db.status[r] \in Status
                 /\ IsValidTransition(db.status[r], db'.status[r])]_vars
  BY AheadStep DEF StatusStep
<1>3. TypeOK /\ TxnInv /\ StatusAhead /\ [Next]_vars => StatusAhead'
  BY AheadStep
<1>4. QED
  BY <1>1, <1>2, <1>3, TypeCorrect, TransactionInvariant, PTL DEF Spec, StatusOnlyMovesForward

\* Between reading the cursor and writing it, a tick's token is the saved one.
TokenCurrent ==
    \A l \in Slots :
        pc[l] \in {"fetch", "events", "ledger", "process", "begin", "txn", "advance"}
            => cursor = Null \/ from[l] = cursor

\* With a single loop nobody else writes the cursor.
LEMMA TokenStep ==
    ASSUME \A k, l \in Slots : k = l
    PROVE  TypeOK /\ TxnInv /\ TokenCurrent /\ [Next]_vars
             => TokenCurrent' /\ (cursor' # cursor => cursor' >= cursor)
<1> SUFFICES ASSUME TypeOK, TxnInv, TokenCurrent, [Next]_vars
             PROVE  TokenCurrent' /\ (cursor' # cursor => cursor' >= cursor)
  OBVIOUS
<1> USE DEF TokenCurrent, TypeOK
<1>1. CASE CloseLedger \/ ExpireStreams
  BY <1>1 DEF CloseLedger, ExpireStreams, tickVars
<1>2. CASE Start
  BY <1>2 DEF Start, tickVars
<1>3. CASE Stop
  BY <1>3 DEF Stop, tickVars
<1>4. CASE Crash
  BY <1>4 DEF Crash
<1>5. ASSUME NEW l \in Slots, EndTick(l), cursor' = cursor
      PROVE  TokenCurrent' /\ (cursor' # cursor => cursor' >= cursor)
  BY <1>5 DEF EndTick
<1>6. ASSUME NEW l \in Slots, TickStep(l)
      PROVE  TokenCurrent' /\ (cursor' # cursor => cursor' >= cursor)
  <2>1. CASE Fire(l)
    BY <2>1 DEF Fire, tickVars
  <2>2. CASE ReadCursor(l)
    BY <2>2 DEF ReadCursor
  <2>3. CASE FetchEvents(l)
    BY <2>3 DEF FetchEvents
  <2>4. CASE FetchLatestLedger(l)
    BY <2>4 DEF FetchLatestLedger
  <2>5. CASE ProcessPage(l)
    BY <2>5 DEF ProcessPage, tickVars
  <2>6. CASE BeginTxn(l)
    BY <2>6 DEF BeginTxn, tickVars
  <2>7. CASE ApplyEvent(l)
    BY <2>7 DEF ApplyEvent, tickVars
  <2>8. CASE RaiseEvent(l)
    BY <1>5, <2>8 DEF RaiseEvent
  <2>9. CASE CommitTxn(l)
    <3>1. cursor' = cursor /\ UNCHANGED from /\ pc[l] = "txn"
      BY <2>9 DEF CommitTxn, tickVars, TxnInv
    <3>2. QED BY <2>9, <3>1 DEF CommitTxn
  <2>10. CASE AdvanceCursor(l)
    <3>1. EndTick(l) /\ pc[l] = "advance"
      BY <2>10 DEF AdvanceCursor
    <3>2. cursor = Null \/ from[l] = cursor
      BY <3>1
    <3>3. Len(page[l]) \in Nat
      OBVIOUS
    <3>4. cursor' # cursor => cursor' >= cursor
      BY <2>10, <3>2, <3>3 DEF AdvanceCursor
    <3>5. \A k \in Slots : pc'[k] \in {"timer", "free"}
      BY <3>1 DEF EndTick
    <3>6. QED BY <3>4, <3>5
  <2>11. QED BY <1>6, <2>1, <2>2, <2>3, <2>4, <2>5, <2>6, <2>7, <2>8, <2>9, <2>10 DEF TickStep
<1>7. ASSUME NEW l \in Slots, TickFails(l) \/ ConnectionLost(l)
      PROVE  TokenCurrent' /\ (cursor' # cursor => cursor' >= cursor)
  BY <1>5, <1>7 DEF TickFails, ConnectionLost
<1>8. CASE UNCHANGED vars
  BY <1>8 DEF vars
<1>9. QED BY <1>1, <1>2, <1>3, <1>4, <1>6, <1>7, <1>8 DEF Next

\* With a single poll loop neither a status nor the cursor ever goes back.
\* (Two loops do move the cursor back: start() after stop() leaves the old
\* tick running.)
THEOREM NothingGoesBack ==
    ASSUME \A k, l \in Slots : k = l
    PROVE  Spec => ForwardOnly
<1>1. Init => TokenCurrent
  BY DEF Init, TokenCurrent
<1>2. TypeOK /\ TxnInv /\ TokenCurrent /\ [Next]_vars => [cursor' >= cursor]_cursor
  BY TokenStep
<1>3. TypeOK /\ TxnInv /\ TokenCurrent /\ [Next]_vars => TokenCurrent'
  BY TokenStep
<1>4. Spec => CursorNeverRegresses
  BY <1>1, <1>2, <1>3, TypeCorrect, TransactionInvariant, PTL DEF Spec, CursorNeverRegresses
<1>5. QED BY <1>4, StatusesMoveForward, PTL DEF ForwardOnly

=============================================================================
