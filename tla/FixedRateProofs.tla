--------------------------- MODULE FixedRateProofs ---------------------------
(***************************************************************************)
(* For every set of sponsors, recipients, legacy rows, arguments and       *)
(* settings: the claim pointer of a fixed-rate stream never leaves its     *)
(* bounds, the stream accrues exactly its running time, claims never       *)
(* exceed what was earned, every payment and the view report exactly that, *)
(* and a sponsor finds its streams in the index.                           *)
(***************************************************************************)
EXTENDS FixedRateAccrual, TLAPS

\* What the inductive invariant says of one row at ledger l after n ledgers
\* of running time.
RowOK(s, l, n) ==
    /\ s.rate > 0
    /\ s.start <= s.last
    /\ s.last <= MinOf(IF s.paused # NotPaused THEN s.paused ELSE l, s.end)
    /\ s.cliff <= s.end
    /\ s.paused <= l
    /\ s.claimed = (s.last - s.start) * s.rate
    /\ MinOf(IF s.paused # NotPaused THEN s.paused ELSE l, s.end) - s.start = n

RowsOK == \A r \in Recipients : Live(r) => RowOK(GetScheduleById(r), ledger, active[r])

LEMMA LedgerFacts == U32Max \in Nat /\ MaxLedger \in Nat /\ MaxLedger <= U32Max /\ MaxLedger >= 1
BY LedgerAssumption

\* The row a lookup by id finds is well typed.
LEMMA RowType ==
    ASSUME TypeOK, NEW r \in Recipients, Live(r)
    PROVE  GetScheduleById(r) \in ScheduleRow
BY DEF TypeOK, Live, GetScheduleById

\* The invariant row by row is the conjunction of PointerInv and AccrualInv.
LEMMA RowsOKMeaning == TypeOK => (RowsOK <=> PointerInv /\ AccrualInv)
<1> SUFFICES ASSUME TypeOK, NEW r \in Recipients, Live(r)
             PROVE  RowOK(GetScheduleById(r), ledger, active[r])
                      <=> /\ PointerOK(GetScheduleById(r))
                          /\ ActiveEnd(GetScheduleById(r)) - GetScheduleById(r).start = active[r]
  BY DEF RowsOK, PointerInv, AccrualInv
<1> DEFINE s == GetScheduleById(r)
<1>1. s \in ScheduleRow
  BY RowType
<1>2. ledger \in Nat
  BY LedgerFacts DEF TypeOK
<1> HIDE DEF s
<1>3. s.paused = NotPaused => s.paused <= ledger
  BY <1>2 DEF NotPaused
<1>4. RowOK(s, ledger, active[r])
        <=> PointerOK(s) /\ ActiveEnd(s) - s.start = active[r]
  BY <1>1, <1>2, <1>3, Zenon DEF RowOK, PointerOK, ActiveEnd, EffectiveLedger, Paused
<1>5. QED BY <1>4 DEF s

-----------------------------------------------------------------------------
(* One row.                                                                *)

\* A ledger closes.
LEMMA RowTick ==
    ASSUME NEW s \in ScheduleRow, NEW l \in Nat, NEW n \in Nat, RowOK(s, l, n)
    PROVE  RowOK(s, l + 1, IF s.paused = NotPaused /\ l < s.end THEN n + 1 ELSE n)
BY LedgerFacts DEF RowOK, MinOf, ScheduleRow, NotPaused

\* A product split at a point between its ends.
LEMMA Split ==
    ASSUME NEW a \in Int, NEW b \in Int, NEW c \in Int, NEW k \in Int
    PROVE  (c - a) * k = (b - a) * k + (c - b) * k
OBVIOUS

\* The rows that a claim of `amount`, a pause and a resume leave behind.
AfterClaim(s, l, v, amount) ==
    [s EXCEPT !.version = v, !.last = MinOf(l, s.end), !.claimed = s.claimed + amount]

AfterPause(s, l, v) == [s EXCEPT !.version = v, !.paused = l]

AfterResume(s, l, v) ==
    LET d == l - s.paused
    IN  [s EXCEPT !.acc = SaturatingAdd(s.acc, d), !.start = SaturatingAdd(s.start, d),
                  !.cliff = SaturatingAdd(s.cliff, d), !.end = SaturatingAdd(s.end, d),
                  !.last = SaturatingAdd(s.last, d), !.paused = NotPaused, !.version = v]

\* A claim pays up to the end of the running time.
LEMMA RowClaim ==
    ASSUME NEW s \in ScheduleRow, NEW l \in Nat, NEW n \in Nat, RowOK(s, l, n),
           s.paused = NotPaused, NEW v \in Nat,
           NEW amount, amount = IF l >= s.end THEN (s.end - s.start) * s.rate - s.claimed
                                ELSE (MinOf(l, s.end) - s.last) * s.rate
    PROVE  /\ AfterClaim(s, l, v, amount) \in ScheduleRow
           /\ RowOK(AfterClaim(s, l, v, amount), l, n)
           /\ amount \in Nat
<1> DEFINE e == MinOf(l, s.end)
           t == AfterClaim(s, l, v, amount)
<1>1. /\ s.start \in Int /\ s.last \in Int /\ s.end \in Int /\ s.rate \in Int /\ s.rate > 0
      /\ s.claimed \in Int
  BY LedgerFacts DEF ScheduleRow, RowOK
<1>2. e \in Int /\ s.start <= s.last /\ s.last <= e /\ e <= s.end /\ e \in 0..U32Max
  BY <1>1, LedgerFacts DEF RowOK, MinOf, ScheduleRow
<1>3. amount = (e - s.last) * s.rate
  <2>1. s.claimed = (s.last - s.start) * s.rate
    BY DEF RowOK
  <2>2. (s.end - s.start) * s.rate = (s.last - s.start) * s.rate + (s.end - s.last) * s.rate
    BY <1>1, Split
  <2>3. l >= s.end => e = s.end
    BY <1>1 DEF MinOf
  <2>4. CASE l >= s.end
    <3>1. amount = (s.end - s.start) * s.rate - s.claimed
      BY <2>4
    <3>2. (s.end - s.last) * s.rate \in Int /\ (s.last - s.start) * s.rate \in Int
      BY <1>1
    <3>3. amount = (s.end - s.last) * s.rate
      BY <3>1, <3>2, <2>1, <2>2
    <3>4. QED BY <3>3, <2>3, <2>4
  <2>5. CASE ~(l >= s.end)
    BY <2>5
  <2>6. QED BY <2>4, <2>5
<1>4. amount \in Nat
  <2>1. e - s.last \in Nat /\ s.rate \in Nat
    BY <1>1, <1>2
  <2>2. QED BY <1>3, <2>1
<1>5. s.claimed + amount = (e - s.start) * s.rate
  <2>1. s.claimed = (s.last - s.start) * s.rate
    BY DEF RowOK
  <2>2. QED BY <1>1, <1>2, <1>3, <2>1, Split
<1>6. t \in ScheduleRow
  <2>1. s.claimed + amount \in Nat
    BY <1>4 DEF ScheduleRow
  <2>2. QED BY <1>2, <2>1 DEF ScheduleRow, AfterClaim
<1>7. /\ t.rate = s.rate /\ t.start = s.start /\ t.end = s.end /\ t.cliff = s.cliff
      /\ t.paused = s.paused /\ t.last = e /\ t.claimed = s.claimed + amount
  BY DEF ScheduleRow, AfterClaim
<1> HIDE DEF t, e
<1>8. RowOK(t, l, n)
  <2>1. MinOf(IF t.paused # NotPaused THEN t.paused ELSE l, t.end) = e
    BY <1>7 DEF e
  <2>2. MinOf(IF s.paused # NotPaused THEN s.paused ELSE l, s.end) = e
    BY DEF e
  <2>3. t.start <= t.last /\ t.last <= e
    BY <1>1, <1>2, <1>7
  <2>4. t.claimed = (t.last - t.start) * t.rate
    BY <1>5, <1>7
  <2>5. QED BY <1>7, <2>1, <2>2, <2>3, <2>4, Zenon DEF RowOK
<1>9. QED BY <1>4, <1>6, <1>8 DEF t

\* A pause freezes the running time.
LEMMA RowPause ==
    ASSUME NEW s \in ScheduleRow, NEW l \in 0..U32Max, NEW n \in Nat, RowOK(s, l, n),
           s.paused = NotPaused, NEW v \in Nat
    PROVE  AfterPause(s, l, v) \in ScheduleRow /\ RowOK(AfterPause(s, l, v), l, n)
<1> DEFINE t == AfterPause(s, l, v)
<1>1. t \in ScheduleRow
  BY DEF ScheduleRow, AfterPause
<1>2. /\ t.rate = s.rate /\ t.start = s.start /\ t.end = s.end /\ t.cliff = s.cliff
      /\ t.paused = l /\ t.last = s.last /\ t.claimed = s.claimed
  BY DEF ScheduleRow, AfterPause
<1> HIDE DEF t
<1>3. t.paused # NotPaused /\ t.paused <= l
  BY <1>2, LedgerFacts DEF NotPaused
<1>4. RowOK(t, l, n)
  BY <1>2, <1>3 DEF RowOK
<1>5. QED BY <1>1, <1>4 DEF t

\* Resuming shifts every milestone; no addition of the claim pointer
\* saturates, and the end only does when the stream cannot finish anyway.
LEMMA RowResume ==
    ASSUME NEW s \in ScheduleRow, NEW l \in 0..U32Max, NEW n \in Nat, RowOK(s, l, n),
           s.paused # NotPaused, NEW v \in Nat
    PROVE  AfterResume(s, l, v) \in ScheduleRow /\ RowOK(AfterResume(s, l, v), l, n)
<1> DEFINE d == l - s.paused
           t == AfterResume(s, l, v)
<1>1. /\ s.start \in 0..U32Max /\ s.last \in 0..U32Max /\ s.end \in 0..U32Max
      /\ s.cliff \in 0..U32Max /\ s.acc \in 0..U32Max /\ s.paused \in 0..U32Max
      /\ s.rate \in Nat /\ s.claimed \in Nat
  BY DEF ScheduleRow
<1>2. /\ s.start <= s.last /\ s.last <= s.paused /\ s.last <= s.end /\ s.cliff <= s.end
      /\ s.paused <= l /\ MinOf(s.paused, s.end) - s.start = n
  BY <1>1, LedgerFacts DEF RowOK, MinOf
<1>3. d \in 0..U32Max /\ l = s.paused + d
  BY <1>1, <1>2, LedgerFacts
<1>4. \A x \in 0..U32Max : SaturatingAdd(x, d) \in 0..U32Max
  BY <1>3, LedgerFacts DEF SaturatingAdd, MinOf
<1>5. SaturatingAdd(s.start, d) = s.start + d /\ SaturatingAdd(s.last, d) = s.last + d
  BY <1>1, <1>2, <1>3, LedgerFacts DEF SaturatingAdd, MinOf
<1>6. MinOf(l, SaturatingAdd(s.end, d)) = MinOf(s.paused, s.end) + d
  BY <1>1, <1>2, <1>3, LedgerFacts DEF SaturatingAdd, MinOf
<1>7. SaturatingAdd(s.cliff, d) <= SaturatingAdd(s.end, d)
  BY <1>1, <1>2, <1>3, LedgerFacts DEF SaturatingAdd, MinOf
<1>8. /\ t.rate = s.rate /\ t.start = s.start + d /\ t.last = s.last + d
      /\ t.end = SaturatingAdd(s.end, d) /\ t.cliff = SaturatingAdd(s.cliff, d)
      /\ t.paused = NotPaused /\ t.claimed = s.claimed
  BY <1>5 DEF ScheduleRow, AfterResume
<1>9. t \in ScheduleRow
  BY <1>1, <1>4 DEF ScheduleRow, AfterResume
<1> HIDE DEF t, d
<1>10. RowOK(t, l, n)
  <2> DEFINE m == MinOf(IF t.paused # NotPaused THEN t.paused ELSE l, t.end)
  <2>1. m = MinOf(s.paused, s.end) + d
    BY <1>6, <1>8
  <2> HIDE DEF m
  <2>2. MinOf(s.paused, s.end) \in Int /\ s.last <= MinOf(s.paused, s.end)
    BY <1>1, <1>2, LedgerFacts DEF MinOf
  <2>3. (t.last - t.start) = s.last - s.start
    BY <1>1, <1>3, <1>8, LedgerFacts
  <2>4. t.claimed = (t.last - t.start) * t.rate
    BY <1>8, <2>3 DEF RowOK
  <2>5. /\ t.start <= t.last
        /\ t.last <= m
    <3>1. t.start <= t.last /\ t.last <= MinOf(s.paused, s.end) + d
      BY <1>1, <1>2, <1>3, <1>8, <2>2, LedgerFacts
    <3>2. QED BY <2>1, <3>1
  <2>6. m - t.start = n
    BY <1>1, <1>2, <1>3, <1>8, <2>1, <2>2, LedgerFacts
  <2>7. t.rate > 0 /\ t.cliff <= t.end /\ t.paused <= l
    BY <1>3, <1>7, <1>8, LedgerFacts DEF RowOK, NotPaused
  <2>8. QED BY <2>4, <2>5, <2>6, <2>7, Zenon DEF RowOK, m
<1>11. QED BY <1>9, <1>10 DEF t

\* A new stream.
LEMMA RowNew ==
    ASSUME NEW sp \in Sponsors, NEW a \in CreateArgs, ValidArgs(a), TypeOK
    PROVE  NewSchedule(sp, a) \in ScheduleRow /\ RowOK(NewSchedule(sp, a), ledger, 0)
<1>1. /\ a.rate \in Nat /\ a.rate > 0 /\ a.cliff \in Nat /\ a.total \in Nat
      /\ a.cliff < a.total /\ ledger + a.total <= U32Max /\ ledger \in Nat
  BY FixedAssumption, LedgerFacts DEF ValidArgs, TypeOK
<1>2. NewSchedule(sp, a) \in ScheduleRow
  BY <1>1, LedgerFacts DEF NewSchedule, ScheduleRow, CURRENT_SCHEMA_VERSION, NotPaused
<1>3. RowOK(NewSchedule(sp, a), ledger, 0)
  BY <1>1, LedgerFacts DEF NewSchedule, RowOK, MinOf, NotPaused
<1>4. QED BY <1>2, <1>3

-----------------------------------------------------------------------------
(* The storage keys.                                                       *)

\* The types of the two keys, and that one of them is empty.
KeysOK ==
    /\ schedule \in [Recipients -> ScheduleRow \cup {NoRow}]
    /\ scheduleById \in [Recipients -> ScheduleRow \cup {NoRow}]
    /\ OneKeyInUse

\* Storing a row makes it the recipient's and touches no other.
LEMMA SetEffect ==
    ASSUME KeysOK, NEW r \in Recipients, NEW s \in ScheduleRow, SetSchedule(r, s)
    PROVE  /\ KeysOK'
           /\ Live(r)' /\ GetScheduleById(r)' = s
           /\ \A q \in Recipients \ {r} : GetScheduleById(q)' = GetScheduleById(q)
BY FixedAssumption DEF KeysOK, OneKeyInUse, SetSchedule, GetScheduleById, Live

\* Removing a row touches no other.
LEMMA RemoveEffect ==
    ASSUME KeysOK, NEW r \in Recipients, RemoveSchedule(r)
    PROVE  /\ KeysOK'
           /\ ~Live(r)'
           /\ \A q \in Recipients \ {r} : GetScheduleById(q)' = GetScheduleById(q)
BY DEF KeysOK, OneKeyInUse, RemoveSchedule, GetScheduleById, Live

\* Moving a row.
LEMMA MoveEffect ==
    ASSUME KeysOK, NEW r \in Recipients, NEW to \in Recipients, r # to,
           NEW s \in ScheduleRow, MoveSchedule(r, to, s)
    PROVE  /\ KeysOK'
           /\ ~Live(r)' /\ GetScheduleById(to)' = s
           /\ \A q \in Recipients \ {r, to} : GetScheduleById(q)' = GetScheduleById(q)
BY FixedAssumption DEF KeysOK, OneKeyInUse, MoveSchedule, GetScheduleById, Live

\* Leaving the keys alone.
LEMMA SameEffect ==
    ASSUME UNCHANGED <<schedule, scheduleById>>
    PROVE  /\ KeysOK => KeysOK'
           /\ \A q \in Recipients : GetScheduleById(q)' = GetScheduleById(q)
           /\ \A q \in Recipients : Live(q)' <=> Live(q)
BY DEF KeysOK, OneKeyInUse, GetScheduleById, Live

-----------------------------------------------------------------------------
(* Balances.                                                               *)

LEMMA VaultIsAccount == Vault \in Accounts /\ Treasury \in Accounts /\ Vault # Treasury
                        /\ Sponsors \subseteq Accounts /\ Recipients \subseteq Accounts
                        /\ Vault \notin Sponsors /\ Vault \notin Recipients
BY AccountAssumption DEF Accounts

\* A transfer that the payer can afford keeps balances natural numbers.
LEMMA MovedType ==
    ASSUME NEW b \in [Accounts -> Nat], NEW x \in Accounts, NEW y \in Accounts, NEW a \in Nat,
           b[x] >= a, x # y
    PROVE  /\ Moved(b, x, y, a) \in [Accounts -> Nat]
           /\ Moved(b, x, y, a)[x] = b[x] - a
           /\ Moved(b, x, y, a)[y] = b[y] + a
BY DEF Moved

\* A fee is never more than the amount it is taken from.
LEMMA FeeBound ==
    ASSUME config \in Config, NEW a \in Nat
    PROVE  Fee(a) \in Nat /\ Fee(a) <= a
<1> DEFINE f == config.feeBps
<1>1. f \in Nat /\ f <= 10000
  <2>1. config.feeBps \in 0..MaxFeeBps
    BY DEF Config
  <2>2. MaxFeeBps \in Nat /\ MaxFeeBps <= 10000
    BY FixedAssumption DEF BPS
  <2>3. f \in 0..MaxFeeBps
    BY <2>1
  <2> HIDE DEF f
  <2>4. QED BY <2>2, <2>3
<1> HIDE DEF f
<1>2. a * f \in Nat /\ a * f <= a * 10000
  <2>1. (10000 - 0) * a = (f - 0) * a + (10000 - f) * a
    BY <1>1, Split
  <2>2. 10000 - f \in Nat
    BY <1>1
  <2>3. (10000 - f) * a \in Nat /\ f * a \in Nat
    BY <1>1, <2>2
  <2>4. QED BY <1>1, <2>1, <2>3
<1> DEFINE p == a * f
<1>3. p \in Nat /\ p <= a * 10000
  BY <1>2
<1> HIDE DEF p
<1>4. p \div 10000 \in Nat /\ p \div 10000 <= a
  BY <1>3
<1>5. QED BY <1>4 DEF Fee, BPS, p, f

-----------------------------------------------------------------------------
(* The inductive invariant.                                                *)

IInv == TypeOK /\ OneKeyInUse /\ RowsOK

LEMMA KeysOfInv == IInv => KeysOK
BY DEF IInv, KeysOK, TypeOK

\* A step that stores one good row preserves the invariant of the rows.
LEMMA RowsSet ==
    ASSUME IInv, NEW r \in Recipients, NEW s \in ScheduleRow, SetSchedule(r, s),
           ledger' = ledger, \A q \in Recipients \ {r} : active'[q] = active[q],
           RowOK(s, ledger, active'[r])
    PROVE  KeysOK' /\ RowsOK'
<1>1. /\ KeysOK' /\ GetScheduleById(r)' = s
      /\ \A q \in Recipients \ {r} : GetScheduleById(q)' = GetScheduleById(q)
  BY SetEffect, KeysOfInv
<1>2. SUFFICES ASSUME NEW q \in Recipients, Live(q)'
               PROVE  RowOK(GetScheduleById(q)', ledger', active'[q])
  BY <1>1 DEF RowsOK
<1>3. CASE q = r
  BY <1>1, <1>3
<1>4. CASE q # r
  BY <1>1, <1>2, <1>4 DEF IInv, RowsOK, Live
<1>5. QED BY <1>3, <1>4

\* So does one that removes a row.
LEMMA RowsRemove ==
    ASSUME IInv, NEW r \in Recipients, RemoveSchedule(r), ledger' = ledger, active' = active
    PROVE  KeysOK' /\ RowsOK'
<1>1. /\ KeysOK' /\ ~Live(r)'
      /\ \A q \in Recipients \ {r} : GetScheduleById(q)' = GetScheduleById(q)
  BY RemoveEffect, KeysOfInv
<1>2. SUFFICES ASSUME NEW q \in Recipients, Live(q)'
               PROVE  RowOK(GetScheduleById(q)', ledger', active'[q])
  BY <1>1 DEF RowsOK
<1>3. QED BY <1>1, <1>2 DEF IInv, RowsOK, Live

\* And one that leaves the rows alone.
LEMMA RowsSame ==
    ASSUME IInv, UNCHANGED <<schedule, scheduleById, ledger, active>>
    PROVE  KeysOK' /\ RowsOK'
BY SameEffect, KeysOfInv DEF IInv, RowsOK, Live

\* What TypeOK adds to the types of the keys.
RestOK ==
    /\ ledger \in 1..MaxLedger
    /\ balance \in [Accounts -> Nat]
    /\ sponsorStreams \in [Sponsors -> SUBSET Recipients]
    /\ config \in Config
    /\ active \in [Recipients -> Nat]

LEMMA InvParts == IInv <=> RestOK /\ KeysOK /\ RowsOK
BY DEF IInv, TypeOK, RestOK, KeysOK

\* The facts about a live row that the actions use.
LEMMA LiveRow ==
    ASSUME IInv, NEW r \in Recipients, Live(r), NEW s, s = GetScheduleById(r)
    PROVE  /\ s \in ScheduleRow /\ RowOK(s, ledger, active[r])
           /\ ledger \in 0..U32Max /\ ledger \in Nat /\ active[r] \in Nat
<1>1. s \in ScheduleRow /\ RowOK(s, ledger, active[r])
  BY RowType DEF IInv, RowsOK
<1>2. ledger \in 1..MaxLedger /\ active[r] \in Nat
  BY DEF IInv, TypeOK
<1>3. QED BY <1>1, <1>2, LedgerFacts

\* What get_schedule finds is the live row, migrated.
LEMMA LegacyLookup ==
    ASSUME IInv, NEW r \in Recipients, NEW s, s = GetSchedule(r), s # NoRow
    PROVE  /\ Live(r) /\ s \in ScheduleRow /\ RowOK(s, ledger, active[r])
           /\ ledger \in 0..U32Max /\ ledger \in Nat /\ active[r] \in Nat
<1> DEFINE t == schedule[r]
<1>1. t # NoRow /\ s = Migrated(t)
  BY DEF GetSchedule
<1>2. Live(r) /\ GetScheduleById(r) = t
  BY <1>1 DEF IInv, OneKeyInUse, GetScheduleById, Live
<1>3. /\ t \in ScheduleRow /\ RowOK(t, ledger, active[r])
      /\ ledger \in 0..U32Max /\ ledger \in Nat /\ active[r] \in Nat
  BY <1>2, LiveRow
<1> HIDE DEF t
<1>4. /\ s \in ScheduleRow /\ s.rate = t.rate /\ s.start = t.start /\ s.end = t.end
      /\ s.cliff = t.cliff /\ s.paused = t.paused /\ s.last = t.last /\ s.claimed = t.claimed
  BY <1>1, <1>3 DEF Migrated, ScheduleRow, CURRENT_SCHEMA_VERSION, MaxOf
<1>5. RowOK(s, ledger, active[r])
  BY <1>3, <1>4 DEF RowOK
<1>6. QED BY <1>2, <1>3, <1>4, <1>5

\* What is due to the recipient, and what is left, are natural numbers.
LEMMA AmountsNat ==
    ASSUME NEW s \in ScheduleRow, NEW n \in Nat, RowOK(s, ledger, n), ledger \in Nat
    PROVE  /\ (s.end - s.last) * s.rate \in Nat
           /\ TotalDeposited(s) - s.claimed = (s.end - s.last) * s.rate
           /\ EarnedAtCancel(s) \in Nat
<1>1. /\ s.start \in Int /\ s.last \in Int /\ s.end \in Int /\ s.rate \in Nat
      /\ s.claimed = (s.last - s.start) * s.rate
  BY LedgerFacts DEF ScheduleRow, RowOK
<1>2. s.end - s.last \in Nat /\ ActiveEnd(s) - s.last \in Nat
  BY <1>1, LedgerFacts DEF RowOK, MinOf, ActiveEnd, EffectiveLedger, Paused, ScheduleRow, NotPaused
<1>3. (s.end - s.last) * s.rate \in Nat /\ (ActiveEnd(s) - s.last) * s.rate \in Nat
  BY <1>1, <1>2
<1>4. (s.end - s.start) * s.rate = (s.last - s.start) * s.rate + (s.end - s.last) * s.rate
  BY <1>1, Split
<1>5. (s.last - s.start) * s.rate \in Int
  BY <1>1
<1>6. TotalDeposited(s) - s.claimed = (s.end - s.last) * s.rate
  BY <1>1, <1>3, <1>4, <1>5 DEF TotalDeposited
<1>7. EarnedAtCancel(s) \in Nat
  BY <1>3 DEF EarnedAtCancel
<1>8. QED BY <1>3, <1>6, <1>7

LEMMA InitInv == HInit => IInv
<1> SUFFICES ASSUME HInit PROVE IInv
  OBVIOUS
<1> USE DEF HInit, Init
<1>1. schedule \in [Recipients -> ScheduleRow \cup {NoRow}]
  BY LegacyAssumption
<1>2. OneKeyInUse
  BY DEF OneKeyInUse
<1>3. \A r \in Recipients : GetScheduleById(r) = schedule[r]
  BY DEF GetScheduleById
<1>4. ASSUME NEW r \in Recipients, Live(r)
      PROVE  /\ ActiveEnd(schedule[r]) - schedule[r].start \in Nat
             /\ RowOK(schedule[r], FirstLedger, ActiveEnd(schedule[r]) - schedule[r].start)
  <2> DEFINE s == schedule[r]
  <2>1. s \in LegacyRows
    BY <1>3, <1>4 DEF Live
  <2> HIDE DEF s
  <2>2. /\ s \in ScheduleRow
        /\ s.rate > 0 /\ s.start <= s.last /\ s.last <= s.end /\ s.cliff <= s.end
        /\ s.last <= (IF s.paused # NotPaused THEN s.paused ELSE FirstLedger)
        /\ s.paused <= FirstLedger
        /\ s.claimed = (s.last - s.start) * s.rate
    BY <2>1, LegacyAssumption
  <2>3. FirstLedger \in Nat
    BY FixedAssumption, LedgerFacts
  <2>4. ActiveEnd(s) = MinOf(IF s.paused # NotPaused THEN s.paused ELSE FirstLedger, s.end)
    BY DEF ActiveEnd, EffectiveLedger, Paused
  <2>5. s.last <= ActiveEnd(s) /\ ActiveEnd(s) - s.start \in Nat
    BY <2>2, <2>3, <2>4, LedgerFacts DEF MinOf, ScheduleRow, NotPaused
  <2>6. RowOK(s, FirstLedger, ActiveEnd(s) - s.start)
    BY <2>2, <2>4, <2>5 DEF RowOK
  <2>7. QED BY <2>5, <2>6 DEF s
<1>5. RowsOK
  BY <1>3, <1>4 DEF RowsOK
<1>6. active \in [Recipients -> Nat]
  BY <1>4
<1>7. balance \in [Accounts -> Nat]
  BY FixedAssumption
<1>8. ledger \in 1..MaxLedger /\ config \in Config
  BY FixedAssumption
<1>9. sponsorStreams \in [Sponsors -> SUBSET Recipients]
  OBVIOUS
<1>10. scheduleById \in [Recipients -> ScheduleRow \cup {NoRow}]
  OBVIOUS
<1>11. QED BY <1>1, <1>2, <1>5, <1>6, <1>7, <1>8, <1>9, <1>10 DEF IInv, TypeOK

-----------------------------------------------------------------------------
(* One lemma per operation.                                                *)

LEMMA TickStep == IInv /\ HTick => IInv'
<1> SUFFICES ASSUME IInv, HTick PROVE IInv'
  OBVIOUS
<1> USE DEF HTick, Tick, CloseLedger, fixedVars
<1>1. KeysOK' /\ \A q \in Recipients : GetScheduleById(q)' = GetScheduleById(q)
  BY SameEffect, KeysOfInv
<1>2. ledger \in Nat /\ ledger' = ledger + 1 /\ ledger' \in 1..MaxLedger
  BY LedgerFacts DEF IInv, TypeOK
<1>3. ASSUME NEW r \in Recipients, Live(r)'
      PROVE  RowOK(GetScheduleById(r)', ledger', active'[r])
  <2> DEFINE s == GetScheduleById(r)
  <2>1. Live(r) /\ GetScheduleById(r)' = s
    BY <1>1, <1>3 DEF Live
  <2>2. s \in ScheduleRow /\ RowOK(s, ledger, active[r]) /\ active[r] \in Nat
    BY <2>1, LiveRow
  <2>3. RowOK(s, ledger + 1,
              IF s.paused = NotPaused /\ ledger < s.end THEN active[r] + 1 ELSE active[r])
    BY <1>2, <2>2, RowTick
  <2>4. active'[r] = IF s.paused = NotPaused /\ ledger < s.end THEN active[r] + 1 ELSE active[r]
    BY <2>1 DEF Running, Paused
  <2>5. QED BY <1>2, <2>1, <2>3, <2>4
<1>4. RowsOK'
  BY <1>3 DEF RowsOK
<1>5. RestOK'
  BY <1>2 DEF IInv, TypeOK, RestOK
<1>6. QED BY <1>1, <1>4, <1>5, InvParts DEF IInv, TypeOK, RestOK, KeysOK

\* IInv' from its parts.
LEMMA InvPartsNext == RestOK' /\ KeysOK' /\ RowsOK' => IInv'
BY DEF IInv, TypeOK, RestOK, KeysOK

\* A token count divided by the scale is a token count.
LEMMA DepositNat ==
    ASSUME NEW rate \in Nat, NEW d \in Nat
    PROVE  CalculateTotalDeposit(rate, d) \in Nat
<1> DEFINE p == rate * d
<1>1. p \in Nat
  OBVIOUS
<1> HIDE DEF p
<1>2. p \div RateDecimals \in Nat
  BY <1>1, FixedAssumption
<1>3. QED BY <1>2 DEF CalculateTotalDeposit, p

LEMMA CreateStep ==
    ASSUME IInv, NEW sp \in Sponsors, NEW r \in Recipients, NEW a \in CreateArgs,
           CreateVestingStream(sp, r, a), active' = [active EXCEPT ![r] = 0]
    PROVE  IInv'
<1> USE DEF CreateVestingStream
<1>1. NewSchedule(sp, a) \in ScheduleRow /\ RowOK(NewSchedule(sp, a), ledger, 0)
  BY RowNew DEF IInv
<1>2. active'[r] = 0 /\ active' \in [Recipients -> Nat]
      /\ \A q \in Recipients \ {r} : active'[q] = active[q]
  BY DEF IInv, TypeOK
<1>3. KeysOK' /\ RowsOK'
  BY <1>1, <1>2, RowsSet
<1>4. balance' \in [Accounts -> Nat]
  <2> DEFINE deposit == CalculateTotalDeposit(a.rate, a.total)
             paid == Moved(balance, sp, Vault, deposit)
  <2>1. a.rate \in Nat /\ a.total \in Nat
    BY FixedAssumption, LedgerFacts DEF ValidArgs
  <2>2. deposit \in Nat
    BY <2>1, DepositNat
  <2>3. balance \in [Accounts -> Nat] /\ config \in Config
    BY DEF IInv, TypeOK
  <2>4. sp \in Accounts /\ sp # Vault /\ balance[sp] >= deposit
    BY VaultIsAccount DEF CanPay
  <2>5. balance' = Moved(paid, Vault, Treasury, Fee(deposit))
    OBVIOUS
  <2> HIDE DEF deposit
  <2>6. paid \in [Accounts -> Nat] /\ paid[Vault] = balance[Vault] + deposit
    BY <2>2, <2>3, <2>4, MovedType, VaultIsAccount
  <2>7. Fee(deposit) \in Nat /\ Fee(deposit) <= deposit
    BY <2>2, <2>3, FeeBound
  <2>8. paid[Vault] >= Fee(deposit)
    BY <2>2, <2>3, <2>6, <2>7, VaultIsAccount
  <2> HIDE DEF paid
  <2>9. QED BY <2>5, <2>6, <2>7, <2>8, MovedType, VaultIsAccount
<1>5. sponsorStreams' \in [Sponsors -> SUBSET Recipients]
  BY DEF AddSponsorStream, IInv, TypeOK
<1>6. RestOK'
  BY <1>2, <1>4, <1>5 DEF RestOK, IInv, TypeOK
<1>7. QED BY <1>3, <1>6, InvPartsNext

LEMMA ClaimStep ==
    ASSUME IInv, NEW r \in Recipients, ClaimVested(r), active' = active
    PROVE  IInv'
<1> DEFINE s      == GetScheduleById(r)
           amount == Claimable(s)
           paid   == Moved(balance, Vault, Treasury, Fee(amount))
           next   == [IncrementVersion(s, 2) EXCEPT !.last = ActiveEnd(s), !.claimed = @ + amount]
<1>1. /\ Live(r) /\ s.paused = NotPaused /\ CanPay(Vault, amount)
      /\ balance' = Moved(paid, Vault, r, amount - Fee(amount))
      /\ RemoveSchedule(r) \/ SetSchedule(r, next)
      /\ ledger' = ledger /\ sponsorStreams' = sponsorStreams /\ config' = config
  BY DEF ClaimVested, Live, Paused
<1>2. s \in ScheduleRow /\ RowOK(s, ledger, active[r]) /\ ledger \in Nat /\ active[r] \in Nat
  BY <1>1, LiveRow
<1> HIDE DEF s
<1>3. ActiveEnd(s) = MinOf(ledger, s.end)
  BY <1>1 DEF ActiveEnd, EffectiveLedger, Paused
<1>4. amount = IF ledger >= s.end THEN (s.end - s.start) * s.rate - s.claimed
               ELSE (MinOf(ledger, s.end) - s.last) * s.rate
  BY <1>3 DEF Claimable, TotalDeposited
<1>5. s.version + 2 \in Nat
  BY <1>2 DEF ScheduleRow
<1>6. next = AfterClaim(s, ledger, s.version + 2, amount)
  BY <1>2, <1>3 DEF IncrementVersion, ScheduleRow, AfterClaim
<1> HIDE DEF amount, next
<1>7. next \in ScheduleRow /\ RowOK(next, ledger, active[r]) /\ amount \in Nat
  BY <1>1, <1>2, <1>4, <1>5, <1>6, RowClaim
<1>8. KeysOK' /\ RowsOK'
  <2>1. CASE RemoveSchedule(r)
    BY <1>1, <2>1, RowsRemove
  <2>2. CASE SetSchedule(r, next)
    BY <1>1, <1>7, <2>2, RowsSet
  <2>3. QED BY <1>1, <2>1, <2>2
<1>9. balance' \in [Accounts -> Nat]
  <2>1. balance \in [Accounts -> Nat] /\ config \in Config
    BY DEF IInv, TypeOK
  <2>2. Fee(amount) \in Nat /\ Fee(amount) <= amount
    BY <1>7, <2>1, FeeBound
  <2>3. balance[Vault] >= amount /\ balance[Vault] \in Nat
    BY <1>1, <2>1, VaultIsAccount DEF CanPay
  <2>4. balance[Vault] >= Fee(amount)
    BY <1>7, <2>2, <2>3
  <2>5. paid \in [Accounts -> Nat] /\ paid[Vault] = balance[Vault] - Fee(amount)
    BY <2>1, <2>2, <2>4, MovedType, VaultIsAccount
  <2>6. amount - Fee(amount) \in Nat /\ paid[Vault] >= amount - Fee(amount)
    BY <1>7, <2>2, <2>3, <2>5
  <2> HIDE DEF paid
  <2>7. r \in Accounts /\ r # Vault
    BY VaultIsAccount
  <2>8. QED BY <1>1, <2>5, <2>6, <2>7, MovedType, VaultIsAccount
<1>10. RestOK'
  BY <1>1, <1>9 DEF RestOK, IInv, TypeOK
<1>11. QED BY <1>8, <1>10, InvPartsNext

LEMMA PauseStep ==
    ASSUME IInv, NEW sp \in Sponsors, NEW r \in Recipients, PauseStream(sp, r), active' = active
    PROVE  IInv'
<1> DEFINE s == GetSchedule(r)
           t == [IncrementVersion(s, 1) EXCEPT !.paused = ledger]
<1>1. /\ s # NoRow /\ s.paused = NotPaused /\ SetSchedule(r, t)
      /\ UNCHANGED <<ledger, balance, sponsorStreams, config>>
  BY DEF PauseStream, Paused
<1>2. Live(r)
  BY <1>1, LegacyLookup
<1>3. /\ s \in ScheduleRow /\ RowOK(s, ledger, active[r])
      /\ ledger \in 0..U32Max /\ active[r] \in Nat
  BY <1>1, LegacyLookup
<1> HIDE DEF s
<1>4. s.version + 1 \in Nat /\ t = AfterPause(s, ledger, s.version + 1)
  BY <1>3 DEF IncrementVersion, ScheduleRow, AfterPause
<1> HIDE DEF t
<1>5. t \in ScheduleRow /\ RowOK(t, ledger, active[r])
  BY <1>1, <1>3, <1>4, RowPause
<1>6. KeysOK' /\ RowsOK'
  BY <1>1, <1>5, RowsSet
<1>7. RestOK'
  BY <1>1 DEF RestOK, IInv, TypeOK
<1>8. QED BY <1>6, <1>7, InvPartsNext

LEMMA ResumeStep ==
    ASSUME IInv, NEW sp \in Sponsors, NEW r \in Recipients, ResumeStream(sp, r), active' = active
    PROVE  IInv'
<1> DEFINE s == GetSchedule(r)
           t == Resumed(s)
<1>1. /\ s # NoRow /\ s.paused # NotPaused /\ SetSchedule(r, t)
      /\ UNCHANGED <<ledger, balance, sponsorStreams, config>>
  BY DEF ResumeStream, Paused
<1>2. Live(r)
  BY <1>1, LegacyLookup
<1>3. /\ s \in ScheduleRow /\ RowOK(s, ledger, active[r])
      /\ ledger \in 0..U32Max /\ active[r] \in Nat
  BY <1>1, LegacyLookup
<1> HIDE DEF s
<1>4. s.version + 1 \in Nat
  BY <1>3 DEF ScheduleRow
<1>5. t = AfterResume(s, ledger, s.version + 1)
  BY <1>3 DEF Resumed, ScheduleRow, AfterResume
<1> HIDE DEF t
<1>6. t \in ScheduleRow /\ RowOK(t, ledger, active[r])
  BY <1>1, <1>3, <1>4, <1>5, RowResume
<1>7. KeysOK' /\ RowsOK'
  BY <1>1, <1>6, RowsSet
<1>8. RestOK'
  BY <1>1 DEF RestOK, IInv, TypeOK
<1>9. QED BY <1>7, <1>8, InvPartsNext

LEMMA MigrateStep ==
    ASSUME IInv, NEW r \in Recipients, MigrateSchedule(r), active' = active
    PROVE  IInv'
<1> DEFINE s == GetSchedule(r)
<1>1. /\ schedule[r] # NoRow /\ SetSchedule(r, s)
      /\ UNCHANGED <<ledger, balance, sponsorStreams, config>>
  BY DEF MigrateSchedule, GetScheduleReadonly
<1>2. s # NoRow
  <2>1. schedule[r] \in ScheduleRow
    BY <1>1 DEF IInv, TypeOK
  <2>2. Migrated(schedule[r]) \in ScheduleRow
    BY <2>1 DEF Migrated, ScheduleRow, CURRENT_SCHEMA_VERSION, MaxOf
  <2>3. QED BY <1>1, <2>2, FixedAssumption DEF GetSchedule
<1>3. Live(r) /\ s \in ScheduleRow /\ RowOK(s, ledger, active[r])
  BY <1>2, LegacyLookup
<1> HIDE DEF s
<1>4. KeysOK' /\ RowsOK'
  BY <1>1, <1>3, RowsSet
<1>5. RestOK'
  BY <1>1 DEF RestOK, IInv, TypeOK
<1>6. QED BY <1>4, <1>5, InvPartsNext

LEMMA CancelStep ==
    ASSUME IInv, NEW sp \in Sponsors, NEW r \in Recipients, CancelStream(sp, r), active' = active
    PROVE  IInv'
<1> DEFINE s      == GetScheduleById(r)
           share  == EarnedAtCancel(s)
           refund == MaxOf(TotalDeposited(s) - s.claimed - share, 0)
           paid   == Moved(balance, Vault, r, share)
<1>1. /\ Live(r) /\ CanPay(Vault, share + refund) /\ balance' = Moved(paid, Vault, sp, refund)
      /\ RemoveSchedule(r) /\ RemoveSponsorStream(sp, r)
      /\ ledger' = ledger /\ config' = config
  BY DEF CancelStream, Live
<1>2. s \in ScheduleRow /\ RowOK(s, ledger, active[r]) /\ ledger \in Nat /\ active[r] \in Nat
  BY <1>1, LiveRow
<1> HIDE DEF s
<1>3. share \in Nat /\ TotalDeposited(s) - s.claimed \in Nat
  BY <1>2, AmountsNat
<1> HIDE DEF share
<1>4. refund \in Nat
  BY <1>3 DEF MaxOf
<1> HIDE DEF refund
<1>5. KeysOK' /\ RowsOK'
  BY <1>1, RowsRemove
<1>6. balance' \in [Accounts -> Nat]
  <2>1. balance \in [Accounts -> Nat] /\ balance[Vault] \in Nat
    BY VaultIsAccount DEF IInv, TypeOK
  <2>2. balance[Vault] >= share + refund
    BY <1>1 DEF CanPay
  <2>3. balance[Vault] >= share /\ r \in Accounts /\ r # Vault /\ sp \in Accounts /\ sp # Vault
    BY <1>3, <1>4, <2>1, <2>2, VaultIsAccount
  <2>4. paid \in [Accounts -> Nat] /\ paid[Vault] = balance[Vault] - share
    BY <1>3, <2>1, <2>3, MovedType, VaultIsAccount
  <2> HIDE DEF paid
  <2>5. paid[Vault] >= refund
    BY <1>3, <1>4, <2>1, <2>2, <2>4
  <2>6. QED BY <1>1, <1>4, <2>3, <2>4, <2>5, MovedType, VaultIsAccount
<1>7. sponsorStreams' \in [Sponsors -> SUBSET Recipients]
  BY <1>1 DEF RemoveSponsorStream, IInv, TypeOK
<1>8. RestOK'
  BY <1>1, <1>6, <1>7 DEF RestOK, IInv, TypeOK
<1>9. QED BY <1>5, <1>8, InvPartsNext

\* Clawback and the two drains remove a row and refund its sponsor.
LEMMA RefundStep ==
    ASSUME IInv, NEW r \in Recipients, Live(r), NEW a \in Nat, NEW s \in ScheduleRow,
           Refunded(r, s, a), active' = active
    PROVE  IInv'
<1>1. /\ CanPay(Vault, a) /\ balance' = Moved(balance, Vault, s.sponsor, a)
      /\ RemoveSchedule(r) /\ RemoveSponsorStream(s.sponsor, r)
      /\ ledger' = ledger /\ config' = config
  BY DEF Refunded
<1>2. s.sponsor \in Sponsors
  BY DEF ScheduleRow
<1>3. KeysOK' /\ RowsOK'
  BY <1>1, RowsRemove
<1>4. balance' \in [Accounts -> Nat]
  <2>1. balance \in [Accounts -> Nat] /\ balance[Vault] >= a
    BY <1>1 DEF IInv, TypeOK, CanPay
  <2>2. s.sponsor \in Accounts /\ s.sponsor # Vault /\ Vault \in Accounts
    BY <1>2, VaultIsAccount
  <2>3. QED BY <1>1, <2>1, <2>2, MovedType
<1>5. sponsorStreams' \in [Sponsors -> SUBSET Recipients]
  BY <1>1, <1>2 DEF RemoveSponsorStream, IInv, TypeOK
<1>6. RestOK'
  BY <1>1, <1>4, <1>5 DEF RestOK, IInv, TypeOK
<1>7. QED BY <1>3, <1>6, InvPartsNext

\* The rows and amounts that the three of them refund.
LEMMA ClawbackRefunds ==
    ASSUME IInv, NEW sp \in Sponsors, NEW r \in Recipients, ClawbackStream(sp, r)
    PROVE  Live(r) /\ \E s \in ScheduleRow, a \in Nat : Refunded(r, s, a)
<1> DEFINE s == GetScheduleById(r)
<1>1. Live(r) /\ Refunded(r, s, (s.end - s.last) * s.rate)
  BY DEF ClawbackStream, Live
<1>2. s \in ScheduleRow /\ (s.end - s.last) * s.rate \in Nat
  <2>1. s \in ScheduleRow /\ RowOK(s, ledger, active[r]) /\ ledger \in Nat /\ active[r] \in Nat
    BY <1>1, LiveRow
  <2>2. QED BY <2>1, AmountsNat
<1>3. QED BY <1>1, <1>2

LEMMA EmergencyRefunds ==
    ASSUME IInv, NEW sp \in Sponsors, NEW r \in Recipients, EmergencyDrain(sp, r)
    PROVE  Live(r) /\ \E s \in ScheduleRow, a \in Nat : Refunded(r, s, a)
<1> DEFINE s == GetSchedule(r)
<1>1. s # NoRow /\ Refunded(r, s, TotalDeposited(s) - s.claimed)
  BY DEF EmergencyDrain
<1>2. Live(r) /\ s \in ScheduleRow
  BY <1>1, LegacyLookup
<1>3. TotalDeposited(s) - s.claimed \in Nat
  <2>1. s \in ScheduleRow /\ RowOK(s, ledger, active[r]) /\ ledger \in Nat /\ active[r] \in Nat
    BY <1>1, LegacyLookup
  <2>2. QED BY <2>1, AmountsNat
<1>4. QED BY <1>1, <1>2, <1>3

LEMMA DrainRefunds ==
    ASSUME IInv, NEW r \in Recipients, DrainExpiredStream(r)
    PROVE  Live(r) /\ \E s \in ScheduleRow, a \in Nat : Refunded(r, s, a)
<1> DEFINE s == GetSchedule(r)
           a == MaxOf(CalculateTotalDeposit(s.rate, s.end - s.start) - s.claimed, 0)
<1>1. s # NoRow /\ Refunded(r, s, a)
  BY DEF DrainExpiredStream
<1>2. Live(r) /\ s \in ScheduleRow
  BY <1>1, LegacyLookup
<1>3. a \in Nat
  <2>1. s \in ScheduleRow /\ RowOK(s, ledger, active[r]) /\ ledger \in Nat
    BY <1>1, LegacyLookup
  <2> HIDE DEF s
  <2>2. s.rate \in Nat /\ s.claimed \in Nat /\ s.end - s.start \in Nat
    BY <2>1, LedgerFacts DEF ScheduleRow, RowOK, MinOf, NotPaused
  <2>3. CalculateTotalDeposit(s.rate, s.end - s.start) \in Nat
    BY <2>2, DepositNat
  <2>4. QED BY <2>2, <2>3 DEF MaxOf
<1> HIDE DEF a
<1>4. QED BY <1>1, <1>2, <1>3

LEMMA RefundsStep ==
    ASSUME IInv, NEW sp \in Sponsors, NEW r \in Recipients, active' = active,
           ClawbackStream(sp, r) \/ EmergencyDrain(sp, r)
    PROVE  IInv'
BY ClawbackRefunds, EmergencyRefunds, RefundStep

LEMMA DrainExpiredStep ==
    ASSUME IInv, NEW r \in Recipients, DrainExpiredStream(r), active' = active
    PROVE  IInv'
BY DrainRefunds, RefundStep

LEMMA TransferStep ==
    ASSUME IInv, NEW r \in Recipients, NEW to \in Recipients, TransferRecipient(r, to),
           active' = [active EXCEPT ![to] = active[r]]
    PROVE  IInv'
<1> DEFINE s == GetSchedule(r)
<1>1. /\ s # NoRow /\ r # to /\ MoveSchedule(r, to, s)
      /\ UNCHANGED <<ledger, balance, config>>
      /\ sponsorStreams' = [sponsorStreams EXCEPT ![s.sponsor] = (@ \ {r}) \cup {to}]
  BY DEF TransferRecipient
<1>2. Live(r)
  BY <1>1, LegacyLookup
<1>3. s \in ScheduleRow /\ RowOK(s, ledger, active[r])
  BY <1>1, LegacyLookup
<1> HIDE DEF s
<1>4. /\ KeysOK' /\ ~Live(r)' /\ GetScheduleById(to)' = s
      /\ \A q \in Recipients \ {r, to} : GetScheduleById(q)' = GetScheduleById(q)
  BY <1>1, <1>3, MoveEffect, KeysOfInv
<1>5. /\ active' \in [Recipients -> Nat] /\ active'[to] = active[r]
      /\ \A q \in Recipients \ {to} : active'[q] = active[q]
  BY DEF IInv, TypeOK
<1>6. ASSUME NEW q \in Recipients, Live(q)'
      PROVE  RowOK(GetScheduleById(q)', ledger', active'[q])
  <2>1. CASE q = to
    BY <1>1, <1>3, <1>4, <1>5, <2>1
  <2>2. CASE q # to
    BY <1>1, <1>4, <1>5, <1>6, <2>2 DEF IInv, RowsOK, Live
  <2>3. QED BY <2>1, <2>2
<1>7. RowsOK'
  BY <1>6 DEF RowsOK
<1>8. sponsorStreams' \in [Sponsors -> SUBSET Recipients]
  BY <1>1, <1>3 DEF ScheduleRow, IInv, TypeOK
<1>9. RestOK'
  BY <1>1, <1>5, <1>8 DEF RestOK, IInv, TypeOK
<1>10. QED BY <1>4, <1>7, <1>9, InvPartsNext

LEMMA AdminStep ==
    ASSUME IInv, AdminCall, active' = active
    PROVE  IInv'
<1>1. UNCHANGED <<ledger, balance, schedule, scheduleById, sponsorStreams>>
  BY DEF AdminCall, SetFee, SetMinDeposit, SetConfig, fixedVars
<1>2. config' \in Config
  <2>1. config \in Config
    BY DEF IInv, TypeOK
  <2>2. ASSUME NEW f \in FeeChoices, SetFee(f) PROVE config' \in Config
    BY <2>1, <2>2, FixedAssumption DEF SetFee, Config
  <2>3. ASSUME NEW c \in Settings, SetMinDeposit(c.minDeposit) PROVE config' \in Config
    <3>1. c \in Config
      BY FixedAssumption
    <3>2. QED BY <2>1, <2>3, <3>1 DEF SetMinDeposit, Config
  <2>4. ASSUME NEW c \in Settings, SetConfig(c) PROVE config' \in Config
    <3>1. c \in Config
      BY FixedAssumption
    <3>2. QED BY <2>1, <2>4, <3>1 DEF SetConfig, Config
  <2>5. QED BY <2>2, <2>3, <2>4 DEF AdminCall
<1>3. KeysOK' /\ RowsOK'
  BY <1>1, RowsSame
<1>4. RestOK'
  BY <1>1, <1>2 DEF RestOK, IInv, TypeOK
<1>5. QED BY <1>3, <1>4, InvPartsNext

\* Every step preserves the invariant.
LEMMA InductiveStep == IInv /\ [HNext]_hvars => IInv'
<1> SUFFICES ASSUME IInv, [HNext]_hvars PROVE IInv'
  OBVIOUS
<1>1. CASE HTick
  BY <1>1, TickStep
<1>2. CASE HCreate
  BY <1>2, CreateStep DEF HCreate
<1>3. CASE HTransfer
  BY <1>3, TransferStep DEF HTransfer
<1>4. CASE Resume /\ UNCHANGED active
  BY <1>4, ResumeStep DEF Resume
<1>5. CASE StreamCall /\ UNCHANGED active
  BY <1>5, ClaimStep, DrainExpiredStep, MigrateStep, PauseStep, CancelStep, RefundsStep
     DEF StreamCall
<1>6. CASE AdminCall /\ UNCHANGED active
  BY <1>6, AdminStep
<1>7. CASE UNCHANGED hvars
  <2>1. UNCHANGED <<ledger, balance, schedule, scheduleById, sponsorStreams, config, active>>
    BY <1>7 DEF hvars, vars, fixedVars
  <2>2. QED BY <2>1, RowsSame, InvPartsNext DEF RestOK, IInv, TypeOK
<1>8. QED BY <1>1, <1>2, <1>3, <1>4, <1>5, <1>6, <1>7 DEF HNext, HOther

-----------------------------------------------------------------------------
\* For every instance: the keys hold well-typed rows of which at most one is
\* in use, the claim pointer of create, claim, pause, resume, transfer and
\* cancel stays in its bounds, and a stream accrues exactly the ledgers
\* during which it was running.
THEOREM StreamsAccrueRunningTime == HSpec => []AccrualInvariant
<1>1. IInv => AccrualInvariant
  BY RowsOKMeaning DEF IInv, AccrualInvariant
<1>2. QED BY <1>1, InitInv, InductiveStep, PTL DEF HSpec

\* A product with a natural number is monotone.
LEMMA Monotone ==
    ASSUME NEW a \in Int, NEW b \in Int, a <= b, NEW k \in Nat
    PROVE  a * k <= k * b
<1>1. b - a \in Nat
  OBVIOUS
<1>2. (b - a) * k \in Nat
  BY <1>1
<1>3. (b - 0) * k = (a - 0) * k + (b - a) * k
  BY Split
<1>4. QED BY <1>2, <1>3

\* For every instance: what claim_vested and the other operations have paid
\* out of a live stream never exceeds its rate times its running time.
THEOREM ClaimsNeverExceedEarnings == HSpec => []ClaimedOnlyEarned
<1>1. IInv => ClaimedOnlyEarned
  <2> SUFFICES ASSUME IInv, NEW r \in Recipients, Live(r)
               PROVE  GetScheduleById(r).claimed <= GetScheduleById(r).rate * active[r]
    BY DEF ClaimedOnlyEarned
  <2> DEFINE s == GetScheduleById(r)
  <2>1. s \in ScheduleRow /\ RowOK(s, ledger, active[r]) /\ ledger \in Nat /\ active[r] \in Nat
    BY LiveRow
  <2> HIDE DEF s
  <2>2. s.claimed = (s.last - s.start) * s.rate /\ s.rate \in Nat
        /\ s.last - s.start \in Int
    BY <2>1, LedgerFacts DEF ScheduleRow, RowOK
  <2>3. s.last - s.start <= active[r]
    BY <2>1, LedgerFacts DEF ScheduleRow, RowOK, MinOf, NotPaused
  <2>4. (s.last - s.start) * s.rate <= s.rate * active[r]
    BY <2>1, <2>2, <2>3, Monotone
  <2>5. QED BY <2>2, <2>4 DEF s
<1>2. QED BY <1>1, InitInv, InductiveStep, PTL DEF HSpec

-----------------------------------------------------------------------------
(* What is paid, and what the views report.                                *)

\* What a stream has accrued past its claim pointer is what it earned and
\* was not paid.
LEMMA DueIsEarned ==
    ASSUME NEW s \in ScheduleRow, NEW n \in Nat, RowOK(s, ledger, n), ledger \in Nat
    PROVE  /\ (ActiveEnd(s) - s.last) * s.rate = s.rate * n - s.claimed
           /\ (ActiveEnd(s) - s.last) * s.rate \in Nat
           /\ ~Paused(s) => Claimable(s) = (ActiveEnd(s) - s.last) * s.rate
<1> DEFINE e == ActiveEnd(s)
<1>1. /\ s.start \in Int /\ s.last \in Int /\ s.end \in Int /\ s.rate \in Nat
      /\ s.claimed = (s.last - s.start) * s.rate
  BY LedgerFacts DEF ScheduleRow, RowOK
<1>2. e \in Int /\ e - s.start = n /\ s.last <= e
  BY <1>1, LedgerFacts DEF RowOK, MinOf, ActiveEnd, EffectiveLedger, Paused, ScheduleRow, NotPaused
<1>3. ~Paused(s) /\ ledger >= s.end => e = s.end
  BY <1>1 DEF MinOf, ActiveEnd, EffectiveLedger, Paused
<1>4. ~(ledger >= s.end) => Claimable(s) = (e - s.last) * s.rate
  BY DEF Claimable
<1>5. ledger >= s.end => Claimable(s) = (s.end - s.start) * s.rate - s.claimed
  BY DEF Claimable, TotalDeposited
<1> HIDE DEF e
<1>6. (e - s.start) * s.rate = (s.last - s.start) * s.rate + (e - s.last) * s.rate
  BY <1>1, <1>2, Split
<1>7. (e - s.last) * s.rate \in Nat /\ (s.last - s.start) * s.rate \in Int
  <2>1. e - s.last \in Nat
    BY <1>1, <1>2
  <2>2. QED BY <1>1, <2>1
<1>8. (e - s.last) * s.rate = (e - s.start) * s.rate - s.claimed
  BY <1>1, <1>6, <1>7
<1>9. (e - s.start) * s.rate = s.rate * n
  BY <1>1, <1>2
<1>10. ~Paused(s) => Claimable(s) = (e - s.last) * s.rate
  BY <1>3, <1>4, <1>5, <1>8
<1>11. QED BY <1>7, <1>8, <1>9, <1>10 DEF e

\* For every instance: where claimable_amount reports something, it reports the
\* rate for every ledger of running time less what claim_vested has paid.
THEOREM ViewsReportEarnings == HSpec => []ViewReportsEarnings
<1>1. IInv => ViewReportsEarnings
  <2> SUFFICES ASSUME IInv, NEW r \in Recipients, ClaimableAmount(r) # 0
               PROVE  ClaimableAmount(r)
                        = GetScheduleById(r).rate * active[r] - GetScheduleById(r).claimed
    BY DEF ViewReportsEarnings
  <2> DEFINE s == schedule[r]
  <2>1. StreamStatusOf(r) \in {"Active", "Expired"} /\ ClaimableAmount(r) = Claimable(s)
    BY DEF ClaimableAmount, GetScheduleReadonly
  <2>2. s # NoRow /\ ~Paused(s)
    BY <2>1 DEF StreamStatusOf, GetScheduleReadonly
  <2>3. Live(r) /\ GetScheduleById(r) = s
    BY <2>2 DEF IInv, OneKeyInUse, GetScheduleById, Live
  <2>4. s \in ScheduleRow /\ RowOK(s, ledger, active[r]) /\ ledger \in Nat /\ active[r] \in Nat
    BY <2>3, LiveRow
  <2>5. Claimable(s) = s.rate * active[r] - s.claimed
    BY <2>2, <2>4, DueIsEarned
  <2>6. QED BY <2>1, <2>3, <2>5
<1>2. QED BY <1>1, InitInv, InductiveStep, PTL DEF HSpec

\* A payment to `y` out of `x` leaves every third account alone.
LEMMA MovedOther ==
    ASSUME NEW b \in [Accounts -> Nat], NEW x \in Accounts, NEW y \in Accounts, NEW a \in Nat,
           NEW z \in Accounts \ {x, y}
    PROVE  Moved(b, x, y, a)[z] = b[z]
BY DEF Moved

\* Payments of the step to recipient r, who is no sponsor, are exact and not
\* early.
PaidRight(r) ==
    balance'[r] > balance[r] =>
      LET s == GetScheduleById(r)
      IN  /\ (balance'[r] - balance[r]) + (balance'[Treasury] - balance[Treasury])
               = s.rate * active[r] - s.claimed
          /\ EffectiveLedger(s) >= s.cliff

LEMMA ClaimPays ==
    ASSUME IInv, NEW q \in Recipients, ClaimVested(q), NEW r \in Recipients \ Sponsors
    PROVE  PaidRight(r)
<1> DEFINE s      == GetScheduleById(q)
           amount == Claimable(s)
           paid   == Moved(balance, Vault, Treasury, Fee(amount))
<1>1. /\ Live(q) /\ ~Paused(s) /\ ledger >= s.cliff /\ CanPay(Vault, amount)
      /\ balance' = Moved(paid, Vault, q, amount - Fee(amount))
  BY DEF ClaimVested, Live
<1>2. s \in ScheduleRow /\ RowOK(s, ledger, active[q]) /\ ledger \in Nat /\ active[q] \in Nat
  BY <1>1, LiveRow
<1>3. amount \in Nat /\ amount = s.rate * active[q] - s.claimed
  BY <1>1, <1>2, DueIsEarned
<1>4. EffectiveLedger(s) >= s.cliff
  BY <1>1 DEF EffectiveLedger
<1> HIDE DEF s, amount
<1>5. balance \in [Accounts -> Nat] /\ config \in Config
  BY DEF IInv, TypeOK
<1>6. Fee(amount) \in Nat /\ Fee(amount) <= amount
  BY <1>3, <1>5, FeeBound
<1>7. balance[Vault] >= amount /\ balance[Vault] \in Nat
  BY <1>1, <1>5, VaultIsAccount DEF CanPay
<1>8. balance[Vault] >= Fee(amount)
  BY <1>3, <1>6, <1>7
<1>9. q \in Accounts \ {Vault, Treasury} /\ r \in Accounts \ {Vault, Treasury}
  BY AccountAssumption DEF Accounts
<1>10. /\ paid \in [Accounts -> Nat] /\ paid[Vault] = balance[Vault] - Fee(amount)
       /\ paid[Treasury] = balance[Treasury] + Fee(amount)
  BY <1>5, <1>6, <1>8, MovedType, VaultIsAccount
<1>11. paid[q] = balance[q] /\ paid[r] = balance[r]
  BY <1>5, <1>6, <1>9, MovedOther, VaultIsAccount
<1> HIDE DEF paid
<1>12. amount - Fee(amount) \in Nat /\ paid[Vault] >= amount - Fee(amount)
  BY <1>3, <1>6, <1>7, <1>10
<1>13. balance'[q] = paid[q] + (amount - Fee(amount))
  BY <1>1, <1>9, <1>10, <1>12, MovedType, VaultIsAccount
<1>14. balance'[Treasury] = paid[Treasury]
  BY <1>1, <1>9, <1>10, <1>12, MovedOther, VaultIsAccount
<1>15. CASE r = q
  <2>1. (balance'[q] - balance[q]) + (balance'[Treasury] - balance[Treasury]) = amount
    BY <1>3, <1>5, <1>6, <1>9, <1>10, <1>11, <1>13, <1>14, VaultIsAccount
  <2>2. QED BY <1>3, <1>4, <1>15, <2>1 DEF PaidRight, s
<1>16. CASE r # q
  <2>1. balance'[r] = balance[r]
    BY <1>1, <1>9, <1>10, <1>11, <1>12, <1>16, MovedOther, VaultIsAccount
  <2>2. QED BY <1>5, <1>9, <2>1 DEF PaidRight
<1>17. QED BY <1>15, <1>16

LEMMA CancelPays ==
    ASSUME IInv, NEW sp \in Sponsors, NEW q \in Recipients, CancelStream(sp, q),
           NEW r \in Recipients \ Sponsors
    PROVE  PaidRight(r)
<1> DEFINE s      == GetScheduleById(q)
           share  == EarnedAtCancel(s)
           refund == MaxOf(TotalDeposited(s) - s.claimed - share, 0)
           paid   == Moved(balance, Vault, q, share)
<1>1. /\ Live(q) /\ CanPay(Vault, share + refund) /\ balance' = Moved(paid, Vault, sp, refund)
  BY DEF CancelStream, Live
<1>2. s \in ScheduleRow /\ RowOK(s, ledger, active[q]) /\ ledger \in Nat /\ active[q] \in Nat
  BY <1>1, LiveRow
<1>3. share # 0 => share = s.rate * active[q] - s.claimed /\ EffectiveLedger(s) >= s.cliff
  BY <1>2, DueIsEarned DEF EarnedAtCancel
<1>4. share \in Nat /\ TotalDeposited(s) - s.claimed \in Nat
  BY <1>2, AmountsNat
<1> HIDE DEF s, share
<1>5. refund \in Nat
  BY <1>4 DEF MaxOf
<1> HIDE DEF refund
<1>6. balance \in [Accounts -> Nat] /\ balance[Vault] \in Nat
  BY VaultIsAccount DEF IInv, TypeOK
<1>7. balance[Vault] >= share
  BY <1>1, <1>4, <1>5, <1>6 DEF CanPay
<1>8. /\ q \in Accounts \ {Vault, Treasury} /\ r \in Accounts \ {Vault, Treasury}
      /\ sp \in Accounts \ {Vault, Treasury, r}
  BY AccountAssumption DEF Accounts
<1>9. paid \in [Accounts -> Nat] /\ paid[q] = balance[q] + share
  BY <1>4, <1>6, <1>7, <1>8, MovedType, VaultIsAccount
<1>10. paid[Treasury] = balance[Treasury] /\ (r # q => paid[r] = balance[r])
  BY <1>4, <1>6, <1>8, MovedOther, VaultIsAccount
<1> HIDE DEF paid
<1>11. balance'[r] = paid[r] /\ balance'[Treasury] = paid[Treasury]
  BY <1>1, <1>5, <1>8, <1>9, MovedOther, VaultIsAccount
<1>12. balance[r] \in Nat /\ balance[Treasury] \in Nat
  BY <1>6, <1>8, VaultIsAccount
<1>13. CASE r = q
  <2>1. /\ (balance'[q] - balance[q]) + (balance'[Treasury] - balance[Treasury]) = share
        /\ balance'[q] > balance[q] => share # 0
    BY <1>4, <1>9, <1>10, <1>11, <1>12, <1>13
  <2>2. QED BY <1>3, <1>13, <2>1 DEF PaidRight, s
<1>14. CASE r # q
  BY <1>10, <1>11, <1>12, <1>14 DEF PaidRight
<1>15. QED BY <1>13, <1>14

\* Clawback and the drains pay sponsors only.
LEMMA RefundPays ==
    ASSUME IInv, NEW q \in Recipients, NEW a \in Nat, NEW s \in ScheduleRow,
           Refunded(q, s, a), NEW r \in Recipients \ Sponsors
    PROVE  PaidRight(r)
<1>1. balance' = Moved(balance, Vault, s.sponsor, a) /\ s.sponsor \in Sponsors
  BY DEF Refunded, ScheduleRow
<1>2. balance \in [Accounts -> Nat]
  BY DEF IInv, TypeOK
<1>3. s.sponsor \in Accounts /\ r \in Accounts \ {Vault, s.sponsor}
  BY <1>1, AccountAssumption DEF Accounts
<1>4. balance'[r] = balance[r] /\ balance[r] \in Nat
  BY <1>1, <1>2, <1>3, MovedOther, VaultIsAccount
<1>5. QED BY <1>4 DEF PaidRight

LEMMA CreatePays ==
    ASSUME IInv, NEW sp \in Sponsors, NEW q \in Recipients, NEW a \in CreateArgs,
           CreateVestingStream(sp, q, a), NEW r \in Recipients \ Sponsors
    PROVE  PaidRight(r)
<1> DEFINE deposit == CalculateTotalDeposit(a.rate, a.total)
           paid    == Moved(balance, sp, Vault, deposit)
<1>1. balance' = Moved(paid, Vault, Treasury, Fee(deposit)) /\ CanPay(sp, deposit)
  BY DEF CreateVestingStream
<1>2. a.rate \in Nat /\ a.total \in Nat
  BY FixedAssumption, LedgerFacts DEF CreateVestingStream, ValidArgs
<1>3. deposit \in Nat
  BY <1>2, DepositNat
<1> HIDE DEF deposit
<1>4. balance \in [Accounts -> Nat] /\ config \in Config
  BY DEF IInv, TypeOK
<1>5. Fee(deposit) \in Nat
  BY <1>3, <1>4, FeeBound
<1>6. /\ r \in Accounts \ {Vault, Treasury, sp} /\ sp \in Accounts /\ sp # Vault
      /\ balance[sp] >= deposit
  BY <1>1, AccountAssumption DEF Accounts, CanPay
<1>7. paid \in [Accounts -> Nat]
  BY <1>3, <1>4, <1>6, MovedType, VaultIsAccount
<1>8. paid[r] = balance[r]
  BY <1>3, <1>4, <1>6, MovedOther, VaultIsAccount
<1> HIDE DEF paid
<1>9. balance'[r] = paid[r] /\ balance[r] \in Nat
  BY <1>1, <1>4, <1>5, <1>6, <1>7, MovedOther, VaultIsAccount
<1>10. QED BY <1>8, <1>9 DEF PaidRight

\* A step that moves no tokens pays nobody.
LEMMA NobodyPaid ==
    ASSUME IInv, balance' = balance, NEW r \in Recipients \ Sponsors
    PROVE  PaidRight(r)
<1>1. balance[r] \in Nat
  BY VaultIsAccount DEF IInv, TypeOK
<1>2. QED BY <1>1 DEF PaidRight

\* Every step of the contract pays right.
LEMMA EveryStepPaysRight ==
    ASSUME IInv, [HNext]_hvars, NEW r \in Recipients \ Sponsors
    PROVE  PaidRight(r)
<1>1. CASE HCreate
  BY <1>1, CreatePays DEF HCreate
<1>2. CASE HTick \/ HTransfer \/ Resume \/ AdminCall \/ UNCHANGED hvars
  <2>1. balance' = balance
    BY <1>2 DEF HTick, Tick, HTransfer, TransferRecipient, Resume, ResumeStream, AdminCall,
       SetFee, SetMinDeposit, SetConfig, hvars, vars
  <2>2. QED BY <2>1, NobodyPaid
<1>3. CASE StreamCall
  <2>1. ASSUME NEW q \in Recipients, ClaimVested(q) PROVE PaidRight(r)
    BY <2>1, ClaimPays
  <2>2. ASSUME NEW q \in Recipients, MigrateSchedule(q) PROVE PaidRight(r)
    BY <2>2, NobodyPaid DEF MigrateSchedule
  <2>3. ASSUME NEW q \in Recipients, NEW sp \in Sponsors, PauseStream(sp, q)
        PROVE  PaidRight(r)
    BY <2>3, NobodyPaid DEF PauseStream
  <2>4. ASSUME NEW q \in Recipients, NEW sp \in Sponsors, CancelStream(sp, q)
        PROVE  PaidRight(r)
    BY <2>4, CancelPays
  <2>5. ASSUME NEW q \in Recipients, NEW sp \in Sponsors,
               ClawbackStream(sp, q) \/ EmergencyDrain(sp, q)
        PROVE  PaidRight(r)
    BY <2>5, ClawbackRefunds, EmergencyRefunds, RefundPays
  <2>6. ASSUME NEW q \in Recipients, DrainExpiredStream(q) PROVE PaidRight(r)
    BY <2>6, DrainRefunds, RefundPays
  <2>7. QED BY <1>3, <2>1, <2>2, <2>3, <2>4, <2>5, <2>6 DEF StreamCall
<1>4. QED BY <1>1, <1>2, <1>3 DEF HNext, HOther

\* For every instance and every step: whenever claim_vested or cancel_stream pays
\* a recipient, the payment and the fee are what the stream earned and was
\* not paid, and its cliff has passed.
THEOREM PaymentsAreExact == HSpec => PayoutsExact
<1>1. IInv /\ [HNext]_hvars =>
        [\A r \in Recipients \ Sponsors :
           balance'[r] > balance[r] =>
             (balance'[r] - balance[r]) + (balance'[Treasury] - balance[Treasury])
               = GetScheduleById(r).rate * active[r] - GetScheduleById(r).claimed]_hvars
  BY EveryStepPaysRight DEF PaidRight
<1>2. IInv /\ [HNext]_hvars =>
        [\A r \in Recipients \ Sponsors :
           balance'[r] > balance[r] =>
             EffectiveLedger(GetScheduleById(r)) >= GetScheduleById(r).cliff]_hvars
  BY EveryStepPaysRight DEF PaidRight
<1>3. QED BY <1>1, <1>2, InitInv, InductiveStep, PTL
          DEF HSpec, PayoutsExact, PaysExactlyEarned, NothingBeforeCliff

-----------------------------------------------------------------------------
(* The sponsors' index.                                                    *)

\* A row stored for r is listed if its sponsor lists r afterwards and no
\* sponsor loses another recipient.
LEMMA IndexSet ==
    ASSUME IInv, IndexComplete, NEW r \in Recipients, NEW s, SetSchedule(r, s),
           r \in sponsorStreams'[s.sponsor],
           \A x \in Sponsors : sponsorStreams[x] \subseteq sponsorStreams'[x]
    PROVE  IndexComplete'
<1>1. /\ GetScheduleById(r)' = s
      /\ \A q \in Recipients \ {r} : GetScheduleById(q)' = GetScheduleById(q)
  BY KeysOfInv DEF KeysOK, SetSchedule, GetScheduleById
<1>2. SUFFICES ASSUME NEW q \in Recipients, Live(q)'
               PROVE  q \in sponsorStreams'[GetScheduleById(q)'.sponsor]
  BY DEF IndexComplete
<1>3. CASE q = r
  BY <1>1, <1>3
<1>4. CASE q # r
  <2>1. GetScheduleById(q)' = GetScheduleById(q) /\ Live(q)
    BY <1>1, <1>2, <1>4 DEF Live
  <2>2. GetScheduleById(q).sponsor \in Sponsors
    BY <2>1, LiveRow DEF ScheduleRow
  <2>3. QED BY <2>1, <2>2 DEF IndexComplete
<1>5. QED BY <1>3, <1>4

\* A row that is removed may leave any index.
LEMMA IndexRemove ==
    ASSUME IInv, IndexComplete, NEW r \in Recipients, RemoveSchedule(r),
           \A x \in Sponsors : sponsorStreams[x] \ {r} \subseteq sponsorStreams'[x]
    PROVE  IndexComplete'
<1>1. /\ ~Live(r)'
      /\ \A q \in Recipients \ {r} : GetScheduleById(q)' = GetScheduleById(q)
  BY RemoveEffect, KeysOfInv
<1>2. SUFFICES ASSUME NEW q \in Recipients, Live(q)'
               PROVE  q \in sponsorStreams'[GetScheduleById(q)'.sponsor]
  BY DEF IndexComplete
<1>3. q # r /\ GetScheduleById(q)' = GetScheduleById(q) /\ Live(q)
  BY <1>1, <1>2 DEF Live
<1>4. GetScheduleById(q).sponsor \in Sponsors
  BY <1>3, LiveRow DEF ScheduleRow
<1>5. QED BY <1>3, <1>4 DEF IndexComplete

LEMMA IndexSame ==
    ASSUME IndexComplete, UNCHANGED <<schedule, scheduleById, sponsorStreams>>
    PROVE  IndexComplete'
BY DEF IndexComplete, Live, GetScheduleById

\* A row that get_schedule finds is listed by its sponsor.
LEMMA LegacyListed ==
    ASSUME IInv, IndexComplete, NEW r \in Recipients, NEW s, s = GetSchedule(r), s # NoRow
    PROVE  s \in ScheduleRow /\ s.sponsor \in Sponsors /\ r \in sponsorStreams[s.sponsor]
<1> DEFINE t == schedule[r]
<1>1. t # NoRow /\ s = Migrated(t)
  BY DEF GetSchedule
<1>2. Live(r) /\ GetScheduleById(r) = t
  BY <1>1 DEF IInv, OneKeyInUse, GetScheduleById, Live
<1>3. t \in ScheduleRow /\ r \in sponsorStreams[t.sponsor]
  BY <1>2, LiveRow DEF IndexComplete
<1>4. s \in ScheduleRow
  BY LegacyLookup
<1>5. s.sponsor = t.sponsor /\ s.sponsor \in Sponsors
  BY <1>1, <1>3 DEF Migrated, ScheduleRow
<1>6. QED BY <1>3, <1>4, <1>5

LEMMA CreateIndex ==
    ASSUME IInv, IndexComplete, NEW sp \in Sponsors, NEW r \in Recipients, NEW a \in CreateArgs,
           CreateVestingStream(sp, r, a)
    PROVE  IndexComplete'
<1> DEFINE s == NewSchedule(sp, a)
<1>1. s \in ScheduleRow /\ SetSchedule(r, s) /\ AddSponsorStream(sp, r)
  BY RowNew DEF IInv, CreateVestingStream
<1>2. s.sponsor = sp
  BY DEF NewSchedule
<1> HIDE DEF s
<1>3. sponsorStreams \in [Sponsors -> SUBSET Recipients]
  BY DEF IInv, TypeOK
<1>4. /\ r \in sponsorStreams'[s.sponsor]
      /\ \A x \in Sponsors : sponsorStreams[x] \subseteq sponsorStreams'[x]
  BY <1>1, <1>2, <1>3 DEF AddSponsorStream
<1>5. QED BY <1>1, <1>4, IndexSet

LEMMA ClaimIndex ==
    ASSUME IInv, IndexComplete, NEW r \in Recipients, ClaimVested(r)
    PROVE  IndexComplete'
<1> DEFINE s    == GetScheduleById(r)
           next == [IncrementVersion(s, 2) EXCEPT !.last = ActiveEnd(s),
                                                  !.claimed = @ + Claimable(s)]
<1>1. /\ Live(r) /\ sponsorStreams' = sponsorStreams
      /\ RemoveSchedule(r) \/ SetSchedule(r, next)
  BY DEF ClaimVested, Live
<1>2. s \in ScheduleRow /\ r \in sponsorStreams[s.sponsor]
  BY <1>1, LiveRow DEF IndexComplete
<1> HIDE DEF s
<1>3. next.sponsor = s.sponsor
  BY <1>2 DEF IncrementVersion, ScheduleRow
<1> HIDE DEF next
<1>4. QED BY <1>1, <1>2, <1>3, IndexSet, IndexRemove

\* Pause, resume and the migration keep the sponsor of the row.
LEMMA RewriteIndex ==
    ASSUME IInv, IndexComplete, NEW r \in Recipients, GetSchedule(r) # NoRow,
           NEW t, t.sponsor = GetSchedule(r).sponsor, SetSchedule(r, t),
           sponsorStreams' = sponsorStreams
    PROVE  IndexComplete'
BY LegacyListed, IndexSet

LEMMA PauseIndex ==
    ASSUME IInv, IndexComplete, NEW sp \in Sponsors, NEW r \in Recipients,
           PauseStream(sp, r) \/ ResumeStream(sp, r)
    PROVE  IndexComplete'
<1> DEFINE s == GetSchedule(r)
<1>1. /\ s # NoRow /\ sponsorStreams' = sponsorStreams
      /\ \/ SetSchedule(r, [IncrementVersion(s, 1) EXCEPT !.paused = ledger])
         \/ SetSchedule(r, Resumed(s))
  BY DEF PauseStream, ResumeStream
<1>2. s \in ScheduleRow
  BY <1>1, LegacyLookup
<1>3. /\ [IncrementVersion(s, 1) EXCEPT !.paused = ledger].sponsor = s.sponsor
      /\ Resumed(s).sponsor = s.sponsor
  BY <1>2 DEF IncrementVersion, Resumed, ScheduleRow
<1>4. QED BY <1>1, <1>3, RewriteIndex

LEMMA MigrateIndex ==
    ASSUME IInv, IndexComplete, NEW r \in Recipients, MigrateSchedule(r)
    PROVE  IndexComplete'
<1>1. schedule[r] # NoRow /\ SetSchedule(r, GetSchedule(r)) /\ sponsorStreams' = sponsorStreams
  BY DEF MigrateSchedule, GetScheduleReadonly
<1>2. GetSchedule(r) # NoRow
  <2>1. schedule[r] \in ScheduleRow
    BY <1>1 DEF IInv, TypeOK
  <2>2. Migrated(schedule[r]) \in ScheduleRow
    BY <2>1 DEF Migrated, ScheduleRow, CURRENT_SCHEMA_VERSION, MaxOf
  <2>3. QED BY <1>1, <2>2, FixedAssumption DEF GetSchedule
<1>3. QED BY <1>1, <1>2, RewriteIndex

LEMMA CancelIndex ==
    ASSUME IInv, IndexComplete, NEW sp \in Sponsors, NEW r \in Recipients, CancelStream(sp, r)
    PROVE  IndexComplete'
<1>1. RemoveSchedule(r) /\ RemoveSponsorStream(sp, r)
  BY DEF CancelStream
<1>2. \A x \in Sponsors : sponsorStreams[x] \ {r} \subseteq sponsorStreams'[x]
  BY <1>1 DEF RemoveSponsorStream, IInv, TypeOK
<1>3. QED BY <1>1, <1>2, IndexRemove

LEMMA RefundIndex ==
    ASSUME IInv, IndexComplete, NEW r \in Recipients, NEW s \in ScheduleRow, NEW a \in Nat,
           Refunded(r, s, a)
    PROVE  IndexComplete'
<1>1. RemoveSchedule(r) /\ RemoveSponsorStream(s.sponsor, r)
  BY DEF Refunded
<1>2. \A x \in Sponsors : sponsorStreams[x] \ {r} \subseteq sponsorStreams'[x]
  BY <1>1 DEF RemoveSponsorStream, IInv, TypeOK
<1>3. QED BY <1>1, <1>2, IndexRemove

LEMMA TransferIndex ==
    ASSUME IInv, IndexComplete, NEW r \in Recipients, NEW to \in Recipients,
           TransferRecipient(r, to)
    PROVE  IndexComplete'
<1> DEFINE s == GetSchedule(r)
<1>1. /\ s # NoRow /\ r # to /\ MoveSchedule(r, to, s)
      /\ sponsorStreams' = [sponsorStreams EXCEPT ![s.sponsor] = (@ \ {r}) \cup {to}]
  BY DEF TransferRecipient
<1>2. s \in ScheduleRow /\ s.sponsor \in Sponsors
  BY <1>1, LegacyListed
<1> HIDE DEF s
<1>3. /\ ~Live(r)' /\ GetScheduleById(to)' = s
      /\ \A q \in Recipients \ {r, to} : GetScheduleById(q)' = GetScheduleById(q)
  BY <1>1, <1>2, MoveEffect, KeysOfInv
<1>4. sponsorStreams \in [Sponsors -> SUBSET Recipients]
  BY DEF IInv, TypeOK
<1>5. /\ to \in sponsorStreams'[s.sponsor]
      /\ \A x \in Sponsors : sponsorStreams[x] \ {r} \subseteq sponsorStreams'[x]
  BY <1>1, <1>2, <1>4
<1>6. SUFFICES ASSUME NEW q \in Recipients, Live(q)'
               PROVE  q \in sponsorStreams'[GetScheduleById(q)'.sponsor]
  BY DEF IndexComplete
<1>7. CASE q = to
  BY <1>3, <1>5, <1>7
<1>8. CASE q # to
  <2>1. q # r /\ GetScheduleById(q)' = GetScheduleById(q) /\ Live(q)
    BY <1>3, <1>6, <1>8 DEF Live
  <2>2. GetScheduleById(q).sponsor \in Sponsors
    BY <2>1, LiveRow DEF ScheduleRow
  <2>3. QED BY <1>5, <2>1, <2>2 DEF IndexComplete
<1>9. QED BY <1>7, <1>8

LEMMA IndexStep == IInv /\ IndexComplete /\ [HNext]_hvars => IndexComplete'
<1> SUFFICES ASSUME IInv, IndexComplete, [HNext]_hvars PROVE IndexComplete'
  OBVIOUS
<1>1. CASE HCreate
  BY <1>1, CreateIndex DEF HCreate
<1>2. CASE HTransfer
  BY <1>2, TransferIndex DEF HTransfer
<1>3. CASE Resume
  BY <1>3, PauseIndex DEF Resume
<1>4. CASE HTick \/ AdminCall \/ UNCHANGED hvars
  <2>1. UNCHANGED <<schedule, scheduleById, sponsorStreams>>
    BY <1>4 DEF HTick, Tick, AdminCall, SetFee, SetMinDeposit, SetConfig, hvars, vars, fixedVars
  <2>2. QED BY <2>1, IndexSame
<1>5. CASE StreamCall
  <2>1. ASSUME NEW r \in Recipients, ClaimVested(r) \/ MigrateSchedule(r) PROVE IndexComplete'
    BY <2>1, ClaimIndex, MigrateIndex
  <2>2. ASSUME NEW r \in Recipients, DrainExpiredStream(r) PROVE IndexComplete'
    BY <2>2, DrainRefunds, RefundIndex
  <2>3. ASSUME NEW r \in Recipients, NEW sp \in Sponsors, PauseStream(sp, r) \/ CancelStream(sp, r)
        PROVE  IndexComplete'
    BY <2>3, PauseIndex, CancelIndex
  <2>4. ASSUME NEW r \in Recipients, NEW sp \in Sponsors,
               ClawbackStream(sp, r) \/ EmergencyDrain(sp, r)
        PROVE  IndexComplete'
    BY <2>4, ClawbackRefunds, EmergencyRefunds, RefundIndex
  <2>5. QED BY <1>5, <2>1, <2>2, <2>3, <2>4 DEF StreamCall
<1>6. QED BY <1>1, <1>2, <1>3, <1>4, <1>5 DEF HNext, HOther

\* For every instance: whatever creation overwrites, and whichever of transfer,
\* cancellation, clawback and the drains come after it, the sponsor of a live stream
\* finds the stream in its index.
THEOREM SponsorsFindTheirStreams == HSpec => []IndexComplete
<1>1. HInit => IndexComplete
  <2> SUFFICES ASSUME HInit, NEW r \in Recipients, Live(r)
               PROVE  r \in sponsorStreams[GetScheduleById(r).sponsor]
    BY DEF IndexComplete
  <2>1. GetScheduleById(r) = schedule[r] /\ schedule[r] # NoRow
    BY DEF HInit, Init, GetScheduleById, Live
  <2>2. schedule[r] \in LegacyRows
    BY <2>1 DEF HInit, Init
  <2>3. schedule[r].sponsor \in Sponsors
    BY <2>2, LegacyAssumption DEF ScheduleRow
  <2>4. QED BY <2>1, <2>3 DEF HInit, Init
<1>2. QED BY <1>1, InitInv, InductiveStep, IndexStep, PTL DEF HSpec
=============================================================================
