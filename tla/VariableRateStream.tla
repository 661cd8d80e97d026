-------------------------- MODULE VariableRateStream --------------------------
(***************************************************************************)
(* Variable-rate streams of contract.rs: creation with rate segments, the  *)
(* claim, and the two definitions of compute_variable_claimable.  The      *)
(* vault is that of one token in which only variable-rate streams are      *)
(* funded; the fixed-rate schedules are there to be looked up.             *)
(***************************************************************************)
EXTENDS ContractStorage, Sequences, Folds, SequencesExt

CONSTANTS
    CliffDurations,   \* cliff_duration arguments tried
    SegmentLists,     \* segments arguments tried: <<end_ledger, rate>> pairs
    MAX_SEGMENTS,     \* the contract's limit on the number of segments
    InitialFunds      \* balance of every sponsor at the start

vvars == <<ledger, balance, variable, fixedVars>>

Segment == [end : 0..U32Max, rate : Nat]

VariableRow ==
    [sponsor : Sponsors, start : 0..U32Max, cliff : 0..U32Max, end : 0..U32Max,
     segments : Seq(Segment), total : Int, last : 0..U32Max, claimed : Int]

ASSUME VariableAssumption ==
    /\ CliffDurations \subseteq Nat
    /\ \A s \in SegmentLists : s \in Seq(Segment)
    /\ MAX_SEGMENTS \in Nat
    /\ InitialFunds \in Nat
    /\ NoRow \notin VariableRow

-----------------------------------------------------------------------------
(* The first definition walks the segments from the start of the stream,   *)
(* adding the overlap of each with [from, to].                             *)

\* Mutant: the segment is not clamped to what was claimed before.
OverlapStep_NotClamped(from, to, acc, seg) ==
    IF acc.done THEN acc
    ELSE LET hi == MinOf(to, seg.end)
         IN  [total    |-> acc.total + (hi - acc.segStart) * seg.rate,
              segStart |-> seg.end,
              done     |-> seg.end >= to]

\* The loop body; done stands for the break.
OverlapStep(from, to, acc, seg) ==
    IF acc.done THEN acc
    ELSE LET lo == MaxOf(from, acc.segStart)
             hi == MinOf(to, seg.end)
         IN  [total    |-> acc.total + (IF hi > lo THEN (hi - lo) * seg.rate ELSE 0),
              segStart |-> seg.end,
              done     |-> seg.end >= to]

ComputeVariableClaimable(segments, from, to, start) ==
    FoldLeft(LAMBDA acc, seg : OverlapStep(from, to, acc, seg),
             [total |-> 0, segStart |-> start, done |-> FALSE],
             segments).total

(* The second definition skips the segments that end before `from`.        *)

\* Mutant: the loop does not stop at the segment that contains `to`.
SkipStep_NoClamp(from, to, acc, seg) ==
    IF seg.end <= from THEN [acc EXCEPT !.prevEnd = seg.end]
    ELSE [total   |-> acc.total + (seg.end - MaxOf(acc.prevEnd, from)) * seg.rate,
          prevEnd |-> seg.end,
          done    |-> FALSE]

SkipStep(from, to, acc, seg) ==
    IF acc.done THEN acc
    ELSE IF seg.end <= from THEN [acc EXCEPT !.prevEnd = seg.end]
    ELSE LET lo == MaxOf(acc.prevEnd, from)
             hi == MinOf(seg.end, to)
         IN  [total   |-> acc.total + (IF hi > lo THEN (hi - lo) * seg.rate ELSE 0),
              prevEnd |-> seg.end,
              done    |-> seg.end >= to]

ComputeVariableClaimable2(segments, from, to) ==
    FoldLeft(LAMBDA acc, seg : SkipStep(from, to, acc, seg),
             [total |-> 0, prevEnd |-> from, done |-> FALSE],
             segments).total

\* Reference: the rate in force during ledger l + 1, the one of the first
\* segment that ends after l; and the sum of the rates from one ledger to
\* another.
RateAt(segments, l) ==
    segments[CHOOSE i \in DOMAIN segments :
                /\ segments[i].end > l
                /\ \A j \in 1..(i - 1) : segments[j].end <= l].rate

VestedBetween(segments, from, to) ==
    SumFunction([l \in from..(to - 1) |-> RateAt(segments, l)])

-----------------------------------------------------------------------------
VariableSchedule(s, cliff, segments, total) ==
    [sponsor |-> s, start |-> ledger, cliff |-> ledger + cliff,
     end |-> Last(segments).end, segments |-> segments,
     total |-> total, last |-> ledger, claimed |-> 0]

\* Every rate is positive and the ends ascend strictly from the start.
ValidSegments(segments, start) ==
    /\ Len(segments) \in 1..MAX_SEGMENTS
    /\ \A i \in DOMAIN segments :
         /\ segments[i].rate > 0
         /\ segments[i].end > (IF i = 1 THEN start ELSE segments[i - 1].end)

\* total_deposit: the rate of every segment times its length.
SegmentDeposit(segments, start) ==
    FoldLeft(LAMBDA acc, seg : [sum |-> acc.sum + seg.rate * (seg.end - acc.prev),
                                prev |-> seg.end],
             [sum |-> 0, prev |-> start], segments).sum

\* The deposit goes to the vault and the schedule is stored.
FundVariable(s, r, cliff, segments) ==
    /\ ValidSegments(segments, ledger)
    /\ LET total == SegmentDeposit(segments, ledger)
       IN  /\ CanPay(s, total)
           /\ balance' = Moved(balance, s, Vault, total)
           /\ variable' = [variable EXCEPT ![r] = VariableSchedule(s, cliff, segments, total)]
    /\ UNCHANGED <<ledger, fixedVars>>

\* Mutants: an existing stream is not looked for; the addition is not checked.
CreateVariableRateStream_Overwrites(s, r, cliff, segments) ==
    /\ s # r
    /\ ledger + cliff <= U32Max
    /\ FundVariable(s, r, cliff, segments)
CreateVariableRateStream(s, r, cliff, segments) ==
    /\ s # r
    /\ variable[r] = NoRow /\ ~HasSchedule(r)
    /\ ledger + cliff <= U32Max
    /\ FundVariable(s, r, cliff, segments)

\* What a stream has for its recipient at the current ledger.
ClaimableVariable(v) ==
    IF ledger < v.cliff THEN 0
    ELSE IF ledger >= v.end THEN v.total - v.claimed
    ELSE ComputeVariableClaimable(v.segments, v.last, ledger, v.start)

\* Mutant: the finished stream is kept.
ClaimVariableVested_NotRemoved(r) ==
    LET v      == variable[r]
        amount == ClaimableVariable(v)
    IN  /\ v # NoRow
        /\ ledger >= v.cliff
        /\ amount # 0
        /\ CanPay(Vault, amount)
        /\ balance' = Moved(balance, Vault, r, amount)
        /\ variable' = [variable EXCEPT ![r] =
                           [v EXCEPT !.last = MinOf(ledger, v.end), !.claimed = @ + amount]]
        /\ UNCHANGED <<ledger, fixedVars>>

ClaimVariableVested(r) ==
    LET v      == variable[r]
        amount == ClaimableVariable(v)
        next   == [v EXCEPT !.last = MinOf(ledger, v.end), !.claimed = @ + amount]
    IN  /\ v # NoRow
        /\ ledger >= v.cliff
        /\ amount # 0
        /\ CanPay(Vault, amount)
        /\ balance' = Moved(balance, Vault, r, amount)
        /\ variable' = [variable EXCEPT ![r] =
                           IF next.claimed >= v.total THEN NoRow ELSE next]
        /\ UNCHANGED <<ledger, fixedVars>>

-----------------------------------------------------------------------------
VariableInit ==
    /\ ledger = 1
    /\ balance = [a \in Accounts |-> IF a \in Sponsors THEN InitialFunds ELSE 0]
    /\ variable = [r \in Recipients |-> NoRow]
    /\ schedule = [r \in Recipients |-> NoRow]
    /\ scheduleById = [r \in Recipients |-> NoRow]
    /\ sponsorStreams = [s \in Sponsors |-> {}]

VariableNext ==
    \/ CloseLedger /\ UNCHANGED <<balance, variable, fixedVars>>
    \/ \E s \in Sponsors, r \in Recipients, cliff \in CliffDurations, sg \in SegmentLists :
         CreateVariableRateStream(s, r, cliff, sg)
    \/ \E r \in Recipients : ClaimVariableVested(r)

VariableSpec == VariableInit /\ [][VariableNext]_vvars

\* Ledgers keep closing, and a recipient who can claim does so in the end.
VariableFairSpec ==
    /\ VariableSpec
    /\ WF_vvars(CloseLedger /\ UNCHANGED <<balance, variable, fixedVars>>)
    /\ \A r \in Recipients : WF_vvars(ClaimVariableVested(r))

-----------------------------------------------------------------------------
LiveVariable == {r \in Recipients : variable[r] # NoRow}

\* Every storage key holds a schedule or nothing, and no account is overdrawn.
VariableTypeOK ==
    /\ ledger \in 0..U32Max
    /\ balance \in [Accounts -> Nat]
    /\ variable \in [Recipients -> VariableRow \cup {NoRow}]

\* Whatever the sequence of claims, what was paid out up to last_claimed is
\* what the segments vest up to there, and what is due up to the current
\* ledger is the rest: claims neither lose a ledger at a segment boundary
\* nor pay one twice, and the last one, computed from the deposit, agrees.
ClaimedIsVested ==
    \A r \in LiveVariable :
      LET v == variable[r]
      IN  /\ v.claimed = VestedBetween(v.segments, v.start, v.last)
          /\ ledger >= v.cliff =>
               v.claimed + ClaimableVariable(v)
                 = VestedBetween(v.segments, v.start, MinOf(ledger, v.end))

\* The vault holds exactly what the live streams still owe: no claim of one
\* recipient is paid with another's deposit.
VaultBacksVariable ==
    balance[Vault] = SumFunction([r \in LiveVariable |-> variable[r].total - variable[r].claimed])

\* The claim pointer of a live stream is between its start and the earlier
\* of its end and the current ledger, so that no subtraction of ledgers
\* underflows, and it has not moved before the cliff.
VariablePointerInv ==
    \A r \in LiveVariable :
      LET v == variable[r]
      IN  /\ v.start <= v.last /\ v.last <= ledger /\ v.last < v.end
          /\ v.start < v.last => v.cliff <= v.last
          /\ v.cliff <= U32Max

\* The claim pointer, what was paid and what is due agree after any sequence of
\* creations and claims (claim_variable_vested).
VariableInv == VariableTypeOK /\ VariablePointerInv /\ ClaimedIsVested

\* The two definitions in the file are interchangeable, and both are the sum
\* of the rates ledger by ledger, for every interval a live stream can be
\* asked for.
DefinitionsAgree ==
    \A r \in LiveVariable :
      LET v == variable[r]
      IN  \A from \in v.start..v.end : \A to \in from..v.end :
            /\ ComputeVariableClaimable(v.segments, from, to, v.start)
                 = VestedBetween(v.segments, from, to)
            /\ ComputeVariableClaimable2(v.segments, from, to)
                 = VestedBetween(v.segments, from, to)

\* A stream whose cliff and end are reached by a ledger of the run is paid
\* out in full and its row removed.
StreamsComplete ==
    \A r \in Recipients :
      (variable[r] # NoRow /\ MaxOf(variable[r].cliff, variable[r].end) <= MaxLedger)
        ~> variable[r] = NoRow
=============================================================================
