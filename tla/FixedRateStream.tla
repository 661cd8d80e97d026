--------------------------- MODULE FixedRateStream ---------------------------
(***************************************************************************)
(* Fixed-rate cliff streams of contract.rs: creation, claim, pause and     *)
(* resume, transfer, cancellation, clawback, the two drains and the        *)
(* administrator's settings.  total_claimed and claimed_amount are always  *)
(* changed together and are one field here.                                *)
(***************************************************************************)
EXTENDS ContractStorage

CONSTANTS
    CreateArgs,        \* [rate, cliff, total] arguments of create_vesting_stream
    LegacyRows,        \* schedules an earlier deployment may have left behind
    VaultFunds,        \* tokens in the vault at the start
    SponsorFunds,      \* tokens of every sponsor at the start
    FirstLedger,       \* the ledger at which the run starts
    RateDecimals,      \* RATE_DECIMALS, the divisor of calculate_total_deposit
    DrainDelay,        \* DRAIN_DELAY_LEDGERS
    MaxFeeBps,         \* MAX_FEE_BPS
    FeeChoices,        \* fee_bps arguments tried
    Settings,          \* initial and alternative governance settings
    ClawbackEnabled    \* the token has AUTH_CLAWBACK_ENABLED_FLAG

VARIABLE config        \* fee and governance settings in instance storage

vars == <<ledger, balance, variable, fixedVars, config>>

NotPaused == -1
BPS == 10000

ScheduleRow ==
    [sponsor : Sponsors, rate : Nat, start : 0..U32Max, cliff : 0..U32Max,
     end : 0..U32Max, last : 0..U32Max, claimed : Nat,
     paused : 0..U32Max \cup {NotPaused}, acc : 0..U32Max,
     version : Nat, schema : Nat]

Config == [feeBps : 0..MaxFeeBps, minDeposit : Nat, minRate : Nat, maxCliffRatio : Nat]

ASSUME FixedAssumption ==
    /\ FirstLedger \in 1..MaxLedger
    /\ CreateArgs \subseteq [rate : Int, cliff : 0..U32Max, total : 0..U32Max]
    /\ RateDecimals \in Nat \ {0} /\ DrainDelay \in Nat
    /\ VaultFunds \in Nat /\ SponsorFunds \in Nat /\ MaxFeeBps \in Nat /\ MaxFeeBps <= BPS
    /\ FeeChoices \subseteq Nat /\ Settings \subseteq Config
    /\ ClawbackEnabled \in BOOLEAN
    /\ NoRow \notin ScheduleRow

\* A legacy row is one the contract could have written by the first ledger.
ASSUME LegacyAssumption ==
    \A s \in LegacyRows :
      /\ s \in ScheduleRow
      /\ s.rate > 0 /\ s.start <= s.last /\ s.last <= s.end /\ s.cliff <= s.end
      /\ s.last <= (IF s.paused # NotPaused THEN s.paused ELSE FirstLedger)
      /\ s.paused <= FirstLedger
      /\ s.claimed = (s.last - s.start) * s.rate

-----------------------------------------------------------------------------
Paused(s) == s.paused # NotPaused

\* The ledger up to which a stream has accrued: frozen while it is paused.
EffectiveLedger(s) == IF Paused(s) THEN s.paused ELSE ledger

ActiveEnd(s) == MinOf(EffectiveLedger(s), s.end)

\* What the contract takes a stream's deposit to be when it pays out.
TotalDeposited(s) == (s.end - s.start) * s.rate

\* What create_vesting_stream asks the sponsor for.
CalculateTotalDeposit(rate, duration) == (rate * duration) \div RateDecimals

Fee(amount) == (amount * config.feeBps) \div BPS

\* increment_version fails at u32::MAX.
IncrementVersion(s, n) == [s EXCEPT !.version = @ + n]

NewSchedule(s, args) ==
    [sponsor |-> s, rate |-> args.rate, start |-> ledger, cliff |-> ledger + args.cliff,
     end |-> ledger + args.total, last |-> ledger, claimed |-> 0, paused |-> NotPaused,
     acc |-> 0, version |-> 1, schema |-> CURRENT_SCHEMA_VERSION]

ValidArgs(args) ==
    /\ args.rate > 0 /\ args.rate >= config.minRate
    /\ args.cliff # 0 /\ args.total > args.cliff
    /\ (args.cliff * BPS) \div args.total <= config.maxCliffRatio
    /\ ledger + args.total <= U32Max
    /\ args.rate * args.total >= config.minDeposit
    /\ CalculateTotalDeposit(args.rate, args.total) >= config.minDeposit

\* There is no test for an existing schedule, and stream 0 is written
\* whatever next_stream_id returned.
CreateVestingStream(s, r, args) ==
    /\ s # r
    /\ ValidArgs(args)
    /\ LET deposit == CalculateTotalDeposit(args.rate, args.total)
           paid    == Moved(balance, s, Vault, deposit)
       IN  /\ CanPay(s, deposit)
           /\ balance' = Moved(paid, Vault, Treasury, Fee(deposit))
    /\ SetSchedule(r, NewSchedule(s, args))
    /\ AddSponsorStream(s, r)
    /\ UNCHANGED <<ledger, variable, config>>

-----------------------------------------------------------------------------
Claimable(s) ==
    IF ledger >= s.end THEN TotalDeposited(s) - s.claimed
    ELSE (ActiveEnd(s) - s.last) * s.rate

\* claim_vested of the one stream a recipient can have.  The version is
\* incremented before and after the amount is computed.
ClaimVested(r) ==
    LET s      == GetScheduleById(r)
        amount == Claimable(s)
        fee    == Fee(amount)
        paid   == Moved(balance, Vault, Treasury, fee)
        next   == [IncrementVersion(s, 2) EXCEPT !.last = ActiveEnd(s), !.claimed = @ + amount]
    IN  /\ s # NoRow
        /\ ~Paused(s)
        /\ ledger >= s.cliff
        /\ amount # 0
        /\ CanPay(Vault, amount)
        /\ balance' = Moved(paid, Vault, r, amount - fee)
        /\ IF next.claimed >= TotalDeposited(s) THEN RemoveSchedule(r) ELSE SetSchedule(r, next)
        /\ UNCHANGED <<ledger, variable, sponsorStreams, config>>

PauseStream(s, r) ==
    LET row == GetSchedule(r)
    IN  /\ row # NoRow
        /\ row.sponsor = s
        /\ ~Paused(row)
        /\ SetSchedule(r, [IncrementVersion(row, 1) EXCEPT !.paused = ledger])
        /\ UNCHANGED <<ledger, balance, variable, sponsorStreams, config>>

\* Mutant: the pause only ends.
Resumed_NoShift(row) == [row EXCEPT !.paused = NotPaused, !.version = @ + 1]

\* Every milestone moves by the length of the pause.  The file defines
\* resume_stream twice; this is the first definition, the one whose claim
\* pointer moves too.
Resumed(row) ==
    LET d == ledger - row.paused
    IN  [row EXCEPT !.acc     = SaturatingAdd(@, d),
                    !.start   = SaturatingAdd(@, d),
                    !.cliff   = SaturatingAdd(@, d),
                    !.end     = SaturatingAdd(@, d),
                    !.last    = SaturatingAdd(@, d),
                    !.paused  = NotPaused,
                    !.version = @ + 1]

ResumeStream(s, r) ==
    LET row == GetSchedule(r)
    IN  /\ row # NoRow
        /\ row.sponsor = s
        /\ Paused(row)
        /\ SetSchedule(r, Resumed(row))
        /\ UNCHANGED <<ledger, balance, variable, sponsorStreams, config>>

-----------------------------------------------------------------------------
\* Mutant: the pause is ignored.
EarnedAtCancel_IgnoresPause(s) ==
    IF ledger >= s.cliff THEN (MinOf(ledger, s.end) - s.last) * s.rate ELSE 0

\* What cancellation pays to the recipient.
EarnedAtCancel(s) ==
    IF EffectiveLedger(s) >= s.cliff THEN (ActiveEnd(s) - s.last) * s.rate ELSE 0

CancelStream(s, r) ==
    LET row    == GetScheduleById(r)
        share  == EarnedAtCancel(row)
        refund == MaxOf(TotalDeposited(row) - row.claimed - share, 0)
        paid   == Moved(balance, Vault, r, share)
    IN  /\ s # r
        /\ row # NoRow
        /\ row.sponsor = s
        /\ CanPay(Vault, share + refund)
        /\ balance' = Moved(paid, Vault, s, refund)
        /\ RemoveSchedule(r)
        /\ RemoveSponsorStream(s, r)
        /\ UNCHANGED <<ledger, variable, config>>

\* Mutant: the stream restarts with its new recipient.
TransferRecipient_Restarts(r, to) ==
    LET row == GetSchedule(r)
    IN  /\ r # to
        /\ row # NoRow
        /\ ~HasSchedule(to)
        /\ MoveSchedule(r, to, [row EXCEPT !.start = row.last, !.claimed = 0])
        /\ sponsorStreams' = [sponsorStreams EXCEPT ![row.sponsor] = (@ \ {r}) \cup {to}]
        /\ UNCHANGED <<ledger, balance, variable, config>>

\* Mutant: the sponsor's index is not updated.
TransferRecipient_ForgetsIndex(r, to) ==
    LET row == GetSchedule(r)
    IN  /\ r # to
        /\ row # NoRow
        /\ ~HasSchedule(to)
        /\ MoveSchedule(r, to, row)
        /\ UNCHANGED <<ledger, balance, variable, config, sponsorStreams>>

TransferRecipient(r, to) ==
    LET row == GetSchedule(r)
    IN  /\ r # to
        /\ row # NoRow
        /\ ~HasSchedule(to)
        /\ MoveSchedule(r, to, row)
        /\ sponsorStreams' = [sponsorStreams EXCEPT ![row.sponsor] = (@ \ {r}) \cup {to}]
        /\ UNCHANGED <<ledger, balance, variable, config>>

\* A row leaves storage and `amount`, if any, goes back to its sponsor.
Refunded(r, row, amount) ==
    /\ CanPay(Vault, amount)
    /\ balance' = Moved(balance, Vault, row.sponsor, amount)
    /\ RemoveSchedule(r)
    /\ RemoveSponsorStream(row.sponsor, r)
    /\ UNCHANGED <<ledger, variable, config>>

ClawbackStream(s, r) ==
    LET row == GetScheduleById(r)
    IN  /\ row # NoRow
        /\ row.sponsor = s
        /\ ClawbackEnabled
        /\ Refunded(r, row, (row.end - row.last) * row.rate)

\* Any caller.
DrainExpiredStream(r) ==
    LET row == GetSchedule(r)
    IN  /\ row # NoRow
        /\ row.end + DrainDelay <= U32Max
        /\ ledger >= row.end + DrainDelay
        /\ Refunded(r, row, MaxOf(CalculateTotalDeposit(row.rate, row.end - row.start)
                                    - row.claimed, 0))

EmergencyDrain(s, r) ==
    LET row == GetSchedule(r)
    IN  /\ row # NoRow
        /\ row.sponsor = s
        /\ ledger >= row.end
        /\ ledger >= SaturatingAdd(row.end, DrainDelay)
        /\ Refunded(r, row, TotalDeposited(row) - row.claimed)

\* migrate_schedule: the row is read, which migrates it, and the call returns
\* early because every row has a version.  A current row stays where it is.
MigrateSchedule(r) ==
    /\ GetScheduleReadonly(r) # NoRow
    /\ GetScheduleReadonly(r).schema < CURRENT_SCHEMA_VERSION
    /\ SetSchedule(r, GetSchedule(r))
    /\ UNCHANGED <<ledger, balance, variable, sponsorStreams, config>>

SetFee(fee) ==
    /\ fee <= MaxFeeBps
    /\ config' = [config EXCEPT !.feeBps = fee]
    /\ UNCHANGED <<ledger, balance, variable, fixedVars>>

SetMinDeposit(d) ==
    /\ d > 0
    /\ config' = [config EXCEPT !.minDeposit = d]
    /\ UNCHANGED <<ledger, balance, variable, fixedVars>>

SetConfig(to) ==
    /\ \/ /\ to.maxCliffRatio <= BPS
          /\ config' = [config EXCEPT !.maxCliffRatio = to.maxCliffRatio]
       \/ /\ to.minRate >= 1
          /\ config' = [config EXCEPT !.minRate = to.minRate]
    /\ UNCHANGED <<ledger, balance, variable, fixedVars>>

-----------------------------------------------------------------------------
(* Views: they read the legacy key only.                                   *)

StreamStatusOf(r) ==
    LET s == GetScheduleReadonly(r)
    IN  IF s = NoRow             THEN "NotFound"
        ELSE IF Paused(s)        THEN "Paused"
        ELSE IF ledger < s.cliff THEN "PreCliff"
        ELSE IF ledger < s.end   THEN "Active"
        ELSE "Expired"

\* Mutant: earlier claims are not subtracted at the end.
ClaimableAmount_ForgetsClaims(r) ==
    LET s == GetScheduleReadonly(r)
    IN  IF StreamStatusOf(r) \notin {"Active", "Expired"} THEN 0
        ELSE IF ledger >= s.end THEN TotalDeposited(s) ELSE Claimable(s)

ClaimableAmount(r) ==
    IF StreamStatusOf(r) \notin {"Active", "Expired"} THEN 0 ELSE Claimable(GetScheduleReadonly(r))

-----------------------------------------------------------------------------
Init ==
    /\ ledger = FirstLedger
    /\ schedule \in [Recipients -> LegacyRows \cup {NoRow}]
    /\ scheduleById = [r \in Recipients |-> NoRow]
    /\ variable = [r \in Recipients |-> NoRow]
    /\ sponsorStreams =
         [s \in Sponsors |-> {r \in Recipients : schedule[r] # NoRow /\ schedule[r].sponsor = s}]
    /\ balance = [a \in Accounts |-> CASE a = Vault      -> VaultFunds
                                       [] a \in Sponsors -> SponsorFunds
                                       [] OTHER          -> 0]
    /\ config \in {c \in Settings : /\ c.feeBps = 0 /\ c.minDeposit > 0
                                     /\ c.minRate > 0 /\ c.maxCliffRatio <= BPS}

Tick == CloseLedger /\ UNCHANGED <<balance, variable, fixedVars, config>>

Create == \E s \in Sponsors, r \in Recipients, a \in CreateArgs : CreateVestingStream(s, r, a)

Resume == \E s \in Sponsors, r \in Recipients : ResumeStream(s, r)

Transfer == \E r, to \in Recipients : TransferRecipient(r, to)

\* Calls on an existing stream, other than resume and transfer.
StreamCall ==
    \E r \in Recipients :
      \/ ClaimVested(r)
      \/ DrainExpiredStream(r)
      \/ MigrateSchedule(r)
      \/ \E s \in Sponsors : \/ PauseStream(s, r)
                             \/ CancelStream(s, r)
                             \/ ClawbackStream(s, r)
                             \/ EmergencyDrain(s, r)

AdminCall ==
    \/ \E f \in FeeChoices : SetFee(f)
    \/ \E c \in Settings : SetMinDeposit(c.minDeposit) \/ SetConfig(c)

Next == Tick \/ Create \/ Resume \/ Transfer \/ StreamCall \/ AdminCall

Spec == Init /\ [][Next]_vars
=============================================================================
