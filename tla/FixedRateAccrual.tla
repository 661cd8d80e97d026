--------------------------- MODULE FixedRateAccrual ---------------------------
(***************************************************************************)
(* The fixed-rate streams with a history variable: the number of ledgers   *)
(* that closed while a stream was running, neither paused nor past its     *)
(* end.  It is counted one ledger at a time and knows nothing of the       *)
(* milestones that resume_stream shifts, so it says what a stream has      *)
(* really earned.                                                          *)
(***************************************************************************)
EXTENDS FixedRateStream

VARIABLE active     \* ledgers of running time of the stream of each recipient

hvars == <<vars, active>>

Live(r) == GetScheduleById(r) # NoRow

Running(r) ==
    /\ Live(r)
    /\ ~Paused(GetScheduleById(r))
    /\ ledger < GetScheduleById(r).end

HInit ==
    /\ Init
    /\ active = [r \in Recipients |->
                   IF Live(r) THEN ActiveEnd(schedule[r]) - schedule[r].start ELSE 0]

HTick == /\ Tick
         /\ active' = [r \in Recipients |-> IF Running(r) THEN active[r] + 1 ELSE active[r]]

HCreate == \E s \in Sponsors, r \in Recipients, a \in CreateArgs :
             /\ CreateVestingStream(s, r, a)
             /\ active' = [active EXCEPT ![r] = 0]

HTransfer == \E r, to \in Recipients :
               /\ TransferRecipient(r, to)
               /\ active' = [active EXCEPT ![to] = active[r]]

HOther == StreamCall \/ AdminCall

HNext ==
    \/ HTick
    \/ HCreate
    \/ HTransfer
    \/ (Resume \/ HOther) /\ UNCHANGED active

HSpec == HInit /\ [][HNext]_hvars

-----------------------------------------------------------------------------
\* The rows in storage are schedules, and no account is overdrawn.
TypeOK ==
    /\ ledger \in 1..MaxLedger
    /\ balance \in [Accounts -> Nat]
    /\ schedule \in [Recipients -> ScheduleRow \cup {NoRow}]
    /\ scheduleById \in [Recipients -> ScheduleRow \cup {NoRow}]
    /\ sponsorStreams \in [Sponsors -> SUBSET Recipients]
    /\ config \in Config
    /\ active \in [Recipients -> Nat]

\* The claim pointer lies between the start and the ledger up to which the
\* stream has accrued, so no subtraction of ledgers in claim, cancel,
\* clawback or resume underflows, however pauses, claims and saturating
\* additions at u32::MAX interleave; and what was claimed is what the
\* pointer says.
PointerOK(s) ==
    /\ s.rate > 0
    /\ s.start <= s.last /\ s.last <= ActiveEnd(s)
    /\ s.cliff <= s.end
    /\ Paused(s) => s.paused <= ledger
    /\ s.claimed = (s.last - s.start) * s.rate

PointerInv == \A r \in Recipients : Live(r) => PointerOK(GetScheduleById(r))

\* A stream has accrued exactly the ledgers it was running: neither a pause
\* nor the shift that ends it, nor a transfer to another recipient, adds or
\* loses one.
AccrualInv ==
    \A r \in Recipients : Live(r) =>
      ActiveEnd(GetScheduleById(r)) - GetScheduleById(r).start = active[r]

\* Never more than the rate for every ledger of running time is claimed.
ClaimedOnlyEarned ==
    \A r \in Recipients : Live(r) =>
      GetScheduleById(r).claimed <= GetScheduleById(r).rate * active[r]

\* The two storage keys of a recipient are never both in use, so no row
\* hides another.
OneKeyInUse == \A r \in Recipients : schedule[r] = NoRow \/ scheduleById[r] = NoRow

\* The conjunction that is inductive.
AccrualInvariant == TypeOK /\ OneKeyInUse /\ PointerInv /\ AccrualInv

\* Whenever tokens reach a recipient, by claim or by cancellation, they are
\* (with the fee) exactly what the stream earned and was not paid before.
PaysExactlyEarned ==
    [][\A r \in Recipients \ Sponsors :
         balance'[r] > balance[r] =>
           (balance'[r] - balance[r]) + (balance'[Treasury] - balance[Treasury])
             = GetScheduleById(r).rate * active[r] - GetScheduleById(r).claimed]_hvars

\* No recipient is paid before the cliff of the stream, which pauses move.
NothingBeforeCliff ==
    [][\A r \in Recipients \ Sponsors :
         balance'[r] > balance[r] =>
           EffectiveLedger(GetScheduleById(r)) >= GetScheduleById(r).cliff]_hvars

\* Payments are exact and never early, whichever of claim_vested, cancel_stream and
\* transfer_recipient came before.
PayoutsExact == PaysExactlyEarned /\ NothingBeforeCliff

\* Where claimable_amount reports something, it reports what the stream has
\* earned and was not paid.
ViewReportsEarnings ==
    \A r \in Recipients : ClaimableAmount(r) # 0 =>
      ClaimableAmount(r) = GetScheduleById(r).rate * active[r] - GetScheduleById(r).claimed

\* A sponsor's index lists every stream of the sponsor.
IndexComplete ==
    \A r \in Recipients : Live(r) => r \in sponsorStreams[GetScheduleById(r).sponsor]

-----------------------------------------------------------------------------
(* Statements of the documentation and of the tests.                       *)

\* "ScheduleAlreadyExists - A stream already exists for recipient": creation
\* never replaces a stream.
CreateNeverOverwrites ==
    [][\A r \in Recipients :
         HasSchedule(r) /\ GetScheduleById(r)' # NoRow /\ GetScheduleById(r)' # GetScheduleById(r)
           => GetScheduleById(r)'.claimed >= GetScheduleById(r).claimed
              /\ GetScheduleById(r)'.version >= GetScheduleById(r).version]_hvars

\* "Resumes a paused stream": its sponsor can.
PausedStreamsResumable ==
    \A r \in Recipients : Live(r) /\ Paused(GetScheduleById(r)) =>
      \E s \in Sponsors : ENABLED ResumeStream(s, r)
=============================================================================
