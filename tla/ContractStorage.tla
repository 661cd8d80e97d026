--------------------------- MODULE ContractStorage ---------------------------
(***************************************************************************)
(* What the Soroban contract keeps between calls: the ledger sequence, the *)
(* token balances of one token, and the storage keys of storage.rs.  A     *)
(* contract call is one transaction: it either returns Ok and all of its   *)
(* writes are kept, or it returns an error and none is.  Calls are         *)
(* therefore single actions, and an error is a disabled action.            *)
(* TTL extensions do not change a value and are left out.                  *)
(***************************************************************************)
EXTENDS Integers, FiniteSets

CONSTANTS
    Sponsors,       \* accounts that fund streams
    Recipients,     \* accounts that streams are made out to
    Vault,          \* the contract's own token account
    Treasury,       \* the account fees go to
    U32Max,         \* u32::MAX
    MaxLedger,      \* bound: the last ledger explored
    NoRow           \* a storage key that holds nothing

ASSUME LedgerAssumption == U32Max \in Nat /\ MaxLedger \in 1..U32Max

ASSUME AccountAssumption ==
    /\ IsFiniteSet(Sponsors) /\ IsFiniteSet(Recipients)
    /\ Vault # Treasury /\ {Vault, Treasury} \cap (Sponsors \cup Recipients) = {}

VARIABLES
    ledger,          \* env.ledger().sequence()
    balance,         \* token balances
    schedule,        \* DataKey::Schedule(recipient): rows of earlier deployments
    scheduleById,    \* DataKey::ScheduleById(recipient, 0)
    variable,        \* DataKey::VariableSchedule(recipient)
    sponsorStreams   \* DataKey::SponsorStreams(sponsor)

fixedVars == <<schedule, scheduleById, sponsorStreams>>

Accounts == Sponsors \cup Recipients \cup {Vault, Treasury}

MinOf(x, y) == IF x <= y THEN x ELSE y
MaxOf(x, y) == IF x >= y THEN x ELSE y

CURRENT_SCHEMA_VERSION == 2

SaturatingAdd(x, y) == MinOf(x + y, U32Max)

-----------------------------------------------------------------------------
(* Fixed-rate schedules.  The legacy key and the key of stream 0 may both  *)
(* be looked up, but get_schedule reads only the former and set_schedule   *)
(* writes only the latter.                                                 *)

\* migration::migrate_schedule, on a row that was read.
Migrated(s) == [s EXCEPT !.schema = MaxOf(@, CURRENT_SCHEMA_VERSION)]

\* get_schedule stores a row it had to migrate under the new key.  Every
\* handler that finds a row goes on to store or remove it, so what the
\* migration leaves behind is seen only in MigrateSchedule.
GetSchedule(r) == IF schedule[r] = NoRow THEN NoRow ELSE Migrated(schedule[r])

GetScheduleReadonly(r) == schedule[r]

HasSchedule(r) == schedule[r] # NoRow \/ scheduleById[r] # NoRow

\* get_schedule_by_id(r, 0), called but not defined: as get_stream_ids uses
\* the keys, the new one first and the legacy one for stream 0.
GetScheduleById(r) == IF scheduleById[r] # NoRow THEN scheduleById[r] ELSE schedule[r]

SetSchedule(r, s) ==
    /\ scheduleById' = [scheduleById EXCEPT ![r] = s]
    /\ schedule' = [schedule EXCEPT ![r] = NoRow]

RemoveSchedule(r) ==
    /\ scheduleById' = [scheduleById EXCEPT ![r] = NoRow]
    /\ schedule' = [schedule EXCEPT ![r] = NoRow]

\* The schedule of `from` moves to `to`.
MoveSchedule(from, to, s) ==
    /\ scheduleById' = [scheduleById EXCEPT ![from] = NoRow, ![to] = s]
    /\ schedule' = [schedule EXCEPT ![from] = NoRow, ![to] = NoRow]

AddSponsorStream(s, r) ==
    sponsorStreams' = [sponsorStreams EXCEPT ![s] = @ \cup {r}]

RemoveSponsorStream(s, r) ==
    sponsorStreams' = [sponsorStreams EXCEPT ![s] = @ \ {r}]

-----------------------------------------------------------------------------
(* The token contract (external).  A transfer fails without the balance.   *)

CanPay(from, amount) == balance[from] >= amount

Moved(bal, from, to, amount) ==
    [bal EXCEPT ![from] = @ - amount, ![to] = @ + amount]

\* A ledger closes.
CloseLedger ==
    /\ ledger < MaxLedger
    /\ ledger' = ledger + 1
=============================================================================
