------------------------------ MODULE TxStatus ------------------------------
(***************************************************************************)
(* useTxStatus.ts: one page follows transactions it submits.  A call of    *)
(* begin is an attempt with its own hash; its promise lives on after reset *)
(* or a later begin, and its poll until its controller is aborted.  The    *)
(* hash is kept in localStorage for a reload.  A fetch whose answer was    *)
(* read is dispatched before any other event of the page, so answer and    *)
(* dispatch are one step.                                                  *)
(***************************************************************************)
EXTENDS Integers, FiniteSets

CONSTANTS
    TxAttempts,      \* calls of begin, each with one transaction
    MaxReloads,      \* bound
    MaxResets        \* bound

ASSUME TxAssumption == IsFiniteSet(TxAttempts) /\ MaxReloads \in Nat /\ MaxResets \in Nat

VARIABLES
    txPage,     \* [phase, hash, mounted]: the reducer's state; mounted: the mount effect ran
    attempt,    \* per attempt: "none", "submitting", "polling", "aborted", "over"
    txStored,   \* the hash in localStorage, or "none"
    chainTx,    \* per attempt: "unsent", "open", "success", "failed"
    reloads, resets

txVars == <<txPage, attempt, txStored, chainTx, reloads, resets>>

TxInit ==
    /\ txPage = [phase |-> "idle", hash |-> "none", mounted |-> TRUE]
    /\ attempt = [i \in TxAttempts |-> "none"]
    /\ txStored = "none"
    /\ chainTx = [i \in TxAttempts |-> "unsent"]
    /\ reloads = 0 /\ resets = 0

\* The reducer: FAILED and CONFIRMED keep the hash.
Show(phase, hash) == txPage' = [txPage EXCEPT !.phase = phase, !.hash = hash]

\* abortRef.current?.abort(): there is one controller that may not be aborted yet.
Aborted == [i \in TxAttempts |-> IF attempt[i] = "polling" THEN "aborted" ELSE attempt[i]]

\* begin: only from idle or failed; SUBMITTING clears the hash.
Begin(i) ==
    /\ txPage.mounted
    /\ txPage.phase \in {"idle", "failed"}
    /\ attempt[i] = "none"
    /\ attempt' = [attempt EXCEPT ![i] = "submitting"]
    /\ Show("submitting", "none")
    /\ UNCHANGED <<txStored, chainTx, reloads, resets>>

\* Mutant: the poll that is running is not aborted.
SubmitReturns_KeepsPoll(i) ==
    /\ attempt[i] = "submitting"
    /\ chainTx' = [chainTx EXCEPT ![i] = "open"]
    /\ txStored' = i
    /\ attempt' = [attempt EXCEPT ![i] = "polling"]
    /\ Show("pending", i)
    /\ UNCHANGED <<reloads, resets>>

\* submitFn resolves: the hash is saved and shown, another poll is aborted.
SubmitReturns(i) ==
    /\ attempt[i] = "submitting"
    /\ chainTx' = [chainTx EXCEPT ![i] = "open"]
    /\ txStored' = i
    /\ attempt' = [Aborted EXCEPT ![i] = "polling"]
    /\ Show("pending", i)
    /\ UNCHANGED <<reloads, resets>>

\* submitFn throws; a running poll of another attempt goes on.
SubmitThrows(i) ==
    /\ attempt[i] = "submitting"
    /\ attempt' = [attempt EXCEPT ![i] = "over"]
    /\ Show("failed", txPage.hash)
    /\ UNCHANGED <<txStored, chainTx, reloads, resets>>

\* pollTransaction returns a final status.
PollAnswers(i) ==
    /\ attempt[i] = "polling"
    /\ chainTx[i] \in {"success", "failed"}
    /\ attempt' = [attempt EXCEPT ![i] = "over"]
    /\ txStored' = "none"
    /\ Show(IF chainTx[i] = "success" THEN "confirmed" ELSE "failed", txPage.hash)
    /\ UNCHANGED <<chainTx, reloads, resets>>

\* 60 seconds without a final status: the transaction may still succeed.
PollTimesOut(i) ==
    /\ attempt[i] = "polling"
    /\ attempt' = [attempt EXCEPT ![i] = "over"]
    /\ txStored' = "none"
    /\ Show("failed", txPage.hash)
    /\ UNCHANGED <<chainTx, reloads, resets>>

\* The network includes the transaction, or drops it.
ChainDecides(i) ==
    /\ chainTx[i] = "open"
    /\ \E result \in {"success", "failed"} : chainTx' = [chainTx EXCEPT ![i] = result]
    /\ UNCHANGED <<txPage, attempt, txStored, reloads, resets>>

TxReset ==
    /\ resets < MaxResets
    /\ resets' = resets + 1
    /\ txPage.mounted
    /\ attempt' = Aborted
    /\ txStored' = "none"
    /\ Show("idle", "none")
    /\ UNCHANGED <<chainTx, reloads>>

\* The page is loaded again: every promise of the old one is gone.  An entry older
\* than two minutes is dropped, otherwise its hash is shown as pending.
Reload(old) ==
    /\ reloads < MaxReloads
    /\ reloads' = reloads + 1
    /\ attempt' = [i \in TxAttempts |-> IF attempt[i] = "none" THEN "none" ELSE "over"]
    /\ txStored' = IF old THEN "none" ELSE txStored
    /\ txPage' = [phase |-> IF txStored' = "none" THEN "idle" ELSE "pending", hash |-> txStored', mounted |-> FALSE]
    /\ UNCHANGED <<chainTx, resets>>

\* Mutant: the poll of a recovered transaction is not resumed.
MountEffect_NoResume(old) ==
    /\ ~txPage.mounted
    /\ txPage' = [txPage EXCEPT !.mounted = TRUE]
    /\ txStored' = IF old THEN "none" ELSE txStored
    /\ UNCHANGED <<attempt, chainTx, reloads, resets>>

\* The effect after the first render reads the entry again and resumes the poll.
\* An entry that became too old in between leaves the page pending without one.
MountEffect(old) ==
    /\ ~txPage.mounted
    /\ txPage' = [txPage EXCEPT !.mounted = TRUE]
    /\ txStored' = IF old THEN "none" ELSE txStored
    /\ attempt' = IF txPage.phase = "pending" /\ txStored' = txPage.hash
                  THEN [attempt EXCEPT ![txPage.hash] = "polling"] ELSE attempt
    /\ UNCHANGED <<chainTx, reloads, resets>>

TxNext ==
    \/ \E i \in TxAttempts : Begin(i) \/ SubmitReturns(i) \/ SubmitThrows(i)
                             \/ PollAnswers(i) \/ PollTimesOut(i) \/ ChainDecides(i)
    \/ TxReset
    \/ \E old \in BOOLEAN : Reload(old) \/ MountEffect(old)

\* A poll ends within its deadline, the mount effect runs after the render.
TxFairness ==
    /\ \A i \in TxAttempts : WF_txVars(PollAnswers(i) \/ PollTimesOut(i))
    /\ WF_txVars(MountEffect(FALSE))

TxSpec == TxInit /\ [][TxNext]_txVars /\ TxFairness

-----------------------------------------------------------------------------
(* Properties.                                                             *)

\* A hash is shown as confirmed only if that transaction succeeded, and as pending
\* only if a reload would find it in localStorage, however begin, reset, reload and
\* the polls they leave behind interleave (lines 250-353).
ShownIsTrue ==
    /\ txPage.phase = "confirmed" /\ txPage.hash # "none" => chainTx[txPage.hash] = "success"
    /\ txPage.phase = "pending" /\ (\E i \in TxAttempts : attempt[i] = "polling") => txStored = txPage.hash

\* A pending transaction is followed to an end: the page does not stay at "pending",
\* unless the entry grew too old between the render and the effect (lines 250-270).
PendingResolves == (txPage.phase = "pending" /\ txStored = txPage.hash) ~> (txPage.phase # "pending" \/ txStored = "none")

\* What the page shows is true at all times, and final in the end.
TxStatusSound == []ShownIsTrue /\ PendingResolves

=============================================================================
