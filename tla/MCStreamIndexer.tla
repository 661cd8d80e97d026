--------------------------- MODULE MCStreamIndexer ---------------------------
(* Instances of StreamIndexer for TLC: what the ledgers of a run may hold. *)
EXTENDS StreamIndexer

CONSTANT a   \* a recipient

Ev(tx, type, r, amount) == [tx |-> tx, type |-> type, recipient |-> r, amount |-> amount]

MCEndLedger == [r \in Recipients |-> 1]

\* Creation, claims (one with an amount the decoder cannot read), a
\* cancellation and an unknown topic.
MixedLedgers ==
    { <<>>,
      << Ev(1, "StreamCreated", a, 2) >>,
      << Ev(1, "TokensClaimed", a, 1), Ev(2, Unknown, a, 1) >>,
      << Ev(1, "TokensClaimed", a, Null) >>,
      << Ev(1, "TokensClaimed", a, 1), Ev(2, "StreamCancelled", a, 1) >> }

\* One claim per ledger.
ClaimLedgers == { << Ev(1, "TokensClaimed", a, 1) >>, << Ev(1, "TokensClaimed", a, 2) >> }

\* A cancellation, or nothing.
CancelLedgers == { << Ev(1, "StreamCancelled", a, 1) >>, <<>> }
=============================================================================
