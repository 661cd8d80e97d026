----------------------- MODULE MCBalanceReconciliation -----------------------
(* BalanceReconciliation for TLC: a stream that is created and claimed from. *)
EXTENDS BalanceReconciliation

CONSTANT a

Ev(tx, type, r, amount) == [tx |-> tx, type |-> type, recipient |-> r, amount |-> amount]

MCEndLedger == [r \in Recipients |-> MaxLedger]

MCLedgerContents ==
    { << Ev(1, "StreamCreated", a, 2) >>,
      << Ev(1, "TokensClaimed", a, 1) >> }
=============================================================================
