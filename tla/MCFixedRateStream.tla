-------------------------- MODULE MCFixedRateStream --------------------------
(* FixedRateAccrual for TLC.  At the first ledger an earlier deployment has  *)
(* left a running stream of the older schema, one that was claimed from, and *)
(* one that was paused before its cliff.                                     *)
EXTENDS FixedRateAccrual

CONSTANTS s1, s2

Args(rate, cliff, total) == [rate |-> rate, cliff |-> cliff, total |-> total]

Setting(minDeposit, minRate, ratio) ==
    [feeBps |-> 0, minDeposit |-> minDeposit, minRate |-> minRate, maxCliffRatio |-> ratio]

OldRow == [sponsor |-> s1, rate |-> 20, start |-> 1, cliff |-> 2, end |-> 7, last |-> 1,
           claimed |-> 0, paused |-> NotPaused, acc |-> 0, version |-> 1, schema |-> 0]

ClaimedRow == [OldRow EXCEPT !.end = 5, !.last = 2, !.claimed = 20, !.version = 3, !.schema = 2]

PausedRow == [OldRow EXCEPT !.cliff = 4, !.end = 8, !.paused = 2, !.version = 2, !.schema = 2]

MCLegacyRows == {OldRow, ClaimedRow, PausedRow}

MCCreateArgs == {Args(20, 1, 3), Args(40, 2, 4), Args(20, 2, 2), Args(20, 4, 5)}

MCTwoArgs == {Args(20, 1, 3), Args(40, 2, 4)}

MCSettings == {Setting(1, 1, 5000)}

\* Another deposit minimum, and settings the contract refuses.
MCGovernance == MCSettings \cup {Setting(9, 1, 5000), Setting(0, 0, 10001)}
=============================================================================
