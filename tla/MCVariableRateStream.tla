------------------------ MODULE MCVariableRateStream ------------------------
(* VariableRateStream for TLC: lists of segments that are accepted at some  *)
(* ledgers and rejected at others, one descending list, one with a zero     *)
(* rate and one that is too long.                                           *)
EXTENDS VariableRateStream

Seg(end, rate) == [end |-> end, rate |-> rate]

MCSegmentLists ==
    { << Seg(4, 2) >>,
      << Seg(3, 1), Seg(6, 3) >>,
      << Seg(4, 3), Seg(5, 1), Seg(7, 2) >>,
      << Seg(5, 1), Seg(3, 2) >>,
      << Seg(3, 0), Seg(5, 1) >>,
      << Seg(2, 1), Seg(3, 1), Seg(4, 1), Seg(5, 1) >> }
=============================================================================
