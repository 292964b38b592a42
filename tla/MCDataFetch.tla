----------------------------- MODULE MCDataFetch -----------------------------
(* Six calendar days, the fourth of them no session. The vendor has bars      *)
(* from the second day on, or of all days but one in the middle.              *)
EXTENDS DataFetch

MCSessions == {1, 2, 3, 5, 6}
MCTapes == {{2, 3, 5, 6}, {1, 2, 5, 6}}
MCFullTape == {MCSessions}
MCHistory == {0}
MCAnyStart == 0 .. 5
=============================================================================
