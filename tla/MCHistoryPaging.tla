-------------------------- MODULE MCHistoryPaging ---------------------------
(***************************************************************************)
(* Five transactions over two instants and pages of two: full pages, ties  *)
(* of the clock, and rows that sort above, below and between the pages     *)
(* already read.                                                           *)
(***************************************************************************)
EXTENDS HistoryPaging

MCId == 1..5
MCAmount == {1, -1}
MCClockSteps == {-1, 1}
=============================================================================
