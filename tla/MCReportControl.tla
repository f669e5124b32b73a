-------------------------- MODULE MCReportControl --------------------------
(***************************************************************************)
(* A data set with a short and a long value: reports of changes have three *)
(* lengths, two of the longest do not fit together.                        *)
(***************************************************************************)
EXTENDS ReportControl, TLC

CONSTANTS m1, m2

TwoMembers == {m1, m2}
ShortAndLong == m1 :> 1 @@ m2 :> 2
=============================================================================
