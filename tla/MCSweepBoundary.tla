--------------------------- MODULE MCSweepBoundary ---------------------------
(* A sweep of four points with four trials each.  The interval is one trial  *)
(* wide on either side, so it can lie above, below and across the SLO.       *)
EXTENDS SweepBoundary

MCLower == [s \in 0 .. 4 |-> IF s = 0 THEN 0 ELSE s - 1]
MCUpper == [s \in 0 .. 4 |-> IF s = 4 THEN 4 ELSE s + 1]
=============================================================================
