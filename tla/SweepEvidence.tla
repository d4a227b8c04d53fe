---------------------------- MODULE SweepEvidence ----------------------------
(***************************************************************************)
(* What a failure-tolerance sweep measures, for one target endpoint.       *)
(*                                                                         *)
(* The axis values are strictly increasing stress levels (validateSweep    *)
(* refuses anything else), so a point is known by its index; 0 stands for  *)
(* a nil point.  A curve gives the successful trials at each point, and    *)
(* the SLO is put on the same scale: availability >= SLO is s >= slo.      *)
(***************************************************************************)
EXTENDS Integers

CONSTANTS
  NPoints,  \* evaluated axis values
  Trials,   \* trials per point
  Lower,    \* lower Wilson bound for each number of successes
  Upper     \* upper Wilson bound

Points == 1 .. NPoints
Counts == 0 .. Trials
Curves == [Points -> Counts]
NoPoint == 0

\* The Wilson interval contains the estimate.
ASSUME EvidenceAssumption ==
  /\ NPoints \in Nat \ {0}
  /\ Trials \in Nat \ {0}
  /\ Lower \in [Counts -> Counts] /\ Upper \in [Counts -> Counts]
  /\ \A s \in Counts : Lower[s] <= s /\ s <= Upper[s]

-----------------------------------------------------------------------------
(* The evidence a curve gives, as docs and reports define it.              *)

\* Availability never rises with stress.
Monotone(curve) == \A i \in Points : i > 1 => curve[i] <= curve[i - 1]

\* k is the end of the longest prefix of points whose lower bound meets the
\* SLO; 0 if the first point does not.
CertifiesUpTo(curve, slo, k) ==
  /\ \A i \in Points : i <= k => Lower[curve[i]] >= slo
  /\ k < NPoints => Lower[curve[k + 1]] < slo

\* The tolerance of a complete curve, as reports keep it.
CertifiedTolerance(curve, slo) == CHOOSE k \in 0 .. NPoints : CertifiesUpTo(curve, slo, k)
=============================================================================
