---------------------------- MODULE SweepBoundary ----------------------------
(***************************************************************************)
(* internal/simulation/sweep.go for one sweep and one target: every axis   *)
(* value is simulated, a first loop finds the observed crossing and a      *)
(* second, independent loop certifies a tolerance.  Targets do not         *)
(* interact, so one stands for all.                                        *)
(***************************************************************************)
EXTENDS SweepEvidence, Sequences

VARIABLES
  pc,        \* "run", "observe", "certify", "classify", "done" or "error"
  slo,       \* target.SLO
  curve,     \* successes of the points evaluated so far
  idx,       \* the loops' index
  previous,  \* previousAvailability
  boundary   \* the SweepBoundary being filled in

vars == <<pc, slo, curve, idx, previous, boundary>>

Certifications == {"", "certified", "certified_through_end", "indeterminate", "below_slo_at_start"}
Statuses == {"", "crossed", "not_crossed", "below_slo_at_start", "non_monotonic"}

Boundary == [monotonic : BOOLEAN, lastMeeting : 0 .. NPoints, firstViolating : 0 .. NPoints,
             certified : 0 .. NPoints, certification : Certifications, status : Statuses,
             bracket : (0 .. NPoints) \X (0 .. NPoints)]

Init ==
  /\ pc = "run" /\ slo \in Counts
  /\ curve = << >> /\ idx = 1 /\ previous = Trials
  /\ boundary = [monotonic |-> TRUE, lastMeeting |-> NoPoint, firstViolating |-> NoPoint,
                 certified |-> NoPoint, certification |-> "", status |-> "",
                 bracket |-> <<NoPoint, NoPoint>>]

-----------------------------------------------------------------------------
\* runSweeps simulates the base profile at the next axis value.
EvaluatePoint ==
  /\ pc = "run"
  /\ \E successes \in Counts : curve' = Append(curve, successes)
  /\ pc' = IF Len(curve') = NPoints THEN "observe" ELSE "run"
  /\ UNCHANGED <<slo, idx, previous, boundary>>

\* A point whose profile or fault overlay is refused fails the whole analysis.
PointFails ==
  /\ pc = "run"
  /\ pc' = "error"
  /\ UNCHANGED <<slo, curve, idx, previous, boundary>>

\* Mutant: a curve that rises is still taken for a boundary.
ObserveAnyShape(b) ==
  [b EXCEPT !.firstViolating = IF @ = NoPoint /\ curve[idx] < slo THEN idx ELSE @,
            !.lastMeeting    = IF b.firstViolating = NoPoint /\ curve[idx] >= slo THEN idx ELSE @]

\* What the first loop learns from point idx.
Observe(b) ==
  [b EXCEPT !.monotonic      = @ /\ ~(idx > 1 /\ curve[idx] > previous),
            !.firstViolating = IF @ = NoPoint /\ curve[idx] < slo THEN idx ELSE @,
            !.lastMeeting    = IF b.firstViolating = NoPoint /\ curve[idx] >= slo THEN idx ELSE @]

\* Mutant: the loop runs once too often.
PastLastPoint == idx > NPoints

LastPoint == idx = NPoints

ObservePoint ==
  /\ pc = "observe"
  /\ boundary' = Observe(boundary)
  /\ previous' = curve[idx]
  /\ IF LastPoint THEN pc' = "certify" /\ idx' = 1 ELSE pc' = pc /\ idx' = idx + 1
  /\ UNCHANGED <<slo, curve>>

-----------------------------------------------------------------------------
\* Mutant: the point estimate is certified.
EstimateMeets == curve[idx] >= slo

MeetsSLO == Lower[curve[idx]] >= slo

\* certifySweepBoundary: the certified prefix grows, through the last point or
\* to a point whose interval reaches below the SLO.
CertifyPoint ==
  /\ pc = "certify" /\ MeetsSLO
  /\ IF LastPoint
     THEN /\ pc' = "classify" /\ UNCHANGED idx
          /\ boundary' = [boundary EXCEPT !.certified = idx, !.certification = "certified_through_end"]
     ELSE /\ pc' = pc /\ idx' = idx + 1
          /\ boundary' = [boundary EXCEPT !.certified = idx]
  /\ UNCHANGED <<slo, curve, previous>>

\* Mutant: an interval that straddles the SLO counts as a violation.
StraddleIsViolation ==
  IF boundary.certified # NoPoint THEN "certified" ELSE "below_slo_at_start"

StopStatus ==
  IF Upper[curve[idx]] >= slo THEN "indeterminate"
  ELSE IF boundary.certified # NoPoint THEN "certified" ELSE "below_slo_at_start"

CertificationStops ==
  /\ pc = "certify" /\ ~MeetsSLO
  /\ boundary' = [boundary EXCEPT !.certification = StopStatus]
  /\ pc' = "classify"
  /\ UNCHANGED <<slo, curve, idx, previous>>

Classify ==
  /\ pc = "classify"
  /\ LET j == boundary.firstViolating IN
       boundary' = [boundary EXCEPT
         !.status = IF ~boundary.monotonic THEN "non_monotonic"
                    ELSE IF j = NoPoint THEN "not_crossed"
                    ELSE IF j = 1 THEN "below_slo_at_start" ELSE "crossed",
         !.bracket = IF boundary.monotonic /\ j > 1 THEN <<j - 1, j>> ELSE @]
  /\ pc' = "done"
  /\ UNCHANGED <<slo, curve, idx, previous>>

Next == EvaluatePoint \/ PointFails \/ ObservePoint \/ CertifyPoint \/ CertificationStops \/ Classify

Spec == Init /\ [][Next]_vars

-----------------------------------------------------------------------------
TypeOK ==
  /\ pc \in {"run", "observe", "certify", "classify", "done", "error"}
  /\ slo \in Counts /\ previous \in Counts /\ idx \in Points
  /\ curve \in Seq(Counts) /\ Len(curve) <= NPoints
  /\ pc = "run" => Len(curve) < NPoints
  /\ pc \in {"observe", "certify", "classify", "done"} => Len(curve) = NPoints
  /\ boundary \in Boundary

\* The reported tolerance is exactly the end of the longest certified prefix:
\* every point up to it is certified and the next one is not.
ToleranceExact == pc = "done" => CertifiesUpTo(curve, slo, boundary.certified)

\* The certified tolerance never exceeds the last point observed to meet the
\* SLO, although two separate loops over different data compute them.
ToleranceConservative == pc = "done" => boundary.certified <= boundary.lastMeeting

\* A reported crossing separates the grid: everything at or below the bracket's
\* lower end meets the SLO and everything from its upper end on violates it.
CrossingSeparates ==
  (pc = "done" /\ boundary.status = "crossed") =>
    \A i \in Points : curve[i] < slo <=> i >= boundary.bracket[2]

\* The certification verdict agrees with the observed curve: a supported
\* violation follows the certified prefix immediately, and a sweep certified
\* through its end was never observed below the SLO.
VerdictsAgree ==
  pc = "done" =>
    /\ boundary.certification \in {"certified", "below_slo_at_start"}
         => boundary.firstViolating = boundary.certified + 1
    /\ boundary.certification = "certified_through_end" => boundary.firstViolating = NoPoint

-----------------------------------------------------------------------------
(* The loops' invariant.                                                   *)

\* The points the first loop has visited.
Observed == CASE pc = "run" -> 0 [] pc = "observe" -> idx - 1 [] OTHER -> NPoints

ObserveInv ==
  pc # "error" =>
    /\ boundary.monotonic <=> \A i \in 2 .. Observed : curve[i] <= curve[i - 1]
    /\ boundary.firstViolating = NoPoint
         => /\ boundary.lastMeeting = Observed
            /\ \A i \in 1 .. Observed : curve[i] >= slo
    /\ boundary.firstViolating # NoPoint
         => /\ boundary.firstViolating <= Observed
            /\ boundary.lastMeeting = boundary.firstViolating - 1
            /\ curve[boundary.firstViolating] < slo
            /\ \A i \in 1 .. boundary.firstViolating - 1 : curve[i] >= slo
            /\ boundary.monotonic =>
                 \A i \in boundary.firstViolating .. Observed : curve[i] < slo
    /\ pc = "observe" /\ idx > 1 => previous = curve[idx - 1]

CertifyInv ==
  /\ pc \in {"run", "observe"} => boundary.certified = NoPoint
  /\ pc = "run" => idx = 1
  /\ pc = "certify" => boundary.certified = idx - 1
  /\ pc \in {"certify", "classify", "done"}
       => \A i \in 1 .. boundary.certified : Lower[curve[i]] >= slo
  /\ pc \in {"classify", "done"} =>
       /\ boundary.certified < NPoints => Lower[curve[boundary.certified + 1]] < slo
       /\ boundary.certification \in {"certified", "below_slo_at_start"}
            => boundary.certified < NPoints /\ Upper[curve[boundary.certified + 1]] < slo
       /\ boundary.certification = "certified_through_end" => boundary.certified = NPoints
  /\ pc = "done" /\ boundary.status = "crossed" =>
       boundary.monotonic /\ boundary.bracket[2] = boundary.firstViolating /\ boundary.firstViolating > 1

BoundaryInv == TypeOK /\ ObserveInv /\ CertifyInv
=============================================================================
