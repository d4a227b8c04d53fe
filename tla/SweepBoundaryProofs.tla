------------------------- MODULE SweepBoundaryProofs -------------------------
(***************************************************************************)
(* Proofs about sweep boundaries for every number of points and trials and *)
(* every interval that contains its estimate.                              *)
(***************************************************************************)
EXTENDS SweepBoundary, SequenceTheorems, TLAPS

USE DEF NoPoint

\* The sizes of a sweep, and what is used of its confidence intervals.
LEMMA Sizes == NPoints \in Nat /\ 1 <= NPoints /\ Trials \in Nat
  BY EvidenceAssumption

LEMMA Intervals ==
  \A s \in Counts : /\ Lower[s] \in Int /\ Upper[s] \in Int /\ s \in Int
                     /\ Lower[s] <= s /\ s <= Upper[s]
  BY EvidenceAssumption DEF Counts

\* The second loop's updates keep the boundary a boundary.
LEMMA UpdateCertified ==
  ASSUME NEW b \in Boundary, NEW k \in 0 .. NPoints, NEW c \in Certifications
  PROVE  /\ [b EXCEPT !.certified = k] \in Boundary
         /\ [b EXCEPT !.certification = c] \in Boundary
         /\ [b EXCEPT !.certified = k, !.certification = c] \in Boundary
  BY DEF Boundary

\* The start of a sweep satisfies the loops' invariant.
LEMMA InitInv == Init => BoundaryInv
<1> SUFFICES ASSUME Init PROVE BoundaryInv
  OBVIOUS
<1>1. boundary \in Boundary
  <2>1. 0 \in 0 .. NPoints /\ "" \in Certifications /\ "" \in Statuses
    BY Sizes DEF Certifications, Statuses
  <2>. QED
    BY <2>1 DEF Init, Boundary
<1>2. TypeOK
  <2>1. curve \in Seq(Counts) /\ Len(curve) = 0
    BY EmptySeq DEF Init
  <2>2. pc = "run" /\ slo \in Counts /\ previous = Trials /\ idx = 1
    BY DEF Init
  <2>3. previous \in Counts /\ idx \in Points
    BY Sizes, <2>2 DEF Counts, Points
  <2>4. 0 <= NPoints /\ 0 < NPoints
    BY Sizes
  <2>. QED
    BY <1>1, <2>1, <2>2, <2>3, <2>4 DEF TypeOK
<1>3. ObserveInv
  <2>1. /\ pc = "run" /\ idx = 1 /\ boundary.monotonic = TRUE
        /\ boundary.firstViolating = 0 /\ boundary.lastMeeting = 0
    BY DEF Init
  <2>2. Observed = 0
    BY <2>1 DEF Observed
  <2>. QED
    BY <2>1, <2>2 DEF ObserveInv
<1>4. CertifyInv
  BY Sizes DEF Init, CertifyInv
<1>. QED
  BY <1>2, <1>3, <1>4 DEF BoundaryInv

\* A new point does not disturb what no loop has looked at yet.
LEMMA RunInv == ASSUME BoundaryInv, EvaluatePoint \/ PointFails PROVE BoundaryInv'
<1>1. UNCHANGED <<slo, idx, previous, boundary>> /\ pc = "run" /\ curve \in Seq(Counts)
  BY Sizes DEF BoundaryInv, TypeOK, EvaluatePoint, PointFails
<1>2. TypeOK'
  <2>1. CASE PointFails
    BY Sizes, <1>1, <2>1 DEF BoundaryInv, TypeOK, PointFails
  <2>2. CASE EvaluatePoint
    <3>1. PICK s \in Counts : curve' = Append(curve, s)
      BY Sizes, <2>2 DEF EvaluatePoint
    <3>2. curve' \in Seq(Counts) /\ Len(curve') = Len(curve) + 1
      BY Sizes, <1>1, <3>1, AppendProperties
    <3>. QED
      BY Sizes, <1>1, <2>2, <3>2 DEF BoundaryInv, TypeOK, EvaluatePoint
  <2>. QED
    BY Sizes, <2>1, <2>2
<1>3. ObserveInv'
  <2>1. idx = 1 /\ Observed = 0 /\ boundary \in Boundary
    BY <1>1 DEF BoundaryInv, TypeOK, CertifyInv, Observed
  <2>2. pc' \in {"run", "observe", "error"} /\ (pc' # "error" => Observed' = 0)
    BY <1>1, <2>1 DEF EvaluatePoint, PointFails, Observed
  <2>3. boundary.firstViolating = 0 /\ boundary.lastMeeting = 0
    BY <1>1, <2>1 DEF BoundaryInv, ObserveInv, Boundary
  <2>4. boundary.monotonic <=> \A i \in 2 .. 0 : curve'[i] <= curve'[i - 1]
    BY <1>1, <2>1 DEF BoundaryInv, ObserveInv
  <2>. QED
    BY <1>1, <2>1, <2>2, <2>3, <2>4 DEF ObserveInv
<1>4. CertifyInv'
  BY Sizes, <1>1 DEF BoundaryInv, CertifyInv, EvaluatePoint, PointFails
<1>. QED
  BY Sizes, <1>2, <1>3, <1>4 DEF BoundaryInv

\* The observing loop extends what it knows by one point.
LEMMA ObservePointInv == ASSUME BoundaryInv, ObservePoint PROVE BoundaryInv'
<1>1. /\ pc = "observe" /\ boundary' = Observe(boundary) /\ previous' = curve[idx]
      /\ UNCHANGED <<slo, curve>> /\ curve \in [Points -> Counts]
      /\ idx \in Points /\ boundary \in Boundary
  BY Sizes, LenProperties DEF BoundaryInv, TypeOK, ObservePoint, Points
<1>2. /\ boundary' \in Boundary /\ boundary'.certified = boundary.certified
      /\ boundary'.certification = boundary.certification
      /\ boundary'.status = boundary.status
      /\ boundary'.monotonic = (boundary.monotonic /\ ~(idx > 1 /\ curve[idx] > previous))
      /\ boundary'.firstViolating
           = IF boundary.firstViolating = 0 /\ curve[idx] < slo THEN idx ELSE boundary.firstViolating
      /\ boundary'.lastMeeting
           = IF boundary.firstViolating = 0 /\ curve[idx] >= slo THEN idx ELSE boundary.lastMeeting
  <2> DEFINE m == boundary.monotonic /\ ~(idx > 1 /\ curve[idx] > previous)
             f == IF boundary.firstViolating = 0 /\ curve[idx] < slo
                  THEN idx ELSE boundary.firstViolating
             l == IF boundary.firstViolating = 0 /\ curve[idx] >= slo
                  THEN idx ELSE boundary.lastMeeting
  <2>1. boundary' = [boundary EXCEPT !.monotonic = m, !.firstViolating = f, !.lastMeeting = l]
    BY <1>1 DEF Observe
  <2>2. m \in BOOLEAN
    BY <1>1
  <2>3. f \in 0 .. NPoints /\ l \in 0 .. NPoints
    BY Sizes, <1>1 DEF Boundary, Points
  <2> HIDE DEF m, f, l
  <2>4. /\ boundary' \in Boundary /\ boundary'.certified = boundary.certified
        /\ boundary'.certification = boundary.certification
        /\ boundary'.status = boundary.status
        /\ boundary'.monotonic = m /\ boundary'.firstViolating = f /\ boundary'.lastMeeting = l
    BY <1>1, <2>1, <2>2, <2>3 DEF Boundary
  <2>. QED
    BY <2>4 DEF m, f, l
<1>3. /\ boundary'.monotonic = (boundary.monotonic /\ ~(idx > 1 /\ curve[idx] > previous))
      /\ boundary'.firstViolating
           = IF boundary.firstViolating = 0 /\ curve[idx] < slo THEN idx ELSE boundary.firstViolating
      /\ boundary'.lastMeeting
           = IF boundary.firstViolating = 0 /\ curve[idx] >= slo THEN idx ELSE boundary.lastMeeting
  BY <1>2
<1>4. Observed = idx - 1 /\ Observed' = idx
  BY Sizes, <1>1 DEF Observed, ObservePoint, LastPoint, Points
<1>5. TypeOK'
  BY Sizes, <1>1, <1>2 DEF BoundaryInv, TypeOK, ObservePoint, LastPoint, Points, Counts
<1>6. ObserveInv'
  <2>1. slo \in Int /\ idx \in Int /\ \A i \in 1 .. idx : curve[i] \in Int
    BY Sizes, <1>1 DEF BoundaryInv, TypeOK, Counts, Points
  <2>2. boundary'.monotonic <=> \A i \in 2 .. idx : curve[i] <= curve[i - 1]
    <3>1. boundary.monotonic <=> \A i \in 2 .. idx - 1 : curve[i] <= curve[i - 1]
      BY Sizes, <1>1, <1>4 DEF BoundaryInv, ObserveInv
    <3>2. idx > 1 => previous = curve[idx - 1]
      BY Sizes, <1>1 DEF BoundaryInv, ObserveInv
    <3>3. (\A i \in 2 .. idx : curve[i] <= curve[i - 1])
            <=> (\A i \in 2 .. idx - 1 : curve[i] <= curve[i - 1])
                  /\ ~(idx > 1 /\ curve[idx] > previous)
      BY <1>1, <2>1, <3>2 DEF Points
    <3>. QED
      BY <1>3, <3>1, <3>3, Zenon
  <2>3. boundary'.firstViolating = 0
          => boundary'.lastMeeting = idx /\ \A i \in 1 .. idx : curve[i] >= slo
    BY Sizes, <1>1, <1>3, <1>4, <2>1 DEF BoundaryInv, ObserveInv, Points
  <2>4. boundary'.firstViolating # 0
          => /\ boundary'.firstViolating <= idx
             /\ boundary'.lastMeeting = boundary'.firstViolating - 1
             /\ curve[boundary'.firstViolating] < slo
             /\ \A i \in 1 .. boundary'.firstViolating - 1 : curve[i] >= slo
    <3>1. CASE boundary.firstViolating = 0
      <4>1. boundary.lastMeeting = idx - 1 /\ \A i \in 1 .. idx - 1 : curve[i] >= slo
        BY <1>1, <1>4, <3>1 DEF BoundaryInv, ObserveInv
      <4>. QED
        BY <1>1, <1>3, <2>1, <3>1, <4>1 DEF Points
    <3>2. CASE boundary.firstViolating # 0
      <4>1. /\ boundary.firstViolating <= idx - 1 /\ boundary.firstViolating \in Int
            /\ boundary.lastMeeting = boundary.firstViolating - 1
            /\ curve[boundary.firstViolating] < slo
            /\ \A i \in 1 .. boundary.firstViolating - 1 : curve[i] >= slo
        BY <1>1, <1>4, <3>2 DEF BoundaryInv, ObserveInv, Boundary
      <4>. QED
        BY <1>3, <2>1, <3>2, <4>1
    <3>. QED
      BY <3>1, <3>2
  <2>6. ASSUME boundary'.firstViolating # 0, boundary'.monotonic,
               NEW i \in boundary'.firstViolating .. idx
        PROVE  curve[i] < slo
    <3>1. CASE boundary'.firstViolating = idx
      BY Sizes, <2>4, <2>6, <3>1, <2>1
    <3>2. CASE boundary'.firstViolating # idx
      <4>1. /\ boundary.firstViolating # 0 /\ boundary'.firstViolating = boundary.firstViolating
            /\ boundary.monotonic /\ boundary.firstViolating \in 1 .. idx - 1
        BY Sizes, <1>1, <1>3, <1>4, <2>6, <3>2 DEF BoundaryInv, ObserveInv, Boundary, Points
      <4>2. \A k \in boundary.firstViolating .. idx - 1 : curve[k] < slo
        BY Sizes, <1>1, <1>4, <4>1 DEF BoundaryInv, ObserveInv
      <4>3. curve[idx] <= curve[idx - 1]
        BY <2>1, <2>2, <2>6, <4>1
      <4>. QED
        BY Sizes, <2>1, <2>6, <4>1, <4>2, <4>3
    <3>. QED
      BY Sizes, <3>1, <3>2
  <2>5. (pc' = "observe" /\ idx' > 1) => previous' = curve'[idx' - 1]
    BY Sizes, <1>1, <2>1 DEF ObservePoint, LastPoint
  <2>. QED
    BY Sizes, <1>1, <1>4, <2>2, <2>3, <2>4, <2>5, <2>6 DEF ObserveInv
<1>7. CertifyInv'
  BY Sizes, <1>1, <1>2 DEF BoundaryInv, CertifyInv, ObservePoint, LastPoint
<1>. QED
  BY Sizes, <1>5, <1>6, <1>7 DEF BoundaryInv

\* The certifying loop extends the certified prefix by one point or stops.
LEMMA CertifyPointInv ==
  ASSUME BoundaryInv, CertifyPoint \/ CertificationStops PROVE BoundaryInv'
<1>1. /\ pc = "certify" /\ UNCHANGED <<slo, curve, previous>> /\ curve \in [Points -> Counts]
      /\ idx \in Points /\ boundary \in Boundary /\ boundary.certified = idx - 1
      /\ pc' \in {"certify", "classify"}
  BY Sizes, LenProperties DEF BoundaryInv, TypeOK, CertifyInv, CertifyPoint, CertificationStops, Points
<1>2. /\ boundary'.monotonic = boundary.monotonic /\ boundary'.status = boundary.status
      /\ boundary'.lastMeeting = boundary.lastMeeting
      /\ boundary'.firstViolating = boundary.firstViolating
  BY Sizes, <1>1 DEF CertifyPoint, CertificationStops, Boundary
<1>3. TypeOK'
  <2>1. boundary' \in Boundary
    <3>1. idx \in 0 .. NPoints /\ StopStatus \in Certifications
          /\ "certified_through_end" \in Certifications
      BY Sizes, <1>1 DEF StopStatus, Certifications, Points
    <3>2. CASE CertifyPoint /\ LastPoint
      <4>1. boundary' = [boundary EXCEPT !.certified = idx, !.certification = "certified_through_end"]
        BY <3>2 DEF CertifyPoint
      <4>. QED
        BY <1>1, <3>1, <4>1, UpdateCertified
    <3>3. CASE CertifyPoint /\ ~LastPoint
      <4>1. boundary' = [boundary EXCEPT !.certified = idx]
        BY <3>3 DEF CertifyPoint
      <4>. QED
        BY <1>1, <3>1, <4>1, UpdateCertified
    <3>4. CASE CertificationStops
      <4>1. boundary' = [boundary EXCEPT !.certification = StopStatus]
        BY <3>4 DEF CertificationStops
      <4>. QED
        BY <1>1, <3>1, <4>1, UpdateCertified
    <3>. QED
      BY <3>2, <3>3, <3>4
  <2>. QED
    BY Sizes, <1>1, <2>1 DEF BoundaryInv, TypeOK, CertifyPoint, CertificationStops, LastPoint, Points
<1>4. ObserveInv'
  <2>1. Observed' = Observed
    BY Sizes, <1>1 DEF Observed
  <2>. QED
    BY Sizes, <1>1, <1>2, <2>1 DEF BoundaryInv, ObserveInv
<1>5. CertifyInv'
  <2>1. slo \in Int /\ idx \in Int /\ \A i \in 1 .. NPoints : curve[i] \in Counts
    BY Sizes, <1>1 DEF BoundaryInv, TypeOK, Counts, Points
  <2>2. \A i \in 1 .. idx - 1 : Lower[curve[i]] >= slo
    BY Sizes, <1>1 DEF BoundaryInv, CertifyInv
  <2>3. CASE CertifyPoint
    <3>1. Lower[curve[idx]] >= slo /\ boundary'.certified = idx
      BY Sizes, <1>1, <2>3 DEF CertifyPoint, MeetsSLO, Boundary
    <3>2. \A i \in 1 .. idx : Lower[curve[i]] >= slo
      BY Sizes, <2>1, <2>2, <3>1
    <3>3. /\ pc' = "certify" => idx' = idx + 1
          /\ pc' = "classify" => idx = NPoints /\ boundary'.certification = "certified_through_end"
      BY Sizes, <1>1, <2>3 DEF CertifyPoint, LastPoint, Boundary
    <3>. QED
      BY Sizes, <1>1, <2>1, <3>1, <3>2, <3>3 DEF CertifyInv
  <2>4. CASE CertificationStops
    <3>1. /\ ~(Lower[curve[idx]] >= slo) /\ boundary'.certified = idx - 1 /\ pc' = "classify"
          /\ boundary'.certification = StopStatus
      BY Sizes, <1>1, <2>4 DEF CertificationStops, MeetsSLO, Boundary
    <3>2. Lower[curve[idx]] \in Int /\ Upper[curve[idx]] \in Int
      BY Intervals, <1>1 DEF Points
    <3>3. Lower[curve[idx]] < slo
      BY Sizes, <2>1, <3>1, <3>2
    <3>4. StopStatus \in {"certified", "below_slo_at_start"} => Upper[curve[idx]] < slo
      BY Sizes, <2>1, <3>2 DEF StopStatus
    <3>5. StopStatus # "certified_through_end"
      BY Sizes DEF StopStatus
    <3>. QED
      BY Sizes, <1>1, <2>1, <2>2, <3>1, <3>3, <3>4, <3>5 DEF CertifyInv, Points
  <2>. QED
    BY Sizes, <2>3, <2>4
<1>. QED
  BY Sizes, <1>3, <1>4, <1>5 DEF BoundaryInv

\* Classification only reads what the loops found.
LEMMA ClassifyInv == ASSUME BoundaryInv, Classify PROVE BoundaryInv'
<1>1. /\ pc = "classify" /\ pc' = "done" /\ UNCHANGED <<slo, curve, idx, previous>>
      /\ boundary \in Boundary
  BY Sizes DEF BoundaryInv, TypeOK, Classify
<1>2. /\ boundary'.monotonic = boundary.monotonic
      /\ boundary'.lastMeeting = boundary.lastMeeting
      /\ boundary'.firstViolating = boundary.firstViolating
      /\ boundary'.certified = boundary.certified
      /\ boundary'.certification = boundary.certification
  BY Sizes, <1>1 DEF Classify, Boundary
<1>3. TypeOK'
  <2>1. boundary' \in Boundary
    <3>1. boundary'.status \in Statuses
      BY Sizes, <1>1 DEF Classify, Boundary, Statuses
    <3>2. boundary'.bracket \in (0 .. NPoints) \X (0 .. NPoints)
      BY Sizes, <1>1 DEF Classify, Boundary
    <3>. QED
      BY Sizes, <1>1, <3>1, <3>2 DEF Classify, Boundary
  <2>. QED
    BY Sizes, <1>1, <2>1 DEF BoundaryInv, TypeOK
<1>4. ObserveInv'
  BY Sizes, <1>1, <1>2 DEF BoundaryInv, ObserveInv, Observed
<1>5. boundary'.status = "crossed" =>
        boundary'.monotonic /\ boundary'.bracket[2] = boundary'.firstViolating
                            /\ boundary'.firstViolating > 1
  BY Sizes, <1>1 DEF Classify, Boundary
<1>6. CertifyInv'
  BY Sizes, <1>1, <1>2, <1>5 DEF BoundaryInv, CertifyInv
<1>. QED
  BY Sizes, <1>3, <1>4, <1>6 DEF BoundaryInv

\* Every step preserves the invariant.
LEMMA NextInv == BoundaryInv /\ [Next]_vars => BoundaryInv'
<1> SUFFICES ASSUME BoundaryInv, [Next]_vars PROVE BoundaryInv'
  OBVIOUS
<1>1. CASE UNCHANGED vars
  BY Sizes, <1>1 DEF BoundaryInv, TypeOK, ObserveInv, CertifyInv, Observed, vars
<1>. QED
  BY Sizes, <1>1, RunInv, ObservePointInv, CertifyPointInv, ClassifyInv DEF Next

-----------------------------------------------------------------------------
\* Both loops of every sweep keep their invariant.
THEOREM SweepInvariant == Spec => []BoundaryInv
<1>. QED
  BY InitInv, NextInv, PTL DEF Spec

\* The curve, the boundary and the counts in it stay within the sweep's points and
\* the trials that were run.
THEOREM BoundariesTyped == Spec => []TypeOK
<1>1. BoundaryInv => TypeOK
  BY DEF BoundaryInv
<1>. QED
  BY <1>1, SweepInvariant, PTL

\* The reported tolerance ends the longest certified prefix of the curve.
THEOREM ReportedToleranceExact == Spec => []ToleranceExact
<1>1. BoundaryInv => ToleranceExact
  BY Sizes DEF BoundaryInv, TypeOK, CertifyInv, ToleranceExact, CertifiesUpTo, Boundary, Points
<1>. QED
  BY <1>1, SweepInvariant, PTL

\* Certification is conservative: it never passes the last point observed to
\* meet the SLO.
THEOREM CertificationConservative == Spec => []ToleranceConservative
<1>1. ASSUME BoundaryInv, pc = "done" PROVE boundary.certified <= boundary.lastMeeting
  <2>1. /\ boundary.certified \in 0 .. NPoints /\ boundary.firstViolating \in 0 .. NPoints
        /\ slo \in Int /\ \A i \in 1 .. NPoints : curve[i] \in Counts
        /\ Observed = NPoints
    BY Sizes, <1>1, LenProperties DEF BoundaryInv, TypeOK, Boundary, Observed, Counts
  <2>2. ASSUME boundary.firstViolating # 0, boundary.firstViolating <= boundary.certified
        PROVE  FALSE
    <3> DEFINE s == curve[boundary.firstViolating]
    <3>1. s \in Counts /\ s < slo /\ Lower[s] >= slo
      BY Sizes, <1>1, <2>1, <2>2 DEF BoundaryInv, ObserveInv, CertifyInv
    <3>2. Lower[s] <= s /\ s \in Int /\ Lower[s] \in Int
      BY <3>1, Intervals
    <3>. QED
      BY Sizes, <2>1, <3>1, <3>2
  <2>. QED
    BY Sizes, <1>1, <2>1, <2>2 DEF BoundaryInv, ObserveInv
<1>2. BoundaryInv => ToleranceConservative
  BY <1>1 DEF ToleranceConservative
<1>. QED
  BY <1>2, SweepInvariant, PTL

\* The certification verdict agrees with the observed curve.
THEOREM VerdictAgreesWithCurve == Spec => []VerdictsAgree
<1>1. ASSUME BoundaryInv, pc = "done" PROVE VerdictsAgree
  <2>1. /\ boundary.certified \in 0 .. NPoints /\ boundary.firstViolating \in 0 .. NPoints
        /\ slo \in Int /\ \A i \in 1 .. NPoints : curve[i] \in Counts
        /\ Observed = NPoints
    BY Sizes, <1>1, LenProperties DEF BoundaryInv, TypeOK, Boundary, Observed, Counts
  <2>2. \A i \in 1 .. boundary.certified : curve[i] >= slo
    <3>1. \A i \in 1 .. boundary.certified : Lower[curve[i]] >= slo /\ curve[i] \in Counts
      BY <1>1, <2>1, Sizes DEF BoundaryInv, CertifyInv
    <3>. QED
      BY <2>1, <3>1, Intervals
  <2>3. ASSUME boundary.certification \in {"certified", "below_slo_at_start"}
        PROVE  boundary.firstViolating = boundary.certified + 1
    <3> DEFINE k == boundary.certified + 1
    <3>1. k \in 1 .. NPoints /\ Upper[curve[k]] < slo
      BY <1>1, <2>1, <2>3, Sizes DEF BoundaryInv, CertifyInv
    <3>2. curve[k] < slo
      BY <2>1, <3>1, Intervals
    <3>3. boundary.firstViolating # 0
      BY <1>1, <2>1, <3>1, <3>2, Sizes, Intervals DEF BoundaryInv, ObserveInv
    <3>4. /\ curve[boundary.firstViolating] < slo
          /\ \A i \in 1 .. boundary.firstViolating - 1 : curve[i] >= slo
      BY <1>1, <3>3 DEF BoundaryInv, ObserveInv
    <3>5. curve[k] \in Int /\ curve[boundary.firstViolating] \in Int
      BY <2>1, <3>1, <3>3, Intervals
    <3>. QED
      BY <2>1, <2>2, <3>1, <3>2, <3>3, <3>4, <3>5
  <2>4. ASSUME boundary.certification = "certified_through_end"
        PROVE  boundary.firstViolating = 0
    <3>1. boundary.certified = NPoints
      BY <1>1, <2>4 DEF BoundaryInv, CertifyInv
    <3>2. boundary.firstViolating # 0 => curve[boundary.firstViolating] < slo
      BY <1>1 DEF BoundaryInv, ObserveInv
    <3>. QED
      BY <2>1, <2>2, <3>1, <3>2, Sizes, Intervals
  <2>. QED
    BY <2>3, <2>4 DEF VerdictsAgree
<1>2. BoundaryInv => VerdictsAgree
  BY <1>1 DEF VerdictsAgree
<1>. QED
  BY <1>2, SweepInvariant, PTL

\* A reported crossing separates the points that meet the SLO from all others.
THEOREM CrossingsSeparate == Spec => []CrossingSeparates
<1>1. ASSUME BoundaryInv, pc = "done", boundary.status = "crossed", NEW i \in Points
      PROVE  curve[i] < slo <=> i >= boundary.bracket[2]
  <2> DEFINE j == boundary.firstViolating
  <2>1. /\ boundary.monotonic /\ boundary.bracket[2] = j /\ j > 1 /\ j \in 0 .. NPoints
        /\ slo \in Int /\ curve \in [Points -> Int] /\ Observed = NPoints
    BY Sizes, <1>1, LenProperties DEF BoundaryInv, TypeOK, CertifyInv, Boundary, Observed, Counts, Points
  <2>2. curve[j] < slo /\ \A k \in 1 .. j - 1 : curve[k] >= slo
    BY Sizes, <1>1, <2>1 DEF BoundaryInv, ObserveInv
  <2>3. \A k \in j .. NPoints : curve[k] < slo
    BY Sizes, <1>1, <2>1 DEF BoundaryInv, ObserveInv
  <2>. QED
    BY Sizes, <2>1, <2>2, <2>3 DEF Points
<1>2. BoundaryInv => CrossingSeparates
  BY <1>1 DEF CrossingSeparates
<1>. QED
  BY <1>2, SweepInvariant, PTL
=============================================================================
