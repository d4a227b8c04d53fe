---------------------------- MODULE BoundaryRules ----------------------------
(***************************************************************************)
(* The failure-tolerance rules of the gate: internal/gate/gate.go's        *)
(* evaluateBoundaryRule, and the two ways its baseline reference is made,  *)
(* from the baseline report while the analysis runs and from the boundary  *)
(* diffs stored in a report when `sheaft gate' reads it back.              *)
(***************************************************************************)
EXTENDS SweepEvidence

Modes == {"warn", "fail", "report"}

\* Point i stands for axis value 2 * i, so that odd values are values that
\* the sweep did not evaluate.
Value(i) == 2 * i
Unset == -1

\* A report's sweep for one target: whether it is there, the digest of its
\* definition, and its curve.
Sweep == [present : BOOLEAN, fingerprint : {"this", "other"}, curve : Curves, slo : Counts]

\* The bounds a rule may set; action is indeterminate_action ("" if not set).
Rule == [minimum : {Unset} \cup Nat, maxRegression : {Unset} \cup Nat, action : Modes \cup {""}]

Reference == [compatible : BOOLEAN, tolerance : 0 .. NPoints]

Certified(sweep) == CertifiedTolerance(sweep.curve, sweep.slo)

-----------------------------------------------------------------------------
(* References.                                                             *)

\* buildBoundaryReferences, during `run'.
ReferenceFromBaseline(current, baseline) ==
  IF baseline.present /\ baseline.fingerprint = current.fingerprint
  THEN [compatible |-> TRUE, tolerance |-> Certified(baseline)]
  ELSE [compatible |-> FALSE, tolerance |-> NoPoint]

\* Mutant: the digests of the two sweep definitions are not compared.
DiffAnyDefinition(current, baseline) ==
  [comparable |-> baseline.present /\ Certified(current) # NoPoint /\ Certified(baseline) # NoPoint,
   reference  |-> IF baseline.present THEN Certified(baseline) ELSE NoPoint]

\* compareSweepBoundaries: the diff a report keeps of one boundary.
BoundaryDiff(current, baseline) ==
  LET matching == baseline.present /\ baseline.fingerprint = current.fingerprint IN
  [comparable |-> matching /\ Certified(current) # NoPoint /\ Certified(baseline) # NoPoint,
   reference  |-> IF matching THEN Certified(baseline) ELSE NoPoint]

\* boundaryReferencesFromReport, during `gate'.
ReferenceFromReport(diff) == [compatible |-> diff.comparable, tolerance |-> diff.reference]

-----------------------------------------------------------------------------
(* One rule.                                                               *)

classify(mode, failed) ==
  IF ~failed THEN "pass" ELSE IF mode = "fail" THEN "fail" ELSE "warn"

Indeterminate(rule, gate) ==
  [status |-> classify(IF rule.action # "" THEN rule.action ELSE gate.defaultAction, TRUE),
   id     |-> "boundary_indeterminate"]

Failed(gate, id) == [status |-> classify(gate.mode, TRUE), id |-> id]

\* The entire evaluated prefix through the required value is certified.
MinimumCertified(rule, sweep) ==
  Certified(sweep) # NoPoint /\ Value(Certified(sweep)) >= rule.minimum

\* The required value was evaluated and the interval there is below the SLO.
MinimumRefuted(rule, sweep) ==
  \E i \in Points : Value(i) = rule.minimum /\ Upper[sweep.curve[i]] < sweep.slo

Comparable(sweep, reference) ==
  reference.compatible /\ reference.tolerance # NoPoint /\ Certified(sweep) # NoPoint

\* Mutant: a rise of the curve does not stop the evaluation.
IgnoreShape(rule, sweep, reference, gate) ==
  IF ~sweep.present THEN Indeterminate(rule, gate)
  ELSE IF rule.minimum # Unset /\ ~MinimumCertified(rule, sweep)
  THEN IF MinimumRefuted(rule, sweep) THEN Failed(gate, "boundary_below_minimum")
       ELSE Indeterminate(rule, gate)
  ELSE [status |-> "pass", id |-> ""]

\* The checks in their order; the first that does not hold decides.
evaluateBoundaryRule(rule, sweep, reference, gate) ==
  IF ~sweep.present \/ ~Monotone(sweep.curve) THEN Indeterminate(rule, gate)
  ELSE IF rule.minimum # Unset /\ ~MinimumCertified(rule, sweep)
  THEN IF MinimumRefuted(rule, sweep) THEN Failed(gate, "boundary_below_minimum")
       ELSE Indeterminate(rule, gate)
  ELSE IF rule.maxRegression # Unset /\ ~Comparable(sweep, reference)
  THEN Indeterminate(rule, gate)
  ELSE IF rule.maxRegression # Unset
          /\ Value(Certified(sweep)) - Value(reference.tolerance) < -rule.maxRegression
  THEN Failed(gate, "boundary_regressed")
  ELSE [status |-> "pass", id |-> ""]
=============================================================================
