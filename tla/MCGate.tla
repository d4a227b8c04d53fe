------------------------------- MODULE MCGate -------------------------------
(* The gate on two families of cases: profile cases vary thresholds and      *)
(* results and set no boundary rule; boundary cases vary curves, baselines   *)
(* and one rule.                                                             *)
EXTENDS Gate

MCLower == [s \in 0 .. 3 |-> IF s = 0 THEN 0 ELSE s - 1]
MCUpper == [s \in 0 .. 3 |-> IF s = 3 THEN 3 ELSE s + 1]

-----------------------------------------------------------------------------
(* Profiles.                                                                 *)

\* A weighted aggregate lies between the availabilities it averages.
Averages(availability) ==
  {a \in Levels : /\ \E e \in Endpoints : availability[e] <= a
                  /\ \E e \in Endpoints : availability[e] >= a}

\* A failed assertion is interesting where nothing else fails.
ProfileResults ==
  {o \in ProfileOutput : /\ o.aggregate \in Averages(o.availability)
                         /\ ~o.assertions => \A e \in Endpoints : o.availability[e] = 1}

\* e1 may have a threshold of its own, in the gate and in the last profile.
EndpointThresholds == {f \in [Endpoints -> Threshold] : \A e \in Endpoints \ {"e1"} : f[e] = Unset}
NoThresholds == [e \in Endpoints |-> Unset]

ProfileGates ==
  [mode : Modes, defaultAction : {"warn"}, rule : {"all_profiles", "any_profile"},
   global : {1}, endpoint : EndpointThresholds,
   profileEndpoint : {[p \in Profiles |-> IF p = NProfiles THEN f ELSE NoThresholds] :
                        f \in EndpointThresholds},
   aggregate : {Unset, 1},
   profileAggregate : {[p \in Profiles |-> IF p = 1 THEN t ELSE Unset] : t \in {Unset, 0}},
   cross : {Unset, 1}, boundaryRules : {<< >>}]

AnySweep == [present |-> TRUE, fingerprint |-> "this", curve |-> [i \in Points |-> 1], slo |-> 1]

ProfileCases == [gate : ProfileGates, outputs : [Profiles -> ProfileResults],
                 sweep : {AnySweep}, baseline : {AnySweep}]

-----------------------------------------------------------------------------
(* Boundaries: SLO 2, so that 3 successes certify, 0 refute, and 1 and 2 do  *)
(* neither.  Minimum 3 is a value that the sweep did not evaluate.           *)

BoundaryRuleSet ==
  {r \in [minimum : {Unset, 3, 4, 6}, maxRegression : {Unset, 0, 2}, action : {"", "warn", "fail"}] :
     r.minimum # Unset \/ r.maxRegression # Unset}

BoundaryGates ==
  [mode : Modes, defaultAction : {"warn", "fail"}, rule : {"all_profiles"}, global : {1},
   endpoint : {NoThresholds}, profileEndpoint : {[p \in Profiles |-> NoThresholds]},
   aggregate : {Unset}, profileAggregate : {[p \in Profiles |-> Unset]}, cross : {Unset},
   boundaryRules : {<<r>> : r \in BoundaryRuleSet}]

BoundaryOutputs == {[p \in Profiles |-> [availability |-> [e \in Endpoints |-> a], aggregate |-> a,
                                         assertions |-> TRUE]] : a \in Levels}

\* Curves that certify exactly the points up to k.
StepCurve(k) == [i \in Points |-> IF i <= k THEN 3 ELSE 1]

BaselineSweeps ==
  {[present |-> TRUE, fingerprint |-> "this", curve |-> StepCurve(k), slo |-> 2] : k \in 0 .. NPoints}
    \cup [present : BOOLEAN, fingerprint : {"other"}, curve : {StepCurve(NPoints)}, slo : {2}]

BoundarySweeps == [present : {TRUE}, fingerprint : {"this"}, curve : Curves, slo : {2}]

BoundaryCases == [gate : BoundaryGates, outputs : BoundaryOutputs,
                  sweep : BoundarySweeps, baseline : BaselineSweeps]

MCCases == ProfileCases \cup BoundaryCases
=============================================================================
