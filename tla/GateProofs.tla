----------------------------- MODULE GateProofs -----------------------------
(***************************************************************************)
(* Proofs about the gate, for all profiles, endpoints, thresholds, curves, *)
(* baselines, rules and overrides.                                         *)
(***************************************************************************)
EXTENDS Gate, Induction

-----------------------------------------------------------------------------
(* The invariant.                                                          *)

\* A command evaluates profiles and rules; a policy has no loop.
Looping == exit # 1 /\ command # "policy"

\* The profiles the first loop has visited, the rules the second has.
Visited == IF pc = "profiles" THEN 1 .. next - 1 ELSE Profiles
Ruled == IF pc = "rules" THEN 1 .. next - 1 ELSE 1 .. Len(gate.boundaryRules)

Passes(p) == ProfileDecision(p) = "pass"

EvalRecord ==
  eval = [passing |-> eval.passing, failing |-> eval.failing, failedProfiles |-> eval.failedProfiles,
          failedEndpoints |-> eval.failedEndpoints, reasons |-> eval.reasons,
          statuses |-> eval.statuses, decision |-> eval.decision]

\* The counters count the visited profiles.
CountersInv ==
  Looping =>
    /\ eval.passing + eval.failing = IF pc = "profiles" THEN next - 1 ELSE NProfiles
    /\ eval.passing > 0 <=> \E p \in Visited : Passes(p)
    /\ eval.failing > 0 <=> \E p \in Visited : ~Passes(p)

StatusOf(i, reference) ==
  evaluateBoundaryRule(gate.boundaryRules[i], sweep, reference, gate).status

\* The statuses are those of the visited rules.
StatusesInv ==
  Looping =>
    /\ pc \in {"profiles", "combine"} => eval.statuses = {}
    /\ pc \notin {"profiles", "combine"} =>
         eval.statuses = {StatusOf(i, BoundaryReference) : i \in Ruled}

\* The decision is the profiles', and with the rules' once they are merged.
DecisionInv ==
  Looping =>
    /\ pc \in {"profiles", "combine"} => eval.decision = "none"
    /\ pc \in {"rules", "merge"} => eval.decision = aggregateDecision(ProfilesFailed)
    /\ pc \in {"end", "done"} =>
         eval.decision = mergeBoundaryDecision(aggregateDecision(ProfilesFailed), eval.statuses)
    /\ pc = "done" => exit = decisionExitCode(eval.decision)

\* While profiles are visited a reason is missing only if all of them pass;
\* while rules are, "gate_pass" stands beside reasons of rules only.
ReasonsInv ==
  Looping =>
    /\ pc \in {"profiles", "combine"} =>
         /\ GatePass \notin eval.reasons
         /\ eval.reasons = {} /\ gate.mode # "report" => \A p \in Visited : Passes(p)
    /\ pc \in {"rules", "merge"} =>
         /\ GatePass \in eval.reasons => eval.decision \in {"pass", "report"}
         /\ eval.statuses \subseteq {"pass"} /\ GatePass \in eval.reasons => eval.reasons = {GatePass}
         /\ ~(eval.statuses \subseteq {"pass"}) => \E r \in eval.reasons : r # GatePass
         /\ eval.reasons # {}
    /\ pc = "end" =>
         /\ eval.reasons # {}
         /\ GatePass \in eval.reasons => eval.reasons = {GatePass} /\ eval.decision \in {"pass", "report"}

\* What the configuration decides, without loops: the profiles, then the rules
\* against the baseline itself.
SomeProfilesFail ==
  CrossProfileFailed \/ IF gate.rule = "any_profile" THEN \A p \in Profiles : ~Passes(p)
                        ELSE \E p \in Profiles : ~Passes(p)
RunStatuses ==
  {StatusOf(i, ReferenceFromBaseline(sweep, baseline)) : i \in 1 .. Len(gate.boundaryRules)}
RunDecision == mergeBoundaryDecision(aggregateDecision(SomeProfilesFail), RunStatuses)

\* The stored report holds the run's decision and its diff with the baseline.
ReportInv ==
  /\ command = "run" => override = ""
  /\ command = "run" => exit # 1
  /\ command # "run" \/ pc = "done" =>
       /\ report.diff = BoundaryDiff(sweep, baseline)
       /\ override = "" => report.decision = RunDecision

\* A command has no exit code before it is done, and starts each loop afresh.
ControlInv ==
  /\ pc # "done" => exit = Unset
  /\ pc = "combine" => next = 1

\* A policy decides in one step, on the first profile.
PolicyInv ==
  command = "policy" =>
    /\ pc = "done"
    /\ exit # 1 =>
         /\ eval.decision = IF gate.mode = "report" THEN "report"
                            ELSE IF PolicyFailed # {} THEN gate.mode ELSE "pass"
         /\ eval.reasons = IF PolicyFailed = {} THEN {GatePass}
                           ELSE {<<"endpoint_below_threshold", 1, e>> : e \in PolicyFailed}

\* At the end a decision has its reasons.
WhyInv ==
  (pc = "done" /\ exit # 1) =>
    /\ eval.reasons # {}
    /\ GatePass \in eval.reasons => eval.reasons = {GatePass} /\ eval.decision \in {"pass", "report"}

EndpointReason(p, e) == <<"endpoint_below_threshold", p, e>>

\* The lists say what the reasons and the visited profiles say.
ListsInv ==
  /\ \A e \in Endpoints :
       e \in eval.failedEndpoints <=> \E p \in Profiles : EndpointReason(p, e) \in eval.reasons
  /\ Looping => eval.failedProfiles = {p \in Visited : ~Passes(p)}

GateInv ==
  /\ TypeOK /\ EvalRecord
  /\ CountersInv /\ StatusesInv /\ DecisionInv /\ ReasonsInv /\ WhyInv /\ ListsInv
  /\ ControlInv /\ ReportInv /\ PolicyInv
-----------------------------------------------------------------------------
(* What the operators depend on.                                           *)

\* The results and the configuration decide what profiles do.
LEMMA SameProfiles ==
  ASSUME UNCHANGED <<gate, outputs>>
  PROVE  /\ \A p : Passes(p)' <=> Passes(p)
         /\ \A p : FailedEndpoints(p)' = FailedEndpoints(p)
         /\ \A p : ProfileReasons(p)' = ProfileReasons(p)
         /\ CrossProfileFailed' <=> CrossProfileFailed
<1>1. \A p, e : EndpointThreshold(p, e)' = EndpointThreshold(p, e)
  BY DEF EndpointThreshold
<1>2. \A p : FailedEndpoints(p)' = FailedEndpoints(p)
  BY <1>1 DEF FailedEndpoints
<1>3. \A p : AggregateFailed(p)' <=> AggregateFailed(p)
  BY DEF AggregateFailed, AggregateThreshold
<1>4. \A p : ProfileReasons(p)' = ProfileReasons(p)
  BY <1>2, <1>3 DEF ProfileReasons
<1>5. \A p : Passes(p)' <=> Passes(p)
  BY <1>2, <1>3 DEF Passes, ProfileDecision, aggregateDecision
<1>6. CrossProfileFailed' <=> CrossProfileFailed
  BY DEF CrossProfileFailed
<1>. QED
  BY <1>2, <1>4, <1>5, <1>6

LEMMA Sizes == NProfiles \in Nat /\ 1 <= NProfiles
  BY GateAssumption

LEMMA FirstProfile == 1 \in Profiles
  BY Sizes DEF Profiles

LEMMA UnsetIsNegative == Unset \in Int /\ Unset < 0
  BY DEF Unset

LEMMA SameReference ==
  ASSUME UNCHANGED <<command, sweep, baseline, report>>
  PROVE  BoundaryReference' = BoundaryReference
  BY DEF BoundaryReference

LEMMA SameStatuses ==
  ASSUME UNCHANGED <<gate, sweep>>
  PROVE  \A i, r : StatusOf(i, r)' = StatusOf(i, r)
  BY DEF StatusOf

LEMMA SameRun ==
  ASSUME UNCHANGED <<gate, inputs>>
  PROVE  RunDecision' = RunDecision
<1>1. SomeProfilesFail' <=> SomeProfilesFail
  BY SameProfiles DEF SomeProfilesFail, inputs
<1>2. RunStatuses' = RunStatuses
  BY SameStatuses DEF RunStatuses, inputs
<1>. QED
  BY <1>1, <1>2 DEF RunDecision, aggregateDecision, mergeBoundaryDecision, inputs

\* What the type invariant says of the case, and the decisions there are.
LEMMA Fields ==
  ASSUME TypeOK
  PROVE  /\ gate \in GateConfig /\ outputs \in [Profiles -> ProfileOutput]
         /\ sweep \in Sweep /\ baseline \in Sweep
  BY DEF TypeOK, Case

LEMMA DecisionTypes ==
  ASSUME TypeOK
  PROVE  /\ \A failed : aggregateDecision(failed) \in {"pass", "warn", "fail", "report"}
         /\ \A failed \in BOOLEAN : \A statuses :
              mergeBoundaryDecision(aggregateDecision(failed), statuses) \in {"pass", "warn", "fail", "report"}
<1>1. gate.mode \in Modes
  BY Fields DEF GateConfig
<1>. QED
  BY <1>1 DEF aggregateDecision, mergeBoundaryDecision, Modes

LEMMA StatusTypes ==
  ASSUME TypeOK
  PROVE  \A i, r : StatusOf(i, r) \in {"pass", "warn", "fail"}
  BY DEF StatusOf, evaluateBoundaryRule, Indeterminate, Failed, classify

\* A profile that does not pass has a reason, unless the mode is report, and a
\* reason is never the one of a pass.
LEMMA ReasonsOfProfiles ==
  ASSUME TypeOK
  PROVE  /\ \A p : ProfileReasons(p) = {} /\ gate.mode # "report" => Passes(p)
         /\ \A p : GatePass \notin ProfileReasons(p)
<1>1. ASSUME NEW p, ProfileReasons(p) = {}, gate.mode # "report" PROVE Passes(p)
  <2>1. FailedEndpoints(p) = {} /\ ~AggregateFailed(p) /\ outputs[p].assertions
    BY <1>1 DEF ProfileReasons
  <2>. QED
    BY <1>1, <2>1 DEF Passes, ProfileDecision, aggregateDecision
<1>2. ASSUME NEW p PROVE GatePass \notin ProfileReasons(p)
  BY DEF ProfileReasons, GatePass
<1>. QED
  BY <1>1, <1>2

\* A reason about an endpoint is no other reason: only a profile gives it.
LEMMA EndpointReasons ==
  ASSUME NEW p, NEW e
  PROVE  /\ \A q \in Profiles : EndpointReason(p, e) \in ProfileReasons(q) <=> p = q /\ e \in FailedEndpoints(q)
         /\ EndpointReason(p, e) # GatePass
         /\ EndpointReason(p, e) # <<"aggregate_below_threshold">>
         /\ \A id, i : EndpointReason(p, e) # <<id, i>>
<1>1. /\ EndpointReason(p, e) # GatePass
      /\ EndpointReason(p, e) # <<"aggregate_below_threshold">>
      /\ \A id, i : EndpointReason(p, e) # <<id, i>>
  BY DEF EndpointReason, GatePass
<1>2. ASSUME NEW q \in Profiles
      PROVE  EndpointReason(p, e) \in ProfileReasons(q) <=> p = q /\ e \in FailedEndpoints(q)
  <2>1. \A f : EndpointReason(p, e) = EndpointReason(q, f) <=> p = q /\ e = f
    BY DEF EndpointReason
  <2>2. ProfileReasons(q) =
          {EndpointReason(q, f) : f \in FailedEndpoints(q)}
            \cup (IF AggregateFailed(q) THEN {<<"aggregate_below_threshold", q>>} ELSE {})
            \cup (IF outputs[q].assertions THEN {} ELSE {<<"assertion_failed", q>>})
    BY DEF ProfileReasons, EndpointReason
  <2>. QED
    BY <1>1, <2>1, <2>2
<1>. QED
  BY <1>1, <1>2

\* Whether the reference is made from the baseline or from the stored diff, a
\* rule has the same status: a missing certified tolerance is not comparable.
LEMMA ReferencesAgree ==
  ASSUME NEW i
  PROVE  StatusOf(i, ReferenceFromReport(BoundaryDiff(sweep, baseline)))
           = StatusOf(i, ReferenceFromBaseline(sweep, baseline))
<1> DEFINE stored == ReferenceFromReport(BoundaryDiff(sweep, baseline))
           fresh  == ReferenceFromBaseline(sweep, baseline)
<1>1. Comparable(sweep, stored) <=> Comparable(sweep, fresh)
  BY DEF Comparable, ReferenceFromReport, ReferenceFromBaseline, BoundaryDiff, NoPoint
<1>2. Comparable(sweep, fresh) => stored.tolerance = fresh.tolerance
  BY DEF Comparable, ReferenceFromReport, ReferenceFromBaseline, BoundaryDiff, NoPoint
<1> HIDE DEF stored, fresh
<1>3. StatusOf(i, stored) = StatusOf(i, fresh)
  BY <1>1, <1>2 DEF StatusOf, evaluateBoundaryRule
<1>. QED
  BY <1>3 DEF stored, fresh

\* After the first loop the counters say what the profiles say.
LEMMA CountersTell ==
  ASSUME GateInv, Looping, pc # "profiles"
  PROVE  ProfilesFailed <=> SomeProfilesFail
<1>1. /\ eval.passing \in 0 .. NProfiles /\ eval.failing \in 0 .. NProfiles
      /\ eval.passing > 0 <=> \E p \in Profiles : Passes(p)
      /\ eval.failing > 0 <=> \E p \in Profiles : ~Passes(p)
  BY DEF GateInv, TypeOK, CountersInv, Visited
<1>. QED
  BY <1>1, Sizes DEF ProfilesFailed, PassingProfiles, SomeProfilesFail

-----------------------------------------------------------------------------
(* The steps.                                                              *)

LEMMA InitInv == Init => GateInv
<1> SUFFICES ASSUME Init PROVE GateInv
  OBVIOUS
<1>1. PICK c \in Cases : gate = c.gate /\ outputs = c.outputs /\ sweep = c.sweep /\ baseline = c.baseline
  BY DEF Init
<1>2. c \in Case
  BY GateAssumption
<1>3. [gate |-> gate, outputs |-> outputs, sweep |-> sweep, baseline |-> baseline] \in Case
  BY <1>1, <1>2 DEF Case
<1>0. next = 1 /\ exit = Unset
  BY DEF Init
<1>4. /\ command = "run" /\ override = "" /\ pc = "profiles"
      /\ eval = EmptyEvaluation /\ report = NoReport
  BY DEF Init
<1>5. /\ eval.passing = 0 /\ eval.failing = 0 /\ eval.failedProfiles = {} /\ eval.failedEndpoints = {}
      /\ eval.reasons = {} /\ eval.statuses = {} /\ eval.decision = "none" /\ EvalRecord
  BY <1>4 DEF EmptyEvaluation, EvalRecord
<1>6. TypeOK
  <2>1. 0 \in 0 .. NProfiles /\ 1 \in Profiles
    BY Sizes DEF Profiles
  <2>2. report.decision = "none"
    BY <1>4 DEF NoReport
  <2>. QED
    BY <1>0, <1>3, <1>4, <1>5, <2>1, <2>2 DEF TypeOK, Decisions
<1>7. CountersInv /\ StatusesInv /\ DecisionInv /\ ReasonsInv
  <2>1. \A p : p \notin Visited
    <3>1. Visited = 1 .. next - 1
      BY <1>4 DEF Visited
    <3>2. next - 1 = 0
      BY <1>0
    <3>. QED
      BY <3>1, <3>2
  <2>2. eval.passing + eval.failing = next - 1 /\ ~(eval.passing > 0) /\ ~(eval.failing > 0)
    BY <1>0, <1>5
  <2>3. CountersInv
    BY <1>4, <2>1, <2>2 DEF CountersInv
  <2>. QED
    BY <1>4, <1>5, <2>1, <2>3 DEF StatusesInv, DecisionInv, ReasonsInv
<1>8. WhyInv /\ ControlInv /\ ReportInv /\ PolicyInv
  <2>1. exit # 1
    BY <1>0, UnsetIsNegative
  <2>. QED
    BY <1>0, <1>4, <2>1 DEF WhyInv, ControlInv, ReportInv, PolicyInv
<1>9. ListsInv
  <2>1. Visited = 1 .. next - 1
    BY <1>4 DEF Visited
  <2>3. next - 1 = 0
    BY <1>0
  <2>2. \A p : p \notin Visited
    BY <2>1, <2>3
  <2>. QED
    BY <1>5, <2>2 DEF ListsInv
<1>. QED
  BY <1>5, <1>6, <1>7, <1>8, <1>9 DEF GateInv

\* One profile more is counted, and gives its reasons if it does not pass.
LEMMA ProfileInv == ASSUME GateInv, evaluateProfile PROVE GateInv'
<1>1. /\ pc = "profiles" /\ next \in Profiles /\ next \in 1 .. NProfiles
      /\ UNCHANGED <<command, override, gate, outputs, sweep, baseline, report, exit>>
      /\ pc' \in {"profiles", "combine"}
  BY DEF evaluateProfile, GateInv, TypeOK, Profiles, inputs
<1>2. command # "policy" /\ exit = Unset
  BY <1>1 DEF GateInv, PolicyInv, ControlInv
<1>12. exit # 1
  BY <1>2, UnsetIsNegative
<1>3. /\ eval'.passing = IF Passes(next) THEN eval.passing + 1 ELSE eval.passing
      /\ eval'.failing = IF Passes(next) THEN eval.failing ELSE eval.failing + 1
      /\ eval'.failedProfiles = IF Passes(next) THEN eval.failedProfiles ELSE eval.failedProfiles \cup {next}
      /\ eval'.failedEndpoints = eval.failedEndpoints \cup FailedEndpoints(next)
      /\ eval'.reasons = eval.reasons \cup ProfileReasons(next)
      /\ eval'.statuses = eval.statuses /\ eval'.decision = eval.decision /\ EvalRecord'
  BY DEF evaluateProfile, GateInv, EvalRecord, Passes
<1>4. /\ \A p : Passes(p)' <=> Passes(p)
      /\ pc' = "profiles" => next' = next + 1 /\ next # NProfiles
      /\ pc' = "combine" => next' = 1 /\ next = NProfiles
  BY <1>1, SameProfiles DEF evaluateProfile
<1>5. Visited = 1 .. next - 1 /\ Visited' = 1 .. next
  BY <1>1, <1>4 DEF Visited, Profiles
<1>6. /\ eval.passing \in 0 .. NProfiles /\ eval.failing \in 0 .. NProfiles
      /\ eval.failedProfiles \subseteq Profiles /\ eval.failedEndpoints \subseteq Endpoints
      /\ eval.statuses \subseteq {"pass", "warn", "fail"} /\ eval.decision \in Decisions
  BY DEF GateInv, TypeOK
<1>7. CountersInv'
  <2> SUFFICES ASSUME exit # 1 PROVE CountersInv'
    BY <1>1 DEF CountersInv, Looping
  <2>1. /\ eval.passing + eval.failing = next - 1
        /\ eval.passing > 0 <=> \E p \in 1 .. next - 1 : Passes(p)
        /\ eval.failing > 0 <=> \E p \in 1 .. next - 1 : ~Passes(p)
    BY <1>1, <1>2, <1>5 DEF GateInv, CountersInv, Looping
  <2>2. \A p : p \in 1 .. next <=> p \in 1 .. next - 1 \/ p = next
    BY <1>1
  <2>3. eval'.passing + eval'.failing = next
    BY <1>1, <1>3, <1>6, <2>1
  <2>4. eval'.passing > 0 <=> \E p \in 1 .. next : Passes(p)
    BY <1>3, <1>6, <2>1, <2>2
  <2>5. eval'.failing > 0 <=> \E p \in 1 .. next : ~Passes(p)
    BY <1>3, <1>6, <2>1, <2>2
  <2>. QED
    BY <1>1, <1>4, <1>5, <2>3, <2>4, <2>5 DEF CountersInv
<1>8. TypeOK'
  <2>1. [gate |-> gate', outputs |-> outputs', sweep |-> sweep', baseline |-> baseline'] \in Case
    BY <1>1 DEF GateInv, TypeOK
  <2>2. eval'.passing \in 0 .. NProfiles /\ eval'.failing \in 0 .. NProfiles
    <3>1. eval.passing + eval.failing = next - 1
      BY <1>1, <1>2, <1>12 DEF GateInv, CountersInv, Looping
    <3>. QED
      BY <1>1, <1>3, <1>6, <3>1, Sizes
  <2>3. pc' = "profiles" => next' \in Profiles
    BY <1>1, <1>4, Sizes DEF Profiles
  <2>4. next' \in Nat /\ eval'.failedProfiles \subseteq Profiles /\ eval'.failedEndpoints \subseteq Endpoints
    BY <1>1, <1>3, <1>4, <1>6 DEF FailedEndpoints
  <2>. QED
    BY <1>1, <1>3, <1>6, <2>1, <2>2, <2>3, <2>4 DEF GateInv, TypeOK
<1>9. StatusesInv' /\ DecisionInv'
  BY <1>1, <1>2, <1>3 DEF GateInv, StatusesInv, DecisionInv, Looping
<1>10. ReasonsInv'
  <2> SUFFICES ASSUME exit # 1 PROVE ReasonsInv'
    BY <1>1 DEF ReasonsInv, Looping
  <2>1. /\ GatePass \notin eval.reasons
        /\ eval.reasons = {} /\ gate.mode # "report" => \A p \in 1 .. next - 1 : Passes(p)
    BY <1>1, <1>2, <1>5 DEF GateInv, ReasonsInv, Looping
  <2>2. GatePass \notin eval'.reasons
    BY <1>3, <2>1, ReasonsOfProfiles DEF GateInv
  <2>3. eval'.reasons = {} /\ gate.mode # "report" => \A p \in 1 .. next : Passes(p)
    BY <1>1, <1>3, <2>1, ReasonsOfProfiles DEF GateInv
  <2>. QED
    BY <1>1, <1>4, <1>5, <2>2, <2>3 DEF ReasonsInv
<1>11. WhyInv' /\ PolicyInv'
  BY <1>1, <1>2 DEF WhyInv, PolicyInv
<1>13. ReportInv'
  BY <1>1, SameRun DEF GateInv, ReportInv, inputs
<1>14. ControlInv'
  BY <1>1, <1>2, <1>4 DEF ControlInv
<1>15. ListsInv'
  <2>1. ASSUME NEW e \in Endpoints
        PROVE  e \in eval'.failedEndpoints
                 <=> \E p \in Profiles : EndpointReason(p, e) \in eval'.reasons
    <3>1. e \in eval.failedEndpoints <=> \E p \in Profiles : EndpointReason(p, e) \in eval.reasons
      BY DEF GateInv, ListsInv
    <3>2. \A p : EndpointReason(p, e) \in ProfileReasons(next) <=> p = next /\ e \in FailedEndpoints(next)
      BY <1>1, EndpointReasons
    <3>. QED
      BY <1>1, <1>3, <3>1, <3>2
  <2>2. eval'.failedProfiles = {p \in Visited' : ~Passes(p)'}
    <3>1. eval.failedProfiles = {p \in 1 .. next - 1 : ~Passes(p)}
      BY <1>2, <1>5, <1>12 DEF GateInv, ListsInv, Looping
    <3>2. \A p : p \in 1 .. next <=> p \in 1 .. next - 1 \/ p = next
      BY <1>1
    <3>. QED
      BY <1>3, <1>4, <1>5, <3>1, <3>2
  <2>3. \A p, e : EndpointReason(p, e)' = EndpointReason(p, e)
    BY DEF EndpointReason
  <2>. QED
    BY <2>1, <2>2, <2>3 DEF ListsInv
<1>. QED
  BY <1>3, <1>7, <1>8, <1>9, <1>10, <1>11, <1>13, <1>14, <1>15 DEF GateInv

\* The decision of the profiles, and its reason if there is none.
LEMMA CombineInv == ASSUME GateInv, combineProfiles PROVE GateInv'
<1>1. /\ pc = "combine" /\ pc' = IF gate.boundaryRules = << >> THEN "end" ELSE "rules"
      /\ UNCHANGED <<command, override, gate, outputs, sweep, baseline, next, report, exit>>
  BY DEF combineProfiles, inputs
<1>2. command # "policy" /\ exit = Unset /\ next = 1
  BY <1>1 DEF GateInv, PolicyInv, ControlInv
<1>3. exit # 1
  BY <1>2, UnsetIsNegative
<1> DEFINE all == eval.reasons \cup (IF CrossProfileFailed THEN {<<"aggregate_below_threshold">>} ELSE {})
<1>4. /\ eval'.passing = eval.passing /\ eval'.failing = eval.failing
      /\ eval'.failedProfiles = eval.failedProfiles /\ eval'.failedEndpoints = eval.failedEndpoints
      /\ eval'.reasons = IF all = {} THEN {GatePass} ELSE all
      /\ eval'.statuses = eval.statuses /\ eval'.decision = aggregateDecision(ProfilesFailed)
      /\ EvalRecord'
  BY DEF combineProfiles, GateInv, EvalRecord
<1>5. /\ \A p : Passes(p)' <=> Passes(p)
      /\ CrossProfileFailed' <=> CrossProfileFailed
      /\ Visited = Profiles /\ Visited' = Profiles
      /\ eval.statuses = {} /\ eval.decision = "none"
  BY <1>1, <1>2, <1>3, SameProfiles DEF Visited, GateInv, StatusesInv, DecisionInv, Looping
<1>6. CountersInv'
  BY <1>1, <1>2, <1>3, <1>4, <1>5 DEF GateInv, CountersInv, Looping
<1>7. ProfilesFailed' <=> ProfilesFailed
  BY <1>1, <1>4, <1>5 DEF ProfilesFailed, PassingProfiles
<1>8. StatusesInv'
  <2>1. \A i : i \notin Ruled'
    <3>1. CASE pc' = "rules"
      <4>1. Ruled' = 1 .. next - 1 /\ next - 1 = 0
        BY <1>1, <1>2, <3>1 DEF Ruled
      <4>. QED
        BY <4>1
    <3>2. CASE gate.boundaryRules = << >>
      BY <1>1, <3>2 DEF Ruled
    <3>. QED
      BY <1>1, <3>1, <3>2
  <2>. QED
    BY <1>1, <1>4, <1>5, <2>1 DEF StatusesInv
<1>9. DecisionInv'
  BY <1>1, <1>4, <1>5, <1>7
  DEF DecisionInv, aggregateDecision, mergeBoundaryDecision
<1>10. ReasonsInv'
  <2>1. /\ GatePass \notin eval.reasons
        /\ eval.reasons = {} /\ gate.mode # "report" => \A p \in Profiles : Passes(p)
    BY <1>1, <1>2, <1>3, <1>5 DEF GateInv, ReasonsInv, Looping
  <2>2. GatePass \notin all
    BY <2>1 DEF GatePass
  <2>3. ASSUME all = {} PROVE aggregateDecision(ProfilesFailed) \in {"pass", "report"}
    <3>1. CASE gate.mode = "report"
      BY <3>1 DEF aggregateDecision
    <3>2. CASE gate.mode # "report"
      <4>1. ~CrossProfileFailed /\ \A p \in Profiles : Passes(p)
        BY <2>1, <2>3, <3>2
      <4>2. Profiles # {}
        BY Sizes DEF Profiles
      <4>3. ~ProfilesFailed
        BY <1>1, <1>2, <1>3, <4>1, <4>2, CountersTell DEF SomeProfilesFail, Looping
      <4>. QED
        BY <4>3 DEF aggregateDecision
    <3>. QED
      BY <3>1, <3>2
  <2>4. /\ GatePass \in eval'.reasons => eval'.reasons = {GatePass} /\ eval'.decision \in {"pass", "report"}
        /\ eval'.reasons # {}
    BY <1>4, <2>2, <2>3
  <2>. QED
    BY <1>1, <1>4, <1>5, <2>4 DEF ReasonsInv
<1>11. TypeOK'
  <2>1. [gate |-> gate', outputs |-> outputs', sweep |-> sweep', baseline |-> baseline'] \in Case
    BY <1>1 DEF GateInv, TypeOK
  <2>2. pc' = "rules" => next' \in 1 .. Len(gate'.boundaryRules)
    <3>1. gate.boundaryRules \in Seq(Rule)
      BY Fields DEF GateInv, GateConfig
    <3>2. gate.boundaryRules # << >> => Len(gate.boundaryRules) \in Nat /\ 1 <= Len(gate.boundaryRules)
      BY <3>1
    <3>. QED
      BY <1>1, <1>2, <3>2
  <2>3. eval'.decision \in Decisions
    BY <1>4, DecisionTypes DEF GateInv, Decisions
  <2>. QED
    BY <1>1, <1>4, <2>1, <2>2, <2>3 DEF GateInv, TypeOK
<1>12. WhyInv' /\ PolicyInv' /\ ControlInv'
  BY <1>1, <1>2 DEF WhyInv, PolicyInv, ControlInv
<1>13. ReportInv'
  BY <1>1, SameRun DEF GateInv, ReportInv, inputs
<1>14. ListsInv'
  <2>1. ASSUME NEW p, NEW e
        PROVE  EndpointReason(p, e) \in eval'.reasons <=> EndpointReason(p, e) \in eval.reasons
    BY <1>4, EndpointReasons
  <2>2. Looping' => eval'.failedProfiles = {p \in Visited' : ~Passes(p)'}
    BY <1>1, <1>2, <1>3, <1>4, <1>5 DEF GateInv, ListsInv, Looping
  <2>3. \A p, e : EndpointReason(p, e)' = EndpointReason(p, e)
    BY DEF EndpointReason
  <2>. QED
    BY <1>4, <2>1, <2>2, <2>3 DEF GateInv, ListsInv
<1>. QED
  BY <1>4, <1>6, <1>8, <1>9, <1>10, <1>11, <1>12, <1>13, <1>14 DEF GateInv

\* One rule more is evaluated, and gives a reason if it does not pass.
LEMMA RuleInv == ASSUME GateInv, evaluateRule PROVE GateInv'
<1> DEFINE len == Len(gate.boundaryRules)
           result == evaluateBoundaryRule(gate.boundaryRules[next], sweep, BoundaryReference, gate)
<1>1. /\ pc = "rules" /\ next \in 1 .. len
      /\ UNCHANGED <<command, override, gate, outputs, sweep, baseline, report, exit>>
      /\ IF next = len THEN pc' = "merge" /\ next' = next ELSE pc' = pc /\ next' = next + 1
  BY DEF evaluateRule, inputs, GateInv, TypeOK
<1>2. command # "policy" /\ exit = Unset
  BY <1>1 DEF GateInv, PolicyInv, ControlInv
<1>3. exit # 1
  BY <1>2, UnsetIsNegative
<1>4. /\ result.status = StatusOf(next, BoundaryReference)
      /\ result.status \in {"pass", "warn", "fail"} /\ <<result.id, next>> # GatePass
  BY StatusTypes DEF StatusOf, GateInv, GatePass
<1>5. /\ eval'.passing = eval.passing /\ eval'.failing = eval.failing
      /\ eval'.failedProfiles = eval.failedProfiles /\ eval'.failedEndpoints = eval.failedEndpoints
      /\ eval'.reasons = IF result.status = "pass" THEN eval.reasons ELSE eval.reasons \cup {<<result.id, next>>}
      /\ eval'.statuses = eval.statuses \cup {result.status} /\ eval'.decision = eval.decision
      /\ EvalRecord'
  BY DEF evaluateRule, GateInv, EvalRecord
<1> HIDE DEF result
<1>6. len \in Nat
  BY Fields DEF GateInv, GateConfig
<1> HIDE DEF len
<1>7. /\ \A p : Passes(p)' <=> Passes(p)
      /\ CrossProfileFailed' <=> CrossProfileFailed
      /\ BoundaryReference' = BoundaryReference
      /\ \A i, r : StatusOf(i, r)' = StatusOf(i, r)
      /\ Visited = Profiles /\ Visited' = Profiles
  BY <1>1, SameProfiles, SameReference, SameStatuses DEF Visited
<1>8. CountersInv'
  BY <1>1, <1>2, <1>3, <1>5, <1>7 DEF GateInv, CountersInv, Looping
<1>9. ProfilesFailed' <=> ProfilesFailed
  BY <1>1, <1>5, <1>7 DEF ProfilesFailed, PassingProfiles
<1>10. StatusesInv'
  <2>1. Ruled = 1 .. next - 1 /\ Ruled' = 1 .. next
    BY <1>1, <1>6 DEF Ruled, len
  <2>2. \A i : i \in 1 .. next <=> i \in 1 .. next - 1 \/ i = next
    BY <1>1, <1>6
  <2>3. eval.statuses = {StatusOf(i, BoundaryReference) : i \in 1 .. next - 1}
    BY <1>1, <1>2, <1>3, <2>1 DEF GateInv, StatusesInv, Looping
  <2>4. eval'.statuses = {StatusOf(i, BoundaryReference) : i \in 1 .. next}
    BY <1>4, <1>5, <2>2, <2>3
  <2>5. eval'.statuses = {StatusOf(i, BoundaryReference)' : i \in 1 .. next}
    BY <1>7, <2>4
  <2>. QED
    BY <1>1, <2>1, <2>5 DEF StatusesInv
<1>11. DecisionInv'
  BY <1>1, <1>2, <1>3, <1>5, <1>9 DEF GateInv, DecisionInv, Looping, aggregateDecision
<1>12. ReasonsInv'
  <2>1. /\ GatePass \in eval.reasons => eval.decision \in {"pass", "report"}
        /\ eval.statuses \subseteq {"pass"} /\ GatePass \in eval.reasons => eval.reasons = {GatePass}
        /\ ~(eval.statuses \subseteq {"pass"}) => \E r \in eval.reasons : r # GatePass
        /\ eval.reasons # {}
    BY <1>1, <1>2, <1>3 DEF GateInv, ReasonsInv, Looping
  <2>2. /\ GatePass \in eval'.reasons => eval'.decision \in {"pass", "report"}
        /\ eval'.statuses \subseteq {"pass"} /\ GatePass \in eval'.reasons => eval'.reasons = {GatePass}
        /\ ~(eval'.statuses \subseteq {"pass"}) => \E r \in eval'.reasons : r # GatePass
        /\ eval'.reasons # {}
    BY <1>4, <1>5, <2>1
  <2>. QED
    BY <1>1, <2>2 DEF ReasonsInv
<1>13. TypeOK'
  <2>1. [gate |-> gate', outputs |-> outputs', sweep |-> sweep', baseline |-> baseline'] \in Case
    BY <1>1 DEF GateInv, TypeOK
  <2>2. next' \in Nat /\ (pc' = "rules" => next' \in 1 .. Len(gate'.boundaryRules))
    BY <1>1, <1>6 DEF len
  <2>. QED
    BY <1>1, <1>4, <1>5, <2>1, <2>2 DEF GateInv, TypeOK
<1>14. WhyInv' /\ PolicyInv' /\ ControlInv'
  BY <1>1, <1>2 DEF WhyInv, PolicyInv, ControlInv
<1>15. ReportInv'
  BY <1>1, SameRun DEF GateInv, ReportInv, inputs
<1>16. ListsInv'
  <2>1. ASSUME NEW p, NEW e
        PROVE  EndpointReason(p, e) \in eval'.reasons <=> EndpointReason(p, e) \in eval.reasons
    BY <1>5, EndpointReasons
  <2>2. Looping' => eval'.failedProfiles = {p \in Visited' : ~Passes(p)'}
    BY <1>1, <1>2, <1>3, <1>5, <1>7 DEF GateInv, ListsInv, Looping
  <2>3. \A p, e : EndpointReason(p, e)' = EndpointReason(p, e)
    BY DEF EndpointReason
  <2>. QED
    BY <1>5, <2>1, <2>2, <2>3 DEF GateInv, ListsInv
<1>. QED
  BY <1>5, <1>8, <1>10, <1>11, <1>12, <1>13, <1>14, <1>15, <1>16 DEF GateInv

\* The rules' statuses are merged, and the reason of a pass that does not
\* stand is removed.
LEMMA MergeInv == ASSUME GateInv, mergeBoundaries PROVE GateInv'
<1>1. /\ pc = "merge" /\ pc' = "end"
      /\ UNCHANGED <<command, override, gate, outputs, sweep, baseline, next, report, exit>>
  BY DEF mergeBoundaries, inputs
<1>2. command # "policy" /\ exit = Unset
  BY <1>1 DEF GateInv, PolicyInv, ControlInv
<1>3. exit # 1
  BY <1>2, UnsetIsNegative
<1>4. /\ eval'.passing = eval.passing /\ eval'.failing = eval.failing
      /\ eval'.failedProfiles = eval.failedProfiles /\ eval'.failedEndpoints = eval.failedEndpoints
      /\ eval'.reasons = removePassReasons(eval.reasons, eval.statuses)
      /\ eval'.statuses = eval.statuses
      /\ eval'.decision = mergeBoundaryDecision(eval.decision, eval.statuses)
      /\ EvalRecord'
  BY DEF mergeBoundaries, GateInv, EvalRecord
<1>5. /\ \A p : Passes(p)' <=> Passes(p)
      /\ CrossProfileFailed' <=> CrossProfileFailed
      /\ BoundaryReference' = BoundaryReference
      /\ \A i, r : StatusOf(i, r)' = StatusOf(i, r)
      /\ Visited = Profiles /\ Visited' = Profiles /\ Ruled' = Ruled
  BY <1>1, SameProfiles, SameReference, SameStatuses DEF Visited, Ruled
<1>6. CountersInv'
  BY <1>1, <1>2, <1>3, <1>4, <1>5 DEF GateInv, CountersInv, Looping
<1>7. ProfilesFailed' <=> ProfilesFailed
  BY <1>1, <1>4, <1>5 DEF ProfilesFailed, PassingProfiles
<1>8. StatusesInv'
  BY <1>1, <1>2, <1>3, <1>4, <1>5 DEF GateInv, StatusesInv, Looping
<1>9. eval.decision = aggregateDecision(ProfilesFailed)
  BY <1>1, <1>2, <1>3 DEF GateInv, DecisionInv, Looping
<1>10. DecisionInv'
  BY <1>1, <1>4, <1>7, <1>9 DEF DecisionInv, aggregateDecision, mergeBoundaryDecision
<1>11. ReasonsInv'
  <2>1. /\ GatePass \in eval.reasons => eval.decision \in {"pass", "report"}
        /\ eval.statuses \subseteq {"pass"} /\ GatePass \in eval.reasons => eval.reasons = {GatePass}
        /\ ~(eval.statuses \subseteq {"pass"}) => \E r \in eval.reasons : r # GatePass
        /\ eval.reasons # {}
    BY <1>1, <1>2, <1>3 DEF GateInv, ReasonsInv, Looping
  <2>2. /\ eval'.reasons # {}
        /\ GatePass \in eval'.reasons => eval'.reasons = {GatePass} /\ eval'.decision \in {"pass", "report"}
    <3>1. CASE eval.statuses \subseteq {"pass"}
      BY <1>4, <2>1, <3>1 DEF removePassReasons, mergeBoundaryDecision
    <3>2. CASE ~(eval.statuses \subseteq {"pass"})
      BY <1>4, <2>1, <3>2 DEF removePassReasons
    <3>. QED
      BY <3>1, <3>2
  <2>. QED
    BY <1>1, <2>2 DEF ReasonsInv
<1>12. TypeOK'
  <2>1. [gate |-> gate', outputs |-> outputs', sweep |-> sweep', baseline |-> baseline'] \in Case
    BY <1>1 DEF GateInv, TypeOK
  <2>2. eval'.decision \in Decisions
    BY <1>4, <1>9, DecisionTypes DEF GateInv, Decisions, mergeBoundaryDecision
  <2>. QED
    BY <1>1, <1>4, <2>1, <2>2 DEF GateInv, TypeOK
<1>13. WhyInv' /\ PolicyInv' /\ ControlInv'
  BY <1>1, <1>2 DEF WhyInv, PolicyInv, ControlInv
<1>14. ReportInv'
  BY <1>1, SameRun DEF GateInv, ReportInv, inputs
<1>15. ListsInv'
  <2>1. ASSUME NEW p, NEW e
        PROVE  EndpointReason(p, e) \in eval'.reasons <=> EndpointReason(p, e) \in eval.reasons
    BY <1>4, EndpointReasons DEF removePassReasons
  <2>2. Looping' => eval'.failedProfiles = {p \in Visited' : ~Passes(p)'}
    BY <1>1, <1>2, <1>3, <1>4, <1>5 DEF GateInv, ListsInv, Looping
  <2>3. \A p, e : EndpointReason(p, e)' = EndpointReason(p, e)
    BY DEF EndpointReason
  <2>. QED
    BY <1>4, <2>1, <2>2, <2>3 DEF GateInv, ListsInv
<1>. QED
  BY <1>4, <1>6, <1>8, <1>10, <1>11, <1>12, <1>13, <1>14, <1>15 DEF GateInv

\* The exit code is the decision's, and the run's report holds the decision
\* that the configuration and the baseline determine.
LEMMA FinishInv == ASSUME GateInv, finish PROVE GateInv'
<1>1. /\ pc = "end" /\ pc' = "done" /\ exit' = decisionExitCode(eval.decision)
      /\ report' = IF command = "run"
                   THEN [decision |-> eval.decision, diff |-> BoundaryDiff(sweep, baseline)] ELSE report
      /\ UNCHANGED <<command, override, gate, outputs, sweep, baseline, next, eval>>
  BY DEF finish, inputs
<1>2. command # "policy" /\ exit = Unset
  BY <1>1 DEF GateInv, PolicyInv, ControlInv
<1>3. exit # 1
  BY <1>2, UnsetIsNegative
<1>4. Looping
  BY <1>2, <1>3 DEF Looping
<1>5. /\ \A p : Passes(p)' <=> Passes(p)
      /\ CrossProfileFailed' <=> CrossProfileFailed
      /\ BoundaryReference' = BoundaryReference
      /\ \A i, r : StatusOf(i, r)' = StatusOf(i, r)
      /\ Visited = Profiles /\ Visited' = Profiles
      /\ Ruled = 1 .. Len(gate.boundaryRules) /\ Ruled' = Ruled
  BY <1>1, SameProfiles, SameStatuses DEF Visited, Ruled, BoundaryReference
<1>6. CountersInv'
  BY <1>1, <1>4, <1>5 DEF GateInv, CountersInv
<1>7. ProfilesFailed' <=> ProfilesFailed
  BY <1>1, <1>5 DEF ProfilesFailed, PassingProfiles
<1>8. StatusesInv'
  BY <1>1, <1>4, <1>5 DEF GateInv, StatusesInv
<1>9. eval.decision = mergeBoundaryDecision(aggregateDecision(ProfilesFailed), eval.statuses)
  BY <1>1, <1>4 DEF GateInv, DecisionInv
<1>10. eval.decision \in {"pass", "warn", "fail", "report"} /\ exit' \in {0, 2}
  BY <1>1, <1>9, DecisionTypes DEF GateInv, decisionExitCode, ProfilesFailed
<1>11. DecisionInv'
  BY <1>1, <1>7, <1>9 DEF DecisionInv, aggregateDecision, mergeBoundaryDecision
<1>12. ReasonsInv' /\ WhyInv'
  BY <1>1, <1>4 DEF GateInv, ReasonsInv, WhyInv
<1>13. TypeOK'
  <2>1. [gate |-> gate', outputs |-> outputs', sweep |-> sweep', baseline |-> baseline'] \in Case
    BY <1>1 DEF GateInv, TypeOK
  <2>2. report'.decision \in Decisions
    BY <1>1, <1>10 DEF GateInv, TypeOK, Decisions
  <2>. QED
    BY <1>1, <1>10, <2>1, <2>2 DEF GateInv, TypeOK
<1>14. PolicyInv' /\ ControlInv'
  BY <1>1, <1>2 DEF PolicyInv, ControlInv
<1>15. ReportInv'
  <2>1. command = "run" => eval.decision = RunDecision
    <3>1. ProfilesFailed <=> SomeProfilesFail
      BY <1>1, <1>4, CountersTell
    <3>2. command = "run" => eval.statuses = RunStatuses
      BY <1>1, <1>4, <1>5 DEF GateInv, StatusesInv, RunStatuses, BoundaryReference
    <3>. QED
      BY <1>9, <3>1, <3>2 DEF RunDecision, aggregateDecision
  <2>2. RunDecision' = RunDecision
    BY <1>1, SameRun DEF inputs
  <2>3. exit' # 1
    BY <1>10
  <2>. QED
    BY <1>1, <2>1, <2>2, <2>3 DEF GateInv, ReportInv
<1>16. ListsInv'
  <2>1. ASSUME NEW p, NEW e
        PROVE  EndpointReason(p, e) \in eval'.reasons <=> EndpointReason(p, e) \in eval.reasons
    BY <1>1
  <2>2. Looping' => eval'.failedProfiles = {p \in Visited' : ~Passes(p)'}
    BY <1>1, <1>4, <1>5 DEF GateInv, ListsInv, Looping
  <2>3. \A p, e : EndpointReason(p, e)' = EndpointReason(p, e)
    BY DEF EndpointReason
  <2>. QED
    BY <1>1, <2>1, <2>2, <2>3 DEF GateInv, ListsInv
<1>. QED
  BY <1>1, <1>6, <1>8, <1>11, <1>12, <1>13, <1>14, <1>15, <1>16 DEF GateInv, EvalRecord

\* A later command replaces the mode only, and with no --mode nothing.
LEMMA OverrideKeeps ==
  ASSUME TypeOK, NEW m
  PROVE  /\ Overridden(m) \in GateConfig
         /\ Overridden(m).endpoint = gate.endpoint /\ Overridden(m).global = gate.global
         /\ Overridden(m).boundaryRules = gate.boundaryRules
         /\ m \notin Modes => Overridden(m) = gate
  BY Fields DEF Overridden, GateConfig

\* What the report says stays what this gate would have to say again.
LEMMA ReportKept ==
  ASSUME GateInv, NEW m, pc = "done", command = "run", pc' \in {"profiles", "done"}, command' # "run",
         gate' = Overridden(m), override' = m,
         UNCHANGED <<outputs, sweep, baseline, report>>
  PROVE  ReportInv'
<1>1. override' = "" => gate' = gate
  BY OverrideKeeps DEF GateInv, Modes
<1>2. gate' = gate => RunDecision' = RunDecision
  BY SameRun DEF inputs
<1>3. report.diff = BoundaryDiff(sweep, baseline) /\ report.decision = RunDecision
  BY DEF GateInv, ReportInv
<1>. QED
  BY <1>1, <1>2, <1>3 DEF ReportInv

\* The analysis is evaluated again from an empty evaluation.
LEMMA GateAgainInv == ASSUME GateInv, NEW m \in Overrides, runGate(m) PROVE GateInv'
<1>1. /\ pc = "done" /\ command = "run" /\ command' = "gate" /\ override' = m
      /\ gate' = Overridden(m) /\ next' = 1 /\ eval' = EmptyEvaluation
      /\ UNCHANGED <<outputs, sweep, baseline, report>>
      /\ \/ pc' = "profiles" /\ exit' = Unset
         \/ pc' = "done" /\ exit' = 1
  BY DEF runGate, inputs
<1>2. /\ eval'.passing = 0 /\ eval'.failing = 0 /\ eval'.failedProfiles = {} /\ eval'.failedEndpoints = {}
      /\ eval'.reasons = {} /\ eval'.statuses = {} /\ eval'.decision = "none" /\ EvalRecord'
  BY <1>1 DEF EmptyEvaluation, EvalRecord
<1>3. TypeOK'
  <2>1. [gate |-> gate', outputs |-> outputs', sweep |-> sweep', baseline |-> baseline'] \in Case
    BY <1>1, OverrideKeeps DEF GateInv, TypeOK, Case
  <2>2. 0 \in 0 .. NProfiles /\ 1 \in Profiles
    BY Sizes DEF Profiles
  <2>3. next' \in Nat /\ exit' \in {Unset, 0, 1, 2} /\ (pc' = "profiles" => next' \in Profiles)
    BY <1>1, <2>2
  <2>. QED
    BY <1>1, <1>2, <2>1, <2>2, <2>3 DEF GateInv, TypeOK, Decisions
<1>4. pc' = "profiles" => \A p : p \notin Visited'
  <2>1. pc' = "profiles" => Visited' = 1 .. 0
    BY <1>1 DEF Visited
  <2>. QED
    BY <2>1
<1>5. CountersInv'
  <2>1. eval'.passing + eval'.failing = next' - 1 /\ ~(eval'.passing > 0) /\ ~(eval'.failing > 0)
    BY <1>1, <1>2
  <2>2. pc' = "profiles" \/ exit' = 1
    BY <1>1
  <2>. QED
    BY <1>4, <2>1, <2>2 DEF CountersInv, Looping
<1>6. StatusesInv' /\ DecisionInv' /\ ReasonsInv' /\ WhyInv' /\ PolicyInv' /\ ControlInv'
  BY <1>1, <1>2, <1>4
  DEF StatusesInv, DecisionInv, ReasonsInv, WhyInv, PolicyInv, ControlInv, Looping
<1>7. ReportInv'
  BY <1>1, ReportKept
<1>8. ListsInv'
  <2>1. exit' # 1 => \A p : p \notin Visited'
    BY <1>1, <1>4
  <2>. QED
    BY <1>1, <1>2, <2>1 DEF ListsInv, Looping
<1>. QED
  BY <1>2, <1>3, <1>5, <1>6, <1>7, <1>8 DEF GateInv

\* The policy decides at once.
LEMMA PolicyAgainInv == ASSUME GateInv, NEW m \in Overrides, runGatePolicy(m) PROVE GateInv'
<1> DEFINE decision == IF gate'.mode = "report" THEN "report"
                       ELSE IF PolicyFailed # {} THEN gate'.mode ELSE "pass"
           reasons == IF PolicyFailed = {} THEN {GatePass}
                      ELSE {<<"endpoint_below_threshold", 1, e>> : e \in PolicyFailed}
<1>1. /\ pc = "done" /\ command = "run" /\ command' = "policy" /\ override' = m
      /\ gate' = Overridden(m)
      /\ UNCHANGED <<outputs, sweep, baseline, report, pc, next>>
  BY DEF runGatePolicy, inputs
<1>2. /\ eval'.passing = 0 /\ eval'.failing = 0 /\ eval'.failedProfiles = {}
      /\ eval'.failedEndpoints \in {{}, PolicyFailed} /\ eval'.statuses = {} /\ EvalRecord'
      /\ \/ /\ eval'.decision = decision /\ eval'.reasons = reasons /\ exit' = decisionExitCode(decision)
            /\ eval'.failedEndpoints = PolicyFailed
         \/ eval'.decision = "none" /\ exit' = 1 /\ eval'.reasons = {} /\ eval'.failedEndpoints = {}
  <2>1. CASE m \in Modes \cup {""}
    <3>1. /\ eval' = [EmptyEvaluation EXCEPT !.decision = decision, !.failedEndpoints = PolicyFailed,
                                             !.reasons = reasons]
          /\ exit' = decisionExitCode(decision)
      BY <2>1, Zenon DEF runGatePolicy
    <3> HIDE DEF decision, reasons
    <3>. QED
      BY <3>1 DEF EmptyEvaluation, EvalRecord
  <2>2. CASE m \notin Modes \cup {""}
    <3>1. eval' = EmptyEvaluation /\ exit' = 1
      BY <2>2, Zenon DEF runGatePolicy
    <3>. QED
      BY <3>1 DEF EmptyEvaluation, EvalRecord
  <2>. QED
    BY <2>1, <2>2
<1>3. gate' \in GateConfig /\ gate'.mode \in Modes
  BY <1>1, OverrideKeeps DEF GateInv, GateConfig
<1>4. decision \in {"pass", "warn", "fail", "report"} /\ decisionExitCode(decision) \in {0, 2}
  <2>1. decision \in {"pass", "warn", "fail", "report"}
    BY <1>3 DEF Modes
  <2>. QED
    BY <2>1 DEF decisionExitCode
<1>5. PolicyFailed' = PolicyFailed /\ PolicyFailed \subseteq Endpoints
  <2>1. \A e : PolicyThreshold(e)' = PolicyThreshold(e)
    BY <1>1, OverrideKeeps DEF GateInv, PolicyThreshold
  <2>. QED
    BY <1>1, <2>1 DEF PolicyFailed
<1>6. reasons # {} /\ (GatePass \in reasons => reasons = {GatePass} /\ decision \in {"pass", "report"})
  BY DEF GatePass
<1> HIDE DEF decision, reasons
<1>7. TypeOK'
  <2>1. [gate |-> gate', outputs |-> outputs', sweep |-> sweep', baseline |-> baseline'] \in Case
    BY <1>1, <1>3 DEF GateInv, TypeOK, Case
  <2>2. 0 \in 0 .. NProfiles
    BY Sizes
  <2>3. exit' \in {Unset, 0, 1, 2} /\ eval'.decision \in Decisions
    BY <1>2, <1>4 DEF Decisions
  <2>. QED
    BY <1>1, <1>2, <1>5, <2>1, <2>2, <2>3 DEF GateInv, TypeOK
<1>8. CountersInv' /\ StatusesInv' /\ DecisionInv' /\ ReasonsInv'
  BY <1>1 DEF CountersInv, StatusesInv, DecisionInv, ReasonsInv, Looping
<1>9. WhyInv' /\ ControlInv'
  BY <1>1, <1>2, <1>6 DEF WhyInv, ControlInv
<1>10. PolicyInv'
  BY <1>1, <1>2, <1>5 DEF PolicyInv, decision, reasons
<1>11. ReportInv'
  BY <1>1, ReportKept
<1>12. ListsInv'
  <2>1. ~Looping'
    BY <1>1 DEF Looping
  <2>2. \A e : e \in PolicyFailed <=> \E p \in Profiles : EndpointReason(p, e) \in reasons
    BY FirstProfile DEF EndpointReason, GatePass, reasons
  <2>3. \A e \in Endpoints : e \in eval'.failedEndpoints
                              <=> \E p \in Profiles : EndpointReason(p, e) \in eval'.reasons
    BY <1>2, <2>2
  <2>. QED
    BY <2>1, <2>3 DEF ListsInv, EndpointReason
<1>. QED
  BY <1>2, <1>7, <1>8, <1>9, <1>10, <1>11, <1>12 DEF GateInv

LEMMA NextInv == GateInv /\ [Next]_vars => GateInv'
<1> SUFFICES ASSUME GateInv, [Next]_vars PROVE GateInv'
  OBVIOUS
<1>1. CASE evaluateProfile
  BY <1>1, ProfileInv
<1>2. CASE combineProfiles
  BY <1>2, CombineInv
<1>3. CASE evaluateRule
  BY <1>3, RuleInv
<1>4. CASE mergeBoundaries
  BY <1>4, MergeInv
<1>5. CASE finish
  BY <1>5, FinishInv
<1>6. ASSUME NEW m \in Overrides, runGate(m) PROVE GateInv'
  BY <1>6, GateAgainInv
<1>7. ASSUME NEW m \in Overrides, runGatePolicy(m) PROVE GateInv'
  BY <1>7, PolicyAgainInv
<1>8. CASE UNCHANGED vars
  <2>1. /\ UNCHANGED <<command, override, gate, outputs, sweep, baseline, pc, next, eval, report, exit>>
    BY <1>8 DEF vars
  <2>2. /\ \A p : Passes(p)' <=> Passes(p)
        /\ CrossProfileFailed' <=> CrossProfileFailed
        /\ BoundaryReference' = BoundaryReference
        /\ \A i, r : StatusOf(i, r)' = StatusOf(i, r)
        /\ Visited' = Visited /\ Ruled' = Ruled
    BY <2>1, SameProfiles, SameReference, SameStatuses DEF Visited, Ruled
  <2>3. ProfilesFailed' <=> ProfilesFailed
    BY <2>1, <2>2 DEF ProfilesFailed, PassingProfiles
  <2>4. TypeOK' /\ EvalRecord' /\ WhyInv' /\ ControlInv'
    BY <2>1 DEF GateInv, TypeOK, EvalRecord, WhyInv, ControlInv
  <2>5. CountersInv' /\ StatusesInv'
    BY <2>1, <2>2 DEF GateInv, CountersInv, StatusesInv, Looping
  <2>6. DecisionInv'
    BY <2>1, <2>3 DEF GateInv, DecisionInv, Looping, aggregateDecision, mergeBoundaryDecision
  <2>7. ReasonsInv'
    BY <2>1, <2>2 DEF GateInv, ReasonsInv, Looping
  <2>8. ReportInv'
    BY <2>1, SameRun DEF GateInv, ReportInv, inputs
  <2>9. PolicyInv'
    BY <2>1 DEF GateInv, PolicyInv, PolicyFailed, PolicyThreshold
  <2>10. ListsInv'
    BY <2>1, <2>2 DEF GateInv, ListsInv, Looping, EndpointReason
  <2>. QED
    BY <2>4, <2>5, <2>6, <2>7, <2>8, <2>9, <2>10 DEF GateInv
<1>. QED
  BY <1>1, <1>2, <1>3, <1>4, <1>5, <1>6, <1>7, <1>8 DEF Next

\* The invariant of the gate.
THEOREM GateInvariant == Spec => []GateInv
  BY InitInv, NextInv, PTL DEF Spec

-----------------------------------------------------------------------------
(* What the invariant gives.                                               *)

\* The threshold in force is the one the configuration asks for, and so a
\* profile passes, outside report mode, when it meets what is asked of it.
LEMMA PassesMeets ==
  ASSUME TypeOK, gate.mode # "report", NEW p \in Profiles
  PROVE  Passes(p) <=> ProfileMeets(p)
<1>1. /\ gate.mode \in {"warn", "fail"} /\ gate.global \in Levels
      /\ \A e \in Endpoints :
           /\ gate.endpoint[e] \in Levels \cup {Unset}
           /\ gate.profileEndpoint[p][e] \in Levels \cup {Unset}
           /\ outputs[p].availability[e] \in Levels
      /\ outputs[p].aggregate \in Levels /\ AggregateThreshold(p) \in Levels \cup {Unset}
      /\ outputs[p].assertions \in BOOLEAN
  BY Fields DEF GateConfig, ProfileOutput, Threshold, Modes, AggregateThreshold
<1>2. Levels \subseteq Int /\ Unset \in Int /\ Unset \notin Levels
  BY GateAssumption, UnsetIsNegative
<1>3. ASSUME NEW e \in Endpoints
      PROVE  EndpointThreshold(p, e) =
               CHOOSE t \in Levels :
                 \/ t = gate.profileEndpoint[p][e]
                 \/ gate.profileEndpoint[p][e] = Unset /\ t = gate.endpoint[e]
                 \/ gate.profileEndpoint[p][e] = Unset /\ gate.endpoint[e] = Unset /\ t = gate.global
  <2> DEFINE Asks(t) ==
               \/ t = gate.profileEndpoint[p][e]
               \/ gate.profileEndpoint[p][e] = Unset /\ t = gate.endpoint[e]
               \/ gate.profileEndpoint[p][e] = Unset /\ gate.endpoint[e] = Unset /\ t = gate.global
  <2>1. EndpointThreshold(p, e) \in Levels /\ Asks(EndpointThreshold(p, e))
    BY <1>1, <1>2 DEF EndpointThreshold
  <2>2. \A t \in Levels : Asks(t) => t = EndpointThreshold(p, e)
    BY <1>1, <1>2 DEF EndpointThreshold
  <2> HIDE DEF Asks
  <2>3. EndpointThreshold(p, e) = CHOOSE t \in Levels : Asks(t)
    BY <2>1, <2>2
  <2>. QED
    BY <2>3 DEF Asks
<1>4. \A e \in Endpoints : EndpointThreshold(p, e) \in Levels
  BY <1>1, <1>2 DEF EndpointThreshold
<1>5. FailedEndpoints(p) = {} <=>
        \A e \in Endpoints : outputs[p].availability[e] >= EndpointThreshold(p, e)
  <2>1. \A e \in Endpoints : outputs[p].availability[e] \in Int /\ EndpointThreshold(p, e) \in Int
    BY <1>1, <1>2, <1>4
  <2>2. \A e \in Endpoints : outputs[p].availability[e] < EndpointThreshold(p, e)
                               <=> ~(outputs[p].availability[e] >= EndpointThreshold(p, e))
    BY <2>1
  <2>. QED
    BY <2>2 DEF FailedEndpoints
<1>6. ~AggregateFailed(p) <=> outputs[p].aggregate >= AggregateThreshold(p)
  <2>1. outputs[p].aggregate \in Int /\ AggregateThreshold(p) \in Int
    BY <1>1, <1>2
  <2>. QED
    BY <2>1 DEF AggregateFailed
<1>7. Passes(p) <=> FailedEndpoints(p) = {} /\ ~AggregateFailed(p) /\ outputs[p].assertions
  BY <1>1 DEF Passes, ProfileDecision, aggregateDecision
<1>. QED
  BY <1>3, <1>5, <1>6, <1>7 DEF ProfileMeets

\* A command that evaluated the analysis decided what the loops leave.
LEMMA Decided ==
  ASSUME GateInv, Evaluated
  PROVE  /\ Looping
         /\ eval.decision = mergeBoundaryDecision(aggregateDecision(SomeProfilesFail), eval.statuses)
         /\ eval.statuses = RunStatuses
         /\ exit = decisionExitCode(eval.decision)
<1>1. Looping /\ pc = "done"
  BY DEF Evaluated, Looping
<1>2. ProfilesFailed <=> SomeProfilesFail
  BY <1>1, CountersTell
<1>3. BoundaryReference \in {ReferenceFromBaseline(sweep, baseline),
                            ReferenceFromReport(BoundaryDiff(sweep, baseline))}
  BY <1>1 DEF BoundaryReference, GateInv, ReportInv
<1>4. \A i : StatusOf(i, BoundaryReference) = StatusOf(i, ReferenceFromBaseline(sweep, baseline))
  BY <1>3, ReferencesAgree
<1>5. Ruled = 1 .. Len(gate.boundaryRules)
  BY <1>1 DEF Ruled
<1>6. eval.statuses = {StatusOf(i, BoundaryReference) : i \in 1 .. Len(gate.boundaryRules)}
  BY <1>1, <1>5 DEF GateInv, StatusesInv
<1>7. eval.statuses = RunStatuses
  BY <1>4, <1>6 DEF RunStatuses
<1>. QED
  BY <1>1, <1>2, <1>7 DEF GateInv, DecisionInv, aggregateDecision

LEMMA SoundFromInv == GateInv => DecisionSound
<1> SUFFICES ASSUME GateInv, Evaluated
             PROVE  eval.decision =
                      IF gate.mode = "report" THEN "report"
                      ELSE IF "fail" \in eval.statuses \/ (gate.mode = "fail" /\ ~ProfilesMeet) THEN "fail"
                      ELSE IF "warn" \in eval.statuses \/ ~ProfilesMeet THEN "warn" ELSE "pass"
  BY DEF DecisionSound
<1>1. gate.mode \in Modes /\ gate.rule \in {"all_profiles", "any_profile"}
  BY Fields DEF GateInv, GateConfig
<1>2. gate.mode # "report" => (SomeProfilesFail <=> ~ProfilesMeet)
  BY PassesMeets DEF GateInv, SomeProfilesFail, ProfilesMeet
<1>. QED
  BY <1>1, <1>2, Decided DEF mergeBoundaryDecision, aggregateDecision, Modes

\* The certified tolerance of a curve is the end of its certified prefix.
LEMMA CertifiedExists ==
  ASSUME NEW curve \in Curves, NEW slo \in Counts
  PROVE  /\ CertifiedTolerance(curve, slo) \in 0 .. NPoints
         /\ CertifiesUpTo(curve, slo, CertifiedTolerance(curve, slo))
<1>1. NPoints \in Nat /\ slo \in Int /\ \A i \in Points : Lower[curve[i]] \in Int
  BY EvidenceAssumption DEF Curves, Counts
<1> DEFINE Short == {i \in Points : Lower[curve[i]] < slo}
<1>2. \E k \in 0 .. NPoints : CertifiesUpTo(curve, slo, k)
  <2>1. CASE Short = {}
    <3>1. NPoints \in 0 .. NPoints /\ CertifiesUpTo(curve, slo, NPoints)
      BY <1>1, <2>1 DEF CertifiesUpTo, Points
    <3>. QED
      BY <3>1
  <2>2. CASE Short # {}
    <3>1. Short \in SUBSET Nat
      BY <1>1 DEF Points
    <3>2. PICK n \in Short : \A m \in Short : n <= m
      BY <2>2, <3>1, LeastNatural
    <3>3. n - 1 \in 0 .. NPoints /\ (n - 1) + 1 = n /\ n \in Points
      BY <1>1, <3>2 DEF Points
    <3>4. \A i \in Points : i <= n - 1 => Lower[curve[i]] >= slo
      BY <1>1, <3>2, <3>3 DEF Points
    <3>5. CertifiesUpTo(curve, slo, n - 1)
      BY <3>2, <3>3, <3>4 DEF CertifiesUpTo
    <3>. QED
      BY <3>3, <3>5
  <2>. QED
    BY <2>1, <2>2
<1>. QED
  BY <1>2 DEF CertifiedTolerance

LEMMA RuleBounds == ASSUME NEW r \in Rule PROVE r.minimum \in Int /\ r.maxRegression \in Int
<1>1. r.minimum \in {Unset} \cup Nat /\ r.maxRegression \in {Unset} \cup Nat
  BY DEF Rule
<1>. QED
  BY <1>1, UnsetIsNegative

\* A strict rule in mode "fail" that does not deny has its evidence.
LEMMA StrictRule ==
  ASSUME TypeOK, gate.mode = "fail", NEW i \in 1 .. Len(gate.boundaryRules),
         Strict(gate.boundaryRules[i]), StatusOf(i, ReferenceFromBaseline(sweep, baseline)) # "fail"
  PROVE  EvidenceMeets(gate.boundaryRules[i])
<1> DEFINE r == gate.boundaryRules[i]
           reference == ReferenceFromBaseline(sweep, baseline)
           k == Certified(sweep)
           b == Certified(baseline)
<1>1. r \in Rule /\ sweep \in Sweep /\ baseline \in Sweep
  BY Fields DEF GateConfig
<1>2. /\ k \in Int /\ b \in Int /\ k <= NPoints
      /\ \A j \in Points : j <= k => Lower[sweep.curve[j]] >= sweep.slo
  BY <1>1, CertifiedExists, EvidenceAssumption DEF Certified, Sweep, CertifiesUpTo
<1>3. Indeterminate(r, gate).status = "fail" /\ \A id : Failed(gate, id).status = "fail"
  BY DEF Strict, Indeterminate, Failed, classify
<1> HIDE DEF r
<1>4. /\ Monotone(sweep.curve)
      /\ r.minimum # Unset => MinimumCertified(r, sweep)
      /\ r.maxRegression # Unset => /\ Comparable(sweep, reference)
                                    /\ ~(Value(k) - Value(reference.tolerance) < -r.maxRegression)
  BY <1>3 DEF StatusOf, evaluateBoundaryRule, r
<1>5. ASSUME r.minimum # Unset
      PROVE  /\ \E j \in Points : Value(j) >= r.minimum /\ Lower[sweep.curve[j]] >= sweep.slo
             /\ \A j \in Points : Value(j) <= r.minimum => Lower[sweep.curve[j]] >= sweep.slo
  <2>1. r.minimum \in Int
    BY <1>1, RuleBounds
  <2>3. k # 0 /\ 2 * k >= r.minimum
    BY <1>4, <1>5 DEF MinimumCertified, NoPoint, Value
  <2>4. 0 <= k
    BY <1>1, CertifiedExists, EvidenceAssumption DEF Certified, Sweep
  <2>2. k \in Points
    BY <1>2, <2>3, <2>4, EvidenceAssumption DEF Points
  <2>. QED
    BY <1>2, <2>1, <2>2, <2>3 DEF Value, Points
<1>6. ASSUME r.maxRegression # Unset
      PROVE  /\ baseline.present /\ baseline.fingerprint = sweep.fingerprint
             /\ \A j \in Points : (Value(j) <= Value(b) - r.maxRegression)
                                   => Lower[sweep.curve[j]] >= sweep.slo
  <2>1. r.maxRegression \in Int
    BY <1>1, RuleBounds
  <2>2. baseline.present /\ baseline.fingerprint = sweep.fingerprint /\ reference.tolerance = b
    BY <1>4, <1>6 DEF Comparable, ReferenceFromBaseline
  <2>3. 2 * k - 2 * b >= -r.maxRegression
    BY <1>2, <1>4, <1>6, <2>1, <2>2 DEF Value
  <2>4. \A j \in Points : 2 * j <= 2 * b - r.maxRegression => j <= k
    BY <1>2, <2>1, <2>3 DEF Points
  <2>. QED
    BY <1>2, <2>2, <2>4 DEF Value
<1>. QED
  BY <1>4, <1>5, <1>6 DEF EvidenceMeets, r

LEMMA ClosedFromInv == GateInv => FailClosed
<1> SUFFICES ASSUME GateInv, Evaluated, exit = 0, gate.mode = "fail",
                    NEW i \in 1 .. Len(gate.boundaryRules), Strict(gate.boundaryRules[i])
             PROVE  EvidenceMeets(gate.boundaryRules[i])
  BY DEF FailClosed
<1>1. eval.decision # "fail"
  BY Decided DEF decisionExitCode
<1>2. "fail" \notin RunStatuses
  BY <1>1, Decided DEF mergeBoundaryDecision
<1>3. StatusOf(i, ReferenceFromBaseline(sweep, baseline)) # "fail"
  BY <1>2 DEF RunStatuses
<1>. QED
  BY <1>3, StrictRule DEF GateInv

LEMMA ReplayFromInv == GateInv => ReplayAgrees
<1>0. SUFFICES ASSUME GateInv, pc = "done", exit # 1, override = "",
                      command = "gate" \/ (command = "policy" /\ FromPolicy)
               PROVE  eval.decision = report.decision
  BY DEF ReplayAgrees
<1>1. report.decision = RunDecision
  BY <1>0 DEF GateInv, ReportInv
<1>2. CASE command = "gate"
  BY <1>0, <1>1, <1>2, Decided DEF Evaluated, RunDecision
<1>3. CASE command = "policy" /\ FromPolicy
  <2>1. eval.decision = IF gate.mode = "report" THEN "report"
                        ELSE IF PolicyFailed # {} THEN gate.mode ELSE "pass"
    BY <1>0, <1>3 DEF GateInv, PolicyInv
  <2>2. RunStatuses = {} /\ ~CrossProfileFailed
    <3>1. Len(gate.boundaryRules) = 0 /\ ~CrossProfileFailed
      BY <1>3 DEF FromPolicy, CrossProfileFailed
    <3>2. \A i : i \notin 1 .. Len(gate.boundaryRules)
      BY <3>1
    <3>. QED
      BY <3>1, <3>2 DEF RunStatuses
  <2>3. 1 \in Profiles
    BY FirstProfile
  <2>4. ASSUME NEW p \in Profiles, gate.mode # "report" PROVE Passes(p) <=> PolicyFailed = {}
    <3>1. FailedEndpoints(p) = PolicyFailed
      BY <1>3 DEF FromPolicy, FailedEndpoints, PolicyFailed, EndpointThreshold, PolicyThreshold
    <3>2. outputs[p].assertions /\ AggregateThreshold(p) = Unset
      BY <1>3 DEF FromPolicy, AggregateThreshold
    <3>3. outputs[p].aggregate \in Nat
      BY <1>0, Fields, GateAssumption DEF GateInv, ProfileOutput
    <3>4. ~AggregateFailed(p)
      BY <3>2, <3>3, UnsetIsNegative DEF AggregateFailed
    <3>5. gate.mode \in {"warn", "fail"}
      BY <1>0, <2>4, Fields DEF GateInv, GateConfig, Modes
    <3>. QED
      BY <3>1, <3>2, <3>4, <3>5 DEF Passes, ProfileDecision, aggregateDecision
  <2>5. gate.mode # "report" => (SomeProfilesFail <=> PolicyFailed # {})
    BY <2>2, <2>3, <2>4 DEF SomeProfilesFail
  <2>. QED
    BY <1>1, <2>1, <2>2, <2>5 DEF RunDecision, mergeBoundaryDecision, aggregateDecision
<1>. QED
  BY <1>0, <1>2, <1>3

\* The variables keep their types.
THEOREM GateTyped == Spec => []TypeOK
<1>1. GateInv => TypeOK
  BY DEF GateInv
<1>. QED
  BY <1>1, GateInvariant, PTL

\* The decision is what the configuration asks of profiles and statuses,
\* whatever the loops of EvaluateProfiles and EvaluateAnalysis did on the way.
THEOREM DecisionIsSound == Spec => []DecisionSound
  BY GateInvariant, SoundFromInv, PTL

\* Exit code 0 of a strict gate in mode "fail" means certified evidence, for
\* every curve, SLO, baseline and rule.
THEOREM GateFailsClosed == Spec => []FailClosed
  BY GateInvariant, ClosedFromInv, PTL

\* `gate' decides on a stored report as the `run' that wrote it.
THEOREM GateReplays == Spec => []ReplayAgrees
  BY GateInvariant, ReplayFromInv, PTL

\* A decision always comes with its reasons, and never with those of another;
\* the lists of failed endpoints and profiles agree with them.
THEOREM ReasonsAgree == Spec => []WhyConsistent
<1>1. GateInv => WhyConsistent
  <2> SUFFICES ASSUME GateInv, pc = "done", exit # 1 PROVE WhyConsistent
    BY DEF WhyConsistent
  <2>1. /\ eval.reasons # {}
        /\ GatePass \in eval.reasons => eval.reasons = {GatePass} /\ eval.decision \in {"pass", "report"}
    BY DEF GateInv, WhyInv
  <2>2. \A e \in Endpoints :
          e \in eval.failedEndpoints
            <=> \E p \in Profiles : <<"endpoint_below_threshold", p, e>> \in eval.reasons
    BY DEF GateInv, ListsInv, EndpointReason
  <2>3. ASSUME command # "policy", gate.mode # "report"
        PROVE  eval.failedProfiles = {p \in Profiles : ~ProfileMeets(p)}
    <3>1. Looping /\ Visited = Profiles
      BY <2>3 DEF Looping, Visited
    <3>2. eval.failedProfiles = {p \in Profiles : ~Passes(p)}
      BY <3>1 DEF GateInv, ListsInv
    <3>3. \A p \in Profiles : Passes(p) <=> ProfileMeets(p)
      BY <2>3, PassesMeets DEF GateInv
    <3>. QED
      BY <3>2, <3>3
  <2>. QED
    BY <2>1, <2>2, <2>3 DEF WhyConsistent
<1>. QED
  BY <1>1, GateInvariant, PTL
=============================================================================
