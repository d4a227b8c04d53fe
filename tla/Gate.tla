-------------------------------- MODULE Gate --------------------------------
(***************************************************************************)
(* The gate: internal/gate/gate.go, driven by the run and gate commands of *)
(* internal/app/app.go.                                                    *)
(*                                                                         *)
(* `run' evaluates the simulated profiles and the boundary rules, writes   *)
(* the report and exits; a later `gate' reads the report and evaluates it  *)
(* again, with the same analysis file or with a policy, possibly in an     *)
(* overridden mode.  Availabilities and thresholds are levels of a common  *)
(* scale, since the gate only compares them.                               *)
(***************************************************************************)
EXTENDS BoundaryRules, Sequences, Functions

CONSTANTS
  NProfiles,  \* profiles of the analysis config, in order
  Endpoints,
  Levels,     \* availabilities and thresholds, a set of naturals
  Cases,      \* what is evaluated: see Case
  Overrides   \* values of --mode: modes, "" (not given) or unsupported words

Profiles == 1 .. NProfiles
Threshold == Levels \cup {Unset}

GateConfig == [mode : Modes, defaultAction : Modes, rule : {"all_profiles", "any_profile"},
               global : Levels, endpoint : [Endpoints -> Threshold],
               profileEndpoint : [Profiles -> [Endpoints -> Threshold]],
               aggregate : Threshold, profileAggregate : [Profiles -> Threshold],
               cross : Threshold, boundaryRules : Seq(Rule)]

ProfileOutput == [availability : [Endpoints -> Levels], aggregate : Levels, assertions : BOOLEAN]

\* The gate section of the config file, the simulation's results, and the
\* sweep of this run, of its own definition, and of the baseline report.
Case == [gate : GateConfig, outputs : [Profiles -> ProfileOutput], sweep : Sweep, baseline : Sweep]

ASSUME GateAssumption ==
  /\ NProfiles \in Nat \ {0}
  /\ Levels \subseteq Nat
  /\ Cases \subseteq Case
  /\ \A c \in Cases : c.sweep.present /\ c.sweep.fingerprint = "this"

VARIABLES
  command,   \* "run", "gate" (with the analysis file) or "policy" (gate --policy)
  override,  \* --mode
  gate,      \* the gate configuration in force
  outputs, sweep, baseline,  \* the simulation's results and the baseline report's sweep
  pc,        \* "profiles", "combine", "rules", "merge", "end" or "done"
  next,      \* the next profile or rule of the running loop
  eval,      \* the Evaluation being built, with its loop counters
  report,    \* what the run wrote: the decision and the boundary diff
  exit       \* exit code of the command; Unset while it runs

vars == <<command, override, gate, outputs, sweep, baseline, pc, next, eval, report, exit>>
inputs == <<outputs, sweep, baseline>>

NoReport == [decision |-> "none", diff |-> [comparable |-> FALSE, reference |-> NoPoint]]

EmptyEvaluation ==
  [passing |-> 0, failing |-> 0, failedProfiles |-> {}, failedEndpoints |-> {},
   reasons |-> {}, statuses |-> {}, decision |-> "none"]

Init ==
  /\ command = "run" /\ override = ""
  /\ \E c \in Cases : gate = c.gate /\ outputs = c.outputs /\ sweep = c.sweep /\ baseline = c.baseline
  /\ pc = "profiles" /\ next = 1 /\ eval = EmptyEvaluation
  /\ report = NoReport /\ exit = Unset

-----------------------------------------------------------------------------
(* Profiles.                                                               *)

\* Mutant: the general endpoint threshold hides the profile's own.
GeneralThreshold(p, e) ==
  IF gate.endpoint[e] # Unset THEN gate.endpoint[e]
  ELSE IF gate.profileEndpoint[p][e] # Unset THEN gate.profileEndpoint[p][e]
  ELSE gate.global

EndpointThreshold(p, e) ==
  IF gate.profileEndpoint[p][e] # Unset THEN gate.profileEndpoint[p][e]
  ELSE IF gate.endpoint[e] # Unset THEN gate.endpoint[e]
  ELSE gate.global

AggregateThreshold(p) ==
  IF gate.profileAggregate[p] # Unset THEN gate.profileAggregate[p] ELSE gate.aggregate

FailedEndpoints(p) == {e \in Endpoints : outputs[p].availability[e] < EndpointThreshold(p, e)}

\* An unset threshold (-1) is below every level.
AggregateFailed(p) == outputs[p].aggregate < AggregateThreshold(p)

aggregateDecision(failed) ==
  IF gate.mode = "report" THEN "report" ELSE IF failed THEN gate.mode ELSE "pass"

ProfileReasons(p) ==
  {<<"endpoint_below_threshold", p, e>> : e \in FailedEndpoints(p)}
    \cup (IF AggregateFailed(p) THEN {<<"aggregate_below_threshold", p>>} ELSE {})
    \cup (IF outputs[p].assertions THEN {} ELSE {<<"assertion_failed", p>>})

ProfileDecision(p) ==
  aggregateDecision(FailedEndpoints(p) # {} \/ AggregateFailed(p) \/ ~outputs[p].assertions)

\* One turn of EvaluateProfiles' loop.  In report mode no profile passes.
evaluateProfile ==
  /\ pc = "profiles"
  /\ LET passes == ProfileDecision(next) = "pass" IN
       eval' = [eval EXCEPT
         !.passing         = IF passes THEN @ + 1 ELSE @,
         !.failing         = IF passes THEN @ ELSE @ + 1,
         !.failedProfiles  = IF passes THEN @ ELSE @ \cup {next},
         !.failedEndpoints = @ \cup FailedEndpoints(next),
         !.reasons         = @ \cup ProfileReasons(next)]
  /\ IF next = NProfiles THEN pc' = "combine" /\ next' = 1 ELSE pc' = pc /\ next' = next + 1
  /\ UNCHANGED <<command, override, gate, inputs, report, exit>>

AggregateSum(results) == FoldFunction(LAMBDA o, sum : o.aggregate + sum, 0, results)

\* The mean weighted aggregate of the profiles against its own threshold.
CrossProfileFailed == gate.cross # Unset /\ AggregateSum(outputs) < gate.cross * NProfiles

GatePass == <<"gate_pass">>

\* Profiles that count as passing: none when the cross-profile aggregate fails.
PassingProfiles == IF CrossProfileFailed THEN 0 ELSE eval.passing

ProfilesFailed ==
  IF gate.rule = "any_profile" THEN PassingProfiles = 0
  ELSE eval.failing > 0 \/ CrossProfileFailed

\* The rest of EvaluateProfiles.
combineProfiles ==
  /\ pc = "combine"
  /\ LET decision == aggregateDecision(ProfilesFailed)
         reasons  == eval.reasons \cup
                       (IF CrossProfileFailed THEN {<<"aggregate_below_threshold">>} ELSE {})
     IN eval' = [eval EXCEPT !.decision = decision,
                             !.reasons  = IF reasons = {} THEN {GatePass} ELSE reasons]
  /\ pc' = IF gate.boundaryRules = << >> THEN "end" ELSE "rules"
  /\ UNCHANGED <<command, override, gate, inputs, next, report, exit>>

-----------------------------------------------------------------------------
(* Boundary rules: the rest of EvaluateAnalysis.                           *)

BoundaryReference ==
  IF command = "run" THEN ReferenceFromBaseline(sweep, baseline) ELSE ReferenceFromReport(report.diff)

evaluateRule ==
  /\ pc = "rules"
  /\ LET result == evaluateBoundaryRule(gate.boundaryRules[next], sweep, BoundaryReference, gate)
     IN eval' = [eval EXCEPT
          !.statuses = @ \cup {result.status},
          !.reasons  = IF result.status = "pass" THEN @ ELSE @ \cup {<<result.id, next>>}]
  /\ IF next = Len(gate.boundaryRules) THEN pc' = "merge" /\ UNCHANGED next
     ELSE pc' = pc /\ next' = next + 1
  /\ UNCHANGED <<command, override, gate, inputs, report, exit>>

mergeBoundaryDecision(decision, statuses) ==
  IF gate.mode = "report" THEN "report"
  ELSE IF "fail" \in statuses THEN "fail"
  ELSE IF "warn" \in statuses /\ decision = "pass" THEN "warn" ELSE decision

\* Mutant: the reason of a profile-level pass stays.
KeepPassReasons(reasons, statuses) == reasons

removePassReasons(reasons, statuses) ==
  IF statuses \subseteq {"pass"} THEN reasons ELSE reasons \ {GatePass}

mergeBoundaries ==
  /\ pc = "merge"
  /\ eval' = [eval EXCEPT !.decision = mergeBoundaryDecision(@, eval.statuses),
                          !.reasons  = removePassReasons(@, eval.statuses)]
  /\ pc' = "end"
  /\ UNCHANGED <<command, override, gate, inputs, next, report, exit>>

-----------------------------------------------------------------------------
(* The commands.                                                           *)

decisionExitCode(decision) ==
  CASE decision = "fail" -> 2
    [] decision \in {"pass", "warn", "report"} -> 0
    [] OTHER -> 1

\* The command ends; `run' has written its report, with the boundary diff.
finish ==
  /\ pc = "end"
  /\ pc' = "done"
  /\ exit' = decisionExitCode(eval.decision)
  /\ report' = IF command = "run"
               THEN [decision |-> eval.decision, diff |-> BoundaryDiff(sweep, baseline)]
               ELSE report
  /\ UNCHANGED <<command, override, gate, inputs, next, eval>>

\* Mutant: an empty or unsupported --mode replaces the mode as well.
AnyMode(m) == [gate EXCEPT !.mode = m]

\* --mode replaces the mode of the file, whose default_action was filled in
\* from the file's own mode before; an unsupported word is an error.
Overridden(m) == [gate EXCEPT !.mode = IF m \in Modes THEN m ELSE @]

\* `sheaft gate --analysis' with the analysis file of the run.
runGate(m) ==
  /\ pc = "done" /\ command = "run" /\ exit # 1
  /\ command' = "gate" /\ override' = m
  /\ gate' = Overridden(m)
  /\ eval' = EmptyEvaluation /\ next' = 1
  /\ IF m \in Modes \cup {""} THEN pc' = "profiles" /\ exit' = Unset ELSE pc' = pc /\ exit' = 1
  /\ UNCHANGED <<inputs, report>>

\* `sheaft gate --policy' with the thresholds of the run: Evaluate looks at the
\* report's endpoint results, which are those of the first profile.
PolicyThreshold(e) == IF gate.endpoint[e] # Unset THEN gate.endpoint[e] ELSE gate.global

PolicyFailed == {e \in Endpoints : outputs[1].availability[e] < PolicyThreshold(e)}

runGatePolicy(m) ==
  /\ pc = "done" /\ command = "run" /\ exit # 1
  /\ command' = "policy" /\ override' = m
  /\ gate' = Overridden(m)
  /\ IF m \in Modes \cup {""}
     THEN LET decision == IF gate'.mode = "report" THEN "report"
                          ELSE IF PolicyFailed # {} THEN gate'.mode ELSE "pass"
          IN /\ eval' = [EmptyEvaluation EXCEPT
                  !.decision = decision,
                  !.failedEndpoints = PolicyFailed,
                  !.reasons = IF PolicyFailed = {} THEN {GatePass}
                              ELSE {<<"endpoint_below_threshold", 1, e>> : e \in PolicyFailed}]
             /\ exit' = decisionExitCode(decision)
     ELSE eval' = EmptyEvaluation /\ exit' = 1
  /\ UNCHANGED <<inputs, pc, next, report>>

Next ==
  \/ evaluateProfile \/ combineProfiles \/ evaluateRule \/ mergeBoundaries \/ finish
  \/ \E m \in Overrides : runGate(m) \/ runGatePolicy(m)

Spec == Init /\ [][Next]_vars

-----------------------------------------------------------------------------
(* Properties.                                                             *)

Decisions == {"pass", "warn", "fail", "report", "none"}

TypeOK ==
  /\ command \in {"run", "gate", "policy"} /\ override \in Overrides \cup {""}
  /\ [gate |-> gate, outputs |-> outputs, sweep |-> sweep, baseline |-> baseline] \in Case
  /\ pc \in {"profiles", "combine", "rules", "merge", "end", "done"}
  /\ next \in Nat /\ exit \in {Unset, 0, 1, 2}
  /\ pc = "profiles" => next \in Profiles
  /\ pc = "rules" => next \in 1 .. Len(gate.boundaryRules)
  /\ eval.passing \in 0 .. NProfiles /\ eval.failing \in 0 .. NProfiles
  /\ eval.failedProfiles \subseteq Profiles /\ eval.failedEndpoints \subseteq Endpoints
  /\ eval.statuses \subseteq {"pass", "warn", "fail"} /\ eval.decision \in Decisions
  /\ report.decision \in Decisions

Evaluated == pc = "done" /\ exit # 1 /\ command # "policy"

\* What the configuration asks of one profile.
ProfileMeets(p) ==
  /\ \A e \in Endpoints :
       outputs[p].availability[e] >=
         CHOOSE t \in Levels :
           \/ t = gate.profileEndpoint[p][e]
           \/ gate.profileEndpoint[p][e] = Unset /\ t = gate.endpoint[e]
           \/ gate.profileEndpoint[p][e] = Unset /\ gate.endpoint[e] = Unset /\ t = gate.global
  /\ outputs[p].aggregate >= AggregateThreshold(p)
  /\ outputs[p].assertions

ProfilesMeet ==
  /\ ~CrossProfileFailed
  /\ IF gate.rule = "any_profile" THEN \E p \in Profiles : ProfileMeets(p)
     ELSE \A p \in Profiles : ProfileMeets(p)

\* The loops' counters and the rules' statuses add up to the decision the
\* configuration asks for: report mode never denies; a failing rule denies even
\* when any_profile is satisfied; a warning is never turned into a pass.
DecisionSound ==
  Evaluated =>
    eval.decision =
      IF gate.mode = "report" THEN "report"
      ELSE IF "fail" \in eval.statuses \/ (gate.mode = "fail" /\ ~ProfilesMeet) THEN "fail"
      ELSE IF "warn" \in eval.statuses \/ ~ProfilesMeet THEN "warn" ELSE "pass"

\* What rule r asks of the evidence: an unbroken certified prefix through its
\* minimum, and a comparable baseline whose tolerance is not lost.
EvidenceMeets(r) ==
  /\ Monotone(sweep.curve)
  /\ r.minimum # Unset =>
       /\ \E i \in Points : Value(i) >= r.minimum /\ Lower[sweep.curve[i]] >= sweep.slo
       /\ \A i \in Points : Value(i) <= r.minimum => Lower[sweep.curve[i]] >= sweep.slo
  /\ r.maxRegression # Unset =>
       /\ baseline.present /\ baseline.fingerprint = sweep.fingerprint
       /\ \A i \in Points : (Value(i) <= Value(Certified(baseline)) - r.maxRegression)
                             => Lower[sweep.curve[i]] >= sweep.slo

Strict(r) == r.action = "fail" \/ (r.action = "" /\ gate.defaultAction = "fail")

\* docs/ci-gate.md: "With mode: fail and default_action: fail, CI fails closed":
\* exit code 0 means that the sweep certifies what every strict rule asks.
FailClosed ==
  (Evaluated /\ exit = 0 /\ gate.mode = "fail") =>
    \A i \in 1 .. Len(gate.boundaryRules) :
      Strict(gate.boundaryRules[i]) => EvidenceMeets(gate.boundaryRules[i])

\* Where a config asks of all profiles what the policy asks, and the profiles agree.
FromPolicy ==
  /\ gate.cross = Unset /\ gate.boundaryRules = << >> /\ gate.aggregate = Unset
  /\ \A p \in Profiles : /\ gate.profileAggregate[p] = Unset
                         /\ \A e \in Endpoints : gate.profileEndpoint[p][e] = Unset
                         /\ outputs[p] = outputs[1]
  /\ outputs[1].assertions

\* A later `gate' decides as the run did.  With the analysis it rebuilds the
\* baseline references from the boundary diffs of the report and not from the
\* baseline; with the policy it looks at the first profile only (Evaluate).
ReplayAgrees ==
  pc = "done" /\ exit # 1 /\ override = "" /\ (command = "gate" \/ (command = "policy" /\ FromPolicy))
    => eval.decision = report.decision

\* --why explains: a decision is never left without a reason, "gate_pass" stands
\* alone and never beside a warning or a denial, an endpoint is listed as failed
\* when and only when a reason that survived the merges names it, and, where
\* profiles can pass at all, the failed profiles are those that miss what is
\* asked of them.
WhyConsistent ==
  (pc = "done" /\ exit # 1) =>
    /\ eval.reasons # {}
    /\ GatePass \in eval.reasons => eval.reasons = {GatePass} /\ eval.decision \in {"pass", "report"}
    /\ \A e \in Endpoints :
         e \in eval.failedEndpoints
           <=> \E p \in Profiles : <<"endpoint_below_threshold", p, e>> \in eval.reasons
    /\ command # "policy" /\ gate.mode # "report" =>
         eval.failedProfiles = {p \in Profiles : ~ProfileMeets(p)}
=============================================================================
