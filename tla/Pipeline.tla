------------------------------ MODULE Pipeline ------------------------------
(***************************************************************************)
(* Commands of a pipeline that share an output directory: `sheaft run',    *)
(* `simulate' and `serve' of internal/app from their flags to their exit   *)
(* code, with the configuration, artifact, baseline and output files they  *)
(* read and write.                                                         *)
(*                                                                         *)
(* A command is killed at any step, and a write fails before or after it   *)
(* has truncated the file.  The commands run one after the other.  What    *)
(* the simulation finds is left open: a gate reaches any decision that its *)
(* mode and its boundary rules allow.                                      *)
(***************************************************************************)
EXTENDS Analyzer

CONSTANTS
  Plans,      \* sequences of commands
  Stored      \* what is in the files that no command writes, by path

\* The analyses in the files that a command is given.
AnalysesOf(j) ==
  {file.analysis : file \in {j.analysis, j.policy, j.serve} \ {Nil}}
    \cup (IF j.serve = Nil \/ j.serve.analysisFile = Nil THEN {} ELSE {j.serve.analysisFile.analysis})

ASSUME PlanAssumption ==
  \A p \in Plans :
    /\ p # << >> /\ p \in Seq(Range(p))
    /\ \A j \in Range(p) : /\ \A a \in AnalysesOf(j) : IsAnalysis(a)
                           /\ j.serve # Nil => IsServe(j.serve)

VARIABLES
  plan,        \* the commands still to end, the running one first
  run,         \* the number of the running command
  stage,       \* what it does next
  config,      \* its configuration, or Nil
  loaded,      \* its artifact, or Nil
  refs,        \* the baselines it has still to load
  references,  \* the sweeps of those it has loaded, by baseline name
  decision,    \* of its gate
  exit,        \* the code it ended with, 0 while it runs
  disk         \* the content of the output files

locals == <<config, loaded, refs, references, decision>>
vars == <<plan, run, stage, locals, exit, disk>>

job == Head(plan)

Outputs == {"model.json", "report.json", "summary.md", "simulation.json"}
Absent  == [kind |-> "absent", run |-> 0]
Torn    == [kind |-> "torn", run |-> run]

NoConfig == EmptyAnalysis
Cleared == /\ config' = NoConfig /\ loaded' = Nil /\ refs' = << >>
           /\ references' = << >> /\ decision' = ""

Init ==
  /\ plan \in Plans /\ run = 1 /\ stage = "start" /\ exit = 0
  /\ config = NoConfig /\ loaded = Nil /\ refs = << >> /\ references = << >> /\ decision = ""
  /\ disk = [f \in Outputs |-> Absent]

\* The command ends with a code.
Exits(code) == /\ stage' = "done" /\ exit' = code /\ UNCHANGED <<plan, run, disk>>

Continues(next) == stage' = next /\ UNCHANGED <<plan, run, exit, disk>>

-----------------------------------------------------------------------------
(* Configuration.                                                          *)

\* The file of --analysis or of --policy; Nil for both, for none, or for an
\* invalid one.
FileConfig(j) ==
  IF j.policy = Nil <=> j.analysis = Nil THEN Nil
  ELSE IF j.analysis # Nil THEN LoadAnalysis(j.analysis)
  ELSE IF LoadPolicy(j.policy) = Nil THEN Nil ELSE ToAnalysisConfig(LoadPolicy(j.policy))

ContractPolicyLoads(j) == j.contractPolicy = Nil \/ LoadContractPolicy(j.contractPolicy) # Nil

WithContractPolicy(c, policy) == 
  IF policy = Nil THEN c ELSE [c EXCEPT !.policy = LoadContractPolicy(policy)]

WithSeed(c, seed) ==
  IF seed = Nil THEN c ELSE [c EXCEPT !.seed = seed, !.sources.seed = "override"]

\* Nil for an error.
loadExecutionConfig(j) ==
  IF FileConfig(j) = Nil \/ ~ContractPolicyLoads(j) THEN Nil
  ELSE Normalized([WithSeed(WithContractPolicy(FileConfig(j), j.contractPolicy), j.seed)
                     EXCEPT !.journeys = Or(j.journeys, Nil, @)])

Batch == job.command \in {"run", "simulate"}

\* `run' creates its directory before it looks at anything.
Start ==
  /\ stage = "start" /\ Batch
  /\ UNCHANGED locals
  /\ Continues("config") \/ (job.command = "run" /\ Exits(1))

Configure ==
  /\ stage = "config"
  /\ LET c == loadExecutionConfig(job) IN
       IF c = Nil THEN Exits(1) /\ UNCHANGED locals
       ELSE config' = c /\ Continues("load") /\ UNCHANGED <<loaded, refs, references, decision>>

-----------------------------------------------------------------------------
(* Analysis.                                                               *)

LoadArtifact ==
  /\ stage = "load"
  /\ loaded' = Load(job.artifact)
  /\ UNCHANGED <<config, refs, references, decision>>
  /\ IF loaded' = Nil THEN Exits(1) ELSE Continues("analyze")

\* AnalyzeLoaded as far as its simulation; the sources are written into the
\* map that the configuration shares with every analysis of the process.
Analyze ==
  /\ stage = "analyze"
  /\ UNCHANGED <<loaded, references, decision>>
  /\ IF Analyzes(loaded, config)
     THEN /\ config' = [config EXCEPT !.sources = WithEvidence(config, loaded.model)]
          /\ refs' = config.baselines
          /\ Continues("baselines")
     ELSE Exits(1) /\ UNCHANGED <<config, refs>>

Content(path) == IF path \in Outputs THEN disk[path] ELSE Stored[path]

\* A report is taken as it is; an artifact is analysed with the same
\* configuration, but for its rules.  Nil for an error.
BaselineSweeps(content) ==
  IF content.kind = "report" THEN content.sweeps
  ELSE IF /\ content.kind = "artifact" /\ Load(content.file) # Nil
          /\ Analyzes(Load(content.file), BaselineConfig(config))
  THEN SweepOutputs(Load(content.file).model, config)
  ELSE Nil

SourcesAfter(content) ==
  IF content.kind = "artifact" THEN WithEvidence(config, Load(content.file).model) ELSE config.sources

\* One turn of loadBaselines; of two baselines with one name the last remains.
LoadBaseline ==
  /\ stage = "baselines" /\ refs # << >>
  /\ LET content == Content(Head(refs).path) IN
       IF BaselineSweeps(content) = Nil THEN Exits(1) /\ UNCHANGED locals
       ELSE /\ references' = Over([n \in {Head(refs).name} |-> BaselineSweeps(content)], references)
            /\ config' = [config EXCEPT !.sources = SourcesAfter(content)]
            /\ refs' = Tail(refs)
            /\ Continues("baselines") /\ UNCHANGED <<loaded, decision>>

-----------------------------------------------------------------------------
(* The gate (module Gate has its rules in full).                           *)

Sweeps == SweepOutputs(loaded.model, config)

\* Mutant: any sweep of that name will do.
ComparableByName(rule) ==
  rule.baseline \in DOMAIN references /\ rule.sweep \in DOMAIN references[rule.baseline]

\* buildBoundaryReferences: the baseline has a sweep of the same definition.
Comparable(rule) ==
  /\ rule.baseline \in DOMAIN references /\ rule.sweep \in DOMAIN references[rule.baseline]
  /\ references[rule.baseline][rule.sweep] = Sweeps[rule.sweep]

Severity(mode) == IF mode = "fail" THEN "fail" ELSE "warn"
IndeterminateAction(rule) == Or(rule.indeterminate, "", config.gate.defaultAction)

\* A rule about a regression cannot pass without a baseline to compare with.
RuleStatuses(rule) ==
  LET lacks == {Severity(IndeterminateAction(rule))}
      fails == {Severity(config.gate.mode)}
  IN IF rule.regression = Nil \/ Comparable(rule) THEN {"pass"} \cup lacks \cup fails
     ELSE IF rule.minimum = Nil THEN lacks ELSE lacks \cup fails

mergeBoundaryDecision(profiles, statuses) ==
  IF config.gate.mode = "report" THEN "report"
  ELSE IF "fail" \in statuses THEN "fail"
  ELSE IF "warn" \in statuses /\ profiles = "pass" THEN "warn" ELSE profiles

EvaluateGate ==
  /\ stage = "baselines" /\ refs = << >>
  /\ \E profiles \in {"pass", config.gate.mode},
        statuses \in [DOMAIN config.gate.boundaryRules -> {"pass", "warn", "fail"}] :
       /\ \A i \in DOMAIN statuses : statuses[i] \in RuleStatuses(config.gate.boundaryRules[i])
       /\ decision' = mergeBoundaryDecision(profiles, Range(statuses))
  /\ UNCHANGED <<config, loaded, refs, references>>
  /\ Continues(IF job.command = "run" THEN "model" ELSE "mkdir")

-----------------------------------------------------------------------------
(* Outputs.                                                                *)

\* WriteToFile writes the model alone: of a snapshot's envelope nothing is left,
\* neither its schema nor the weights of its discovery section.
Model   == [kind |-> "artifact", run |-> run, file |-> ModelFile(loaded.model)]
Report  == [kind |-> "report", run |-> run, decision |-> decision, sweeps |-> Sweeps,
            sources |-> config.sources]
Summary == [kind |-> "summary", run |-> run, decision |-> decision]

decisionExitCode(d) == CASE d = "fail" -> 2 [] d \in {"pass", "warn", "report"} -> 0 [] OTHER -> 1

\* Mutant: the error of a write is dropped.
WritesRegardless(file, content, next) ==
  /\ UNCHANGED <<plan, run, locals>>
  /\ disk' \in {disk, [disk EXCEPT ![file] = content], [disk EXCEPT ![file] = Torn]}
  /\ stage' = next /\ exit' = IF next = "done" THEN decisionExitCode(decision) ELSE exit

\* os.WriteFile: all of it, nothing at all, or a truncated file.
Writes(file, content, next) ==
  /\ UNCHANGED <<plan, run, locals>>
  /\ \/ disk' = [disk EXCEPT ![file] = content] /\ stage' = next
        /\ exit' = IF next = "done" THEN decisionExitCode(decision) ELSE exit
     \/ disk' \in {disk, [disk EXCEPT ![file] = Torn]} /\ stage' = "done" /\ exit' = 1

\* model.WriteToFile validates the model once more.
WriteModel ==
  /\ stage = "model"
  /\ IF ValidModel(loaded.model) THEN Writes("model.json", Model, "report")
     ELSE Exits(1) /\ UNCHANGED locals

\* Mutant: the summary is written before its report.
WriteSummaryFirst == stage = "report" /\ Writes("summary.md", Summary, "summary")

WriteReport == stage = "report" /\ Writes("report.json", Report, "summary")
WriteSummary == stage = "summary" /\ Writes("summary.md", Summary, "done")

\* `simulate' creates the directory of its output only now.
MakeDirectory ==
  /\ stage = "mkdir" /\ UNCHANGED locals
  /\ Continues("simulation") \/ Exits(1)

WriteSimulation == stage = "simulation" /\ Writes("simulation.json", Report, "done")

-----------------------------------------------------------------------------
(* serve.                                                                  *)

\* The settings that the flags of `serve' stand for.
FlagSettings(j) ==
  NormalizedServe([version |-> 10, artifactPath |-> j.flags.artifactPath, artifactMode |-> j.flags.artifactMode,
                   poll |-> j.flags.poll, maxItems |-> 10, analysisFile |-> Nil, analysis |-> EmptyAnalysis])

InlineConfig(s) ==
  LET raw == s.analysis IN
    IF Validate(Normalized(raw)) THEN Attributed(raw) ELSE Nil

\* The configuration of a server, or Nil.
ServeConfig(j) ==
  LET s == LoadServeConfig(j.serve)
      c == IF s.analysisFile # Nil THEN LoadAnalysis(s.analysisFile) ELSE InlineConfig(s)
  IN IF j.serve = Nil
     THEN IF loadExecutionConfig(j) # Nil /\ ValidateServe(FlagSettings(j)) THEN loadExecutionConfig(j) ELSE Nil
     ELSE IF s = Nil \/ ~ContractPolicyLoads(j) THEN Nil
     ELSE IF c = Nil THEN Nil ELSE WithContractPolicy(c, j.contractPolicy)

\* runServe up to service.New; what follows is module SheaftService.
Serve ==
  /\ stage = "start" /\ job.command = "serve"
  /\ LET c == ServeConfig(job) IN
       IF c = Nil \/ ~Accepted(c) THEN Exits(1) /\ UNCHANGED locals
       ELSE /\ config' = Normalized(c) /\ Continues("serving")
            /\ UNCHANGED <<loaded, refs, references, decision>>

\* The server is interrupted.
StopServing == stage = "serving" /\ Exits(0) /\ UNCHANGED locals

-----------------------------------------------------------------------------
(* The process.                                                            *)

\* A killed command leaves what it has written; its code is the signal's.
Killed ==
  /\ stage \notin {"done", "end"}
  /\ stage' = "done" /\ exit' = 137
  /\ \/ UNCHANGED disk
     \/ \E file \in Outputs :
          /\ file = CASE stage = "model" -> "model.json" [] stage = "report" -> "report.json"
                      [] stage = "summary" -> "summary.md" [] stage = "simulation" -> "simulation.json"
                      [] OTHER -> ""
          /\ disk' = [disk EXCEPT ![file] = Torn]
  /\ UNCHANGED <<plan, run, locals>>

NextCommand ==
  /\ stage = "done"
  /\ plan' = Tail(plan) /\ run' = run + 1
  /\ stage' = IF plan' = << >> THEN "end" ELSE "start"
  /\ exit' = 0 /\ Cleared /\ UNCHANGED disk

Next ==
  \/ Start \/ Configure \/ LoadArtifact \/ Analyze \/ LoadBaseline \/ EvaluateGate
  \/ WriteModel \/ WriteReport \/ WriteSummary \/ MakeDirectory \/ WriteSimulation
  \/ Serve \/ StopServing \/ Killed \/ NextCommand

Spec == Init /\ [][Next]_vars

-----------------------------------------------------------------------------
(* Properties.                                                             *)

RunOutputs == {"model.json", "report.json", "summary.md"}

\* Whoever looks at the exit code of `run' may use its outputs: with code 0 or
\* 2 all of them are complete, come from this very run, and the report and the
\* summary carry the decision that the code stands for (app.go:286-316).
ExitTellsOutputs ==
  stage = "done" /\ job.command = "run" /\ exit \in {0, 2} =>
    /\ \A f \in RunOutputs : disk[f].kind # "torn" /\ disk[f].run = run
    /\ \A f \in {"report.json", "summary.md"} :
         disk[f].decision = decision /\ (exit = 2 <=> disk[f].decision = "fail")

\* Whatever fails or is killed, in however many runs: a report never stands
\* beside the model of an earlier run, nor a summary beside an earlier report.
OutputsInOrder ==
  disk["summary.md"].run <= disk["report.json"].run /\ disk["report.json"].run <= disk["model.json"].run

\* A strict gate with a bound on regressions passes only against a baseline
\* that has the sweep of the same definition: not against one that is torn,
\* missing, of another configuration, or of another seed.
PassMeansCompared ==
  stage = "done" /\ Batch /\ exit = 0 /\ decision # "" /\ config.gate.mode = "fail" =>
    \A r \in Range(config.gate.boundaryRules) :
      r.regression # Nil /\ IndeterminateAction(r) = "fail" =>
        /\ r.baseline \in DOMAIN references /\ r.sweep \in DOMAIN references[r.baseline]
        /\ references[r.baseline][r.sweep] = Sweeps[r.sweep]

\* A baseline artifact is always comparable: whatever evidence and weights it
\* has, analysing it again answers the same question (analyzer.go:182-195).
RerunComparable ==
  \A i \in 1 .. Len(config.baselines) - Len(refs) :
    LET b == config.baselines[i] IN
      /\ stage \in {"baselines", "model", "report", "summary", "mkdir", "simulation"}
      /\ Content(b.path).kind = "artifact"
      /\ \A k \in DOMAIN config.baselines : config.baselines[k].name = b.name => k = i
      => references[b.name] = Sweeps

\* A configuration that loading has accepted is never refused later, neither
\* as a whole nor with what is taken out of it for a baseline, and is not
\* changed by being normalised again (analyzer.go:39, service.go:114).
NeverRejectedLate ==
  /\ stage \in {"load", "analyze", "baselines", "serving"} =>
       Accepted(config) /\ Normalized(config) = config /\ Accepted(BaselineConfig(config))
  /\ stage = "start" /\ job.command = "serve" /\ ServeConfig(job) # Nil => Accepted(ServeConfig(job))
  /\ stage = "model" => ValidModel(loaded.model)

Entry(f, x) == IF x \in DOMAIN f THEN f[x] ELSE Nil
NonZero(x)  == IF x = 0 THEN Nil ELSE x
AboveZero(x) == IF x <= 0 THEN Nil ELSE x
FirstOf(choices) == choices[CHOOSE i \in DOMAIN choices :
                              choices[i] # Nil /\ \A k \in 1 .. i - 1 : choices[k] = Nil]

\* What the artifact says of a component: something of each item that has
\* the ID and evidence, Nil if there is none.
EvidenceOf(items, id) ==
  LET live == {x.live : x \in {y \in items : y.id = id /\ y.live # Nil}} IN IF live = {} THEN {Nil} ELSE live

\* What the user has written: a policy is an analysis of one plain profile.
AskedBy(j) ==
  LET file   == Or(j.analysis, Nil, j.policy)
      policy == j.analysis = Nil \/ (file.analysis.profiles = << >> /\ file.analysis.version = 0)
      a      == IF policy THEN [EmptyAnalysis EXCEPT !.trials = file.analysis.trials, !.failure = file.analysis.failure]
                ELSE file.analysis
  IN [a EXCEPT !.profiles = Or(@, << >>, <<Unconfigured("default")>>)]

Asked == AskedBy(job)

Analyzed == stage \in {"baselines", "model", "report", "summary", "mkdir", "simulation"}

\* The parameters that are simulated are those the user asked for, layer by
\* layer: an entry for the component before a general probability, the profile
\* before the analysis, both before the evidence of the artifact, and
\* that before the failure probability; likewise for the weights.  A number of
\* trials that is not positive asks for nothing; of components that share an
\* ID, which no validation forbids, any may speak for it.
EffectiveParameters ==
  Analyzed => \A i \in DOMAIN Asked.profiles :
    LET m   == loaded.model
        own == Asked.profiles[i]
        p   == SimulationProfile(m, config.profiles[i])
        weights == mergeWeights(DefaultWeights(loaded, config), p.weights, m)
        failure == FirstOf(<<NonZero(own.failure), NonZero(Asked.failure), 5>>)
    IN /\ p.trials = FirstOf(<<AboveZero(own.trials), AboveZero(Asked.trials), DefaultTrials>>)
       /\ p.fixedK = FirstOf(<<NonZero(own.fixedK), Asked.fixedK>>)
       /\ \A s \in ServiceIds(m) : \E live \in EvidenceOf(m.services, s) : serviceLiveProbability(p, s) =
            FirstOf(<<Entry(own.reliability.services, s), Entry(Asked.reliability.services, s),
                      own.reliability.node, Asked.reliability.node, live, 100 - failure>>)
       /\ \A e \in EdgeIds(m) \ {""} : \E live \in EvidenceOf(m.edges, e) : edgeLiveProbability(p, e) =
            FirstOf(<<Entry(own.reliability.edges, e), Entry(Asked.reliability.edges, e),
                      own.reliability.edge, Asked.reliability.edge, live, 100>>)
       /\ \A e \in EndpointIds(m) : Or(Entry(weights, e), Nil, 0) =
            FirstOf(<<Entry(own.weights, e), Entry(Asked.weights, e), Entry(Overlay(config).weights, e),
                      Entry(loaded.weights, e), 0>>)

\* A report that calls a parameter a default is right: neither the profile nor
\* the analysis nor, where it counts, an overlay or the artifact sets it.
DefaultMeansUnset ==
  Analyzed => \A i \in DOMAIN Asked.profiles :
    LET m == loaded.model
        own == Asked.profiles[i]
        source == config.sources.profiles[own.name]
    IN /\ source.reliability = "default" =>
            ~reliabilityConfigured(SimulationProfile(m, config.profiles[i]).reliability)
       /\ source.fixedK = "default" => own.fixedK = 0 /\ Asked.fixedK = 0
       /\ source.failure = "default" => own.failure = 0 /\ Asked.failure = 0
       /\ parameterStatusForWeights(source.weights, WeightsSource(loaded, config)) = "default" =>
            DOMAIN mergeWeights(DefaultWeights(loaded, config), config.profiles[i].weights, m) = {}

\* docs/configuration.md:153: a report carries "resolved simulation inputs plus
\* source attribution (default, policy, override, external)": a probability that
\* is reported as an override was written by somebody.
OverrideMeansSet ==
  Analyzed => \A i \in DOMAIN Asked.profiles :
    LET own == Asked.profiles[i] IN
      config.sources.profiles[own.name].failure = "override" => own.failure # 0 \/ Asked.failure # 0
=============================================================================
