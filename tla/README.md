# Sheaft in TLA+

Sheaft reads a topology artifact (services, endpoints, dependencies), simulates
random failures of its services and edges, compares endpoint availabilities with
thresholds (the gate) and reports a posture, once from the command line or
continuously as a service. This directory holds TLA+ modules for the parts of
Sheaft whose behaviour depends on the order of events or on how several
computations fit together, TLC configurations that check them on small
instances, and proofs checked by TLAPS for all instances.

Paths are relative to `src/`. `PROJECT.json` names, for every definition that
stands for code, the lines it stands for.

To check: `tlc -config ServiceNotify.cfg SheaftService.tla` for a run (module
and configuration of each run are in `PROJECT.json`), and `tlapm M.tla` for the
proofs, with `M` one of `SheaftServiceProofs`, `SweepBoundaryProofs`,
`PipelineProofs`, `GateProofs`, `PathExecutionProofs`, `TrialSamplingProofs`,
`EndpointProofs` and `Induction`.

## 1. Inventory

For each part: its state, its operations, what is hard about it, and what makes
it correct.

**Service** (`internal/service/service.go`). State, under one RWMutex: `ready`,
`lastError`, `current` and `history` (at most `history.max_items`). One
goroutine recomputes: `Run` calls `recomputeIfChanged(force)` before anything
else is started and the watch loop calls it afterwards, from a `select` over the
context, a ticker and a file watcher. A recompute resolves the artifact path,
loads it, skips if the digest and path are those of the current report,
otherwise analyses, updates the gauges and publishes. HTTP handlers read a
snapshot. Hard: the artifact is rewritten by another process at any moment, also
between two steps; notifications can be dropped, and come only for the watched
path; errors and reports have to be told apart. Correct when: the report and the
history move together, diffs form a chain, no failure is silent, a good artifact
that stays in place is eventually served, and cancellation ends the loop.

**Service metrics** (`internal/service/metrics.go`). A model age and nine Prometheus
vectors, which are reset one after the other and then set label by label, outside the
service's mutex. Hard: scrapes between two of these calls. Correct when the
vectors never mix two reports.

**Analyzer** (`internal/analyzer`). Load, contract policy, parameters with
their sources, simulation, baselines, gate, diffs; used by both modes. It
recurses into itself for a baseline artifact and writes into maps of the
config it is handed. Hard: parameters come from up to five layers (profile,
analysis, overlay, artifact, built-in default) that are merged at three places, and
the sources that the report names are derived elsewhere. Correct when what is
simulated is what was asked for, when what the report says of it is true, and when a
baseline artifact answers the same question as the artifact compared with it.

**Simulation** (`internal/simulation`):

- *Sampling* (`sampleAdvancedState`): which replicas and edges are up in a
  trial. The points of a sweep start from one seed, so that more stress should
  only ever take things away. Hard: generators that are read conditionally.
- *Path execution* (`executePath`): retries nested over hops, timeouts, circuit
  breakers, and errors drawn at random, keyed by trial and path. Hard:
  exhausted attempts of one hop are one failed attempt of the hop above.
- *Endpoint success* (`buildAdvancedContext`, `runAdvancedProfile`,
  `internal/predicates`): predicates over live services, journeys to the leaves of
  the call graph, or required edges and their paths.
- *Importance* (`importance.go`): each component is forced up and down in each
  trial's world, in place and for one endpoint after the other, then put back;
  an endpoint that succeeds only when it is down is an error.
- *Sweeps* (`sweep.go`): a curve over increasing stress, an observed crossing and
  a certified tolerance computed by two loops over different data.
- *Static metrics* (`analyzePathStatic`): expected success, retry amplification
  and timeout mismatches of a path, by recursions of their own. Correct when
  they predict what executing the path does.
- *Faults* (`internal/faults`, `buildProfileFaultState`): selectors over services,
  placements, shared resources and edges, kills and degradations, the blast radius
  and assertions. Hard: damage and radius are computed from different
  things. *Journeys* (`internal/journeys`): overrides of the inferred paths.
- The legacy runner (`Run`, `RunProfiles`, `sampleAlive`), reached from tests only.

**Gate** (`internal/gate`). Four layers of thresholds, aggregates per profile and
over profiles, boundary rules with a baseline and an action for indeterminate
evidence, three modes, merged into one decision with reasons and an exit code.
Correct when `pass` means that everything asked for is met, when lack of
evidence never passes a gate that asked to fail, and when all the ways to ask
the same question agree.

**Report replay** (`internal/report`, `internal/app/app.go`). `sheaft gate`
evaluates a stored report again: its baseline references are rebuilt from the diffs
in the report.

**CLI** (`internal/app`, `cmd/sheaft`). `run`, `gate`, `simulate`, `discover`, `serve`;
modes and exit codes (0 pass, warn or report, 1 error, 2 failed gate). State: the output
files of a directory, which the next command may read as its baseline. Hard: three truncating
writes one after the other. Correct when the exit code tells which outputs are usable.

**Configuration** (`internal/config`). Strict decoding, defaults (0 means not set),
validation, sources of parameters. Hard: normalisation writes through slices it shares with its
caller, and the same configuration is validated up to four times in different shapes.
Correct when nothing accepted once is refused later, and normalising again changes nothing.

**Artifact, contract line, contract policy** (`internal/artifact`,
`internal/modelcontract`, `internal/config/contract_policy.go`). Decoding, a whitelist of
contracts, and actions on contracts that age. **Model** (`internal/model`):
validation of the normalised model.

**Others.** Exact oracle of the test suite, OpenTelemetry import, benchmark runner,
release tooling, no-op observability and provenance, deployment files. They keep
no state between steps, or no behaviour of the program is in them.

Interactions: CLI and service call the analyzer; the analyzer calls artifact,
config, simulation, gate and report in that order; the service shares its config
(and so its maps) with every analysis; `gate` shares only a report file with `run`.

`PROJECT.json` has one entry per part with its status, and the list of hazards,
at their lines, that the properties below are meant for.

## 2. Modules

| Module | Models | Built on |
|---|---|---|
| `PostureBoard` | what the service promises its readers | |
| `SheaftService` | `service.go`, `metrics.go` | implements `PostureBoard` |
| `SheaftServiceProofs` | proofs for service mode | `SheaftService` |
| `SweepEvidence` | curves, and what certifying a tolerance means | |
| `SweepBoundary` | `sweep.go`, one target | `SweepEvidence` |
| `SweepBoundaryProofs` | proofs for sweeps | `SweepBoundary` |
| `BoundaryRules` | `evaluateBoundaryRule`, baseline references, boundary diffs | `SweepEvidence` |
| `Gate` | `gate.go`; the decisions of `run` and `gate` of `app.go` | `BoundaryRules` |
| `GateProofs` | proofs for the gate | `Gate` |
| `PathExecution` | `executePath` and below | |
| `PathStatics` | `staticPathSuccess`, `pathAmplification`, `timeoutMismatchForPath` | |
| `PathDiagnostics` | `analyzePathStatic` beside an execution | `PathExecution`, `PathStatics` |
| `PathExecutionProofs` | proofs for executions and their static metrics | `PathDiagnostics` |
| `TrialSampling` | `sampleAdvancedState` | |
| `TrialSamplingProofs` | proofs for sampling | `TrialSampling` |
| `EndpointSuccess` | paths, predicates, the trial loop, `runBirnbaum` | what `PathExecution` shows |
| `FaultProfile` | `internal/faults`, `buildProfileFaultState`, `buildAdvancedProfile`, assertions | `EndpointSuccess`, `PathStatics` |
| `EndpointProofs` | proofs for endpoints, importance, faults and assertions | `FaultProfile` |
| `Induction` | least elements, and sums over finite sets, for the proofs | |
| `ArtifactContract` | `internal/artifact`, `modelcontract`, `model` validation, contract policy | |
| `AnalysisConfig` | the rest of `internal/config` | `ArtifactContract` |
| `Analyzer` | `AnalyzeLoaded`, `RunArtifactProfiles` without its random part, side files | `AnalysisConfig` |
| `Pipeline` | `run`, `simulate`, `serve` of `app.go`, `loadBaselines` | `Analyzer` |
| `PipelineProofs` | proofs about output files, baselines and configurations | `Pipeline` |
| `MC*` | instances for TLC | |

### Service mode

`pc` is the program counter of the recomputing goroutine:

| Steps | Code |
|---|---|
| `ResolveStep`, `LoadStep`, `CheckStep` | the locator, `artifact.Load`, the comparison at service.go:276-290 |
| `AnalyzeStep` | `AnalyzeLoaded`, with the order of its failures and its write into the shared source map |
| `SetModelAge`, `ResetGauges`, `SetGauges` | `updateCurrent`: the age, then one vector a step, in the order of the code; a scrape may happen between any two |
| `PublishStep`, `setError` | the two critical sections |
| `ArmWatcher`, `Tick`, `FileEvent`, `WatchError`, `LoopDone` | `watchLoop`: its setup and the cases of its `select` |
| `WriteArtifact`, `WriteSideFiles`, `Notify` | the producer and the kernel's bounded queue |
| `Cancel`, `ProcessEnds`, `Restart` | the process |

A content is `Good`, `Refused` by the contract policy, `Rejected` by simulation or
gate, `Broken` (torn or invalid) or absent; the producer may write any at any
step. Contract, journey, predicate and baseline files are one flag that turns
analysis into an error. Reports carry a generation number; `prev` is the report
their diff was computed against. `published`, `lastAttempt` and `missed` are history
variables; no guard of the code's actions reads them. A vector is the set of reports that its
series were set from. All series of a vector come from the report that is being recorded, so
setting them is one step. The model age is ahead of the vectors from the first call of `updateCurrent` to the
last reset, as `GaugesTrackReport` says; and all gauges are ahead of `/current-report` until it is published.

Left out: the store on disk, which is only written, with its errors discarded;
the end of the watcher's event channel, which only `Close` causes, after the
loop; an invalid poll interval, which validation refuses; `auto` over a
directory, which is `directory`.

### Sweeps and gate

`SweepBoundary` evaluates the points in order (`EvaluatePoint`, or `PointFails` and
the sweep is lost), then observes (`ObservePoint`), certifies (`CertifyPoint`)
and classifies (`Classify`). Axis values strictly increase (`validateSweep`), so a point is its index.
The Wilson interval is any interval on the scale of counts that contains its
estimate (`EvidenceAssumption`): floating-point rounding of the real one is not modelled.

`Gate` runs `EvaluateProfiles` and the boundary rules, then either an exit, or a
`gate` invocation on the stored report with the analysis or a policy and an
overridden mode. Points of documented behaviour that the model keeps and that surprise: `--mode`
replaces the mode after `default_action` was derived from the file's, so a rule
without an action of its own keeps the file's severity; `gate --policy` looks at the first profile only;
in `report` mode every profile is listed as failed. Writing does not
fail in this model: that is what `Pipeline` is for, where in turn the simulation is left
open and a gate reaches any decision that its mode and its boundary rules allow.

### Simulation

`PathExecution` has one action per step of the mutually recursive
`executeServiceAt` and `executeEdgeAt`, with the attempt counters of all hops as the
stack. A draw of the generator is a level, unknown until it is read and fixed afterwards;
rates are on the same scale. The same path is executed twice over one stream, in
an all-up world and in a sampled one: this is what Birnbaum analysis and the
points of a sweep do.

`TrialSampling` reads the stream of one trial for the points of one sweep.
`rng.Perm` consumes a number of draws of its own and, when it is called, is the first call of a trial;
its result is one unknown permutation, independent of the levels.

`PathStatics` abstracts probabilities to never, sometimes and always, so that a product is the
least of its factors. The amplification that is reported is an *expectation*, which an unlucky
execution exceeds (with success 0.5 and three attempts, 1.75 attempts are expected). It is modelled by
the `least` and the `most` that it can be for these classes, and is compared with an
execution only where the two are equal: every attempt is sure to succeed, sure to fail, or the only one.
`PathDiagnostics` puts these metrics beside `PathExecution`: a fault profile that kills exactly
what is down in an execution must predict that execution.

`EndpointSuccess` enumerates the paths of an endpoint as chains of the graph and takes
a path to succeed if it is viable and all its components are up. That is
what `CoupledOutcome` of `PathExecution` establishes. Predicates have two
levels; overrides of journeys are not modelled. One trial stands for a trial of
`runAdvancedProfile` (`RunTrial`, which samples what is up) and of `runBirnbaum`, which toggles in place: `world` stands for the maps
of the sampled state, `TakeComponent` remembers the value of a component, `ToggleUp` and `ToggleDown` write it
and ask one endpoint, and `RestoreComponent` writes it back after the last endpoint.

`FaultProfile` lays fault profiles over these trials. Its operators are the pieces of
`buildProfileFaultState`, `buildAdvancedProfile` and `resolveAssertionMetric`; `FaultNext`
takes the steps of `EndpointSuccess`, with what the profile kills down (`sampleAdvancedState`) and with
the paths viable that its degradations allow. Fault profiles and importance requests exclude
each other, as `validateImportance` requires. A latency is one number, not a summary of percentiles.

### Configuration, analysis and commands

`ArtifactContract`, `AnalysisConfig` and `Analyzer` are pure: each operator is a function of the
code from records to a record, or to `Nil` where the code returns an error. Zero, `""` and
`<< >>` are what an absent key decodes to, `Nil` is a null pointer, names are trimmed, and
probabilities are in hundredths, so that "zero means not set" and "null means not set" are told
apart as in the code. `WrittenThrough` is what the caller's configuration holds after `Normalized`
has written through its slices; `BuildAnalysisParameterSources` is applied to that.

`Pipeline` is the process: `plan` is a sequence of commands that share a directory, `stage` the
next step of the running one, `disk` what the files hold. `model.json` holds the bare model of the artifact
(`ModelFile`): of a snapshot, whatever its nested model declares, without the discovery section.

| Steps | Code |
|---|---|
| `Start`, `Configure` | `runPipeline` up to its directory, `executeAnalysis`, `loadExecutionConfig` |
| `LoadArtifact`, `Analyze` | `AnalyzeFile`, `AnalyzeLoaded` up to its simulation, with the write into the shared sources |
| `LoadBaseline` | one turn of `loadBaselines`: a report, or an artifact that is analysed with the same configuration without its rules |
| `EvaluateGate` | `EvaluateAnalysis` and the baseline references |
| `WriteModel`, `WriteReport`, `WriteSummary`, `MakeDirectory`, `WriteSimulation` | the outputs of `run` and `simulate`; each may fail before or after it has truncated its file |
| `Serve`, `StopServing` | `runServe` around the service |
| `Killed`, `NextCommand` | the surroundings: a kill at any step, the next command |

A sweep of a report is its fingerprint: what `buildBoundaryReferences` compares. Digests and
derived seeds are taken to be free of collisions.

## 3. Runs

| Run | Asks | Bounds |
|---|---|---|
| `ServiceNotify` | with notifications only: do report, history, diffs and gauges stay consistent, is the service a `PostureBoard`, is every announced change served? | `directory` mode, 2 paths, 2 ages, two good contents, 2 writes, history 2, 1 restart, queue of 1 |
| `ServicePolling` | with ticks that are always ready, whatever the watcher does: does a good artifact get served and a bad one reported, do retries hide no error, does a cancelled loop end? | `auto` mode over one file, 5 contents (two good, one refused, one rejected, one torn), 2 writes, 1 restart, queue of 1 |
| `SweepBoundary` | are the reported crossing and tolerance what the curve says, and do they agree? | all curves of 4 points and 4 trials, all SLOs |
| `Gate` | does the decision mean what the configuration asks, does missing evidence fail closed, does a stored report decide like the run, also with an equivalent policy? | profile cases: 2 profiles, 2 endpoints, 2 levels, all modes and both rules; boundary cases: all curves of 3 points and 3 trials, 4 baselines, another definition, no baseline; modes overridden |
| `PathExecution` | coupling, cost of nested retries, static metrics against the execution; termination | 3 services, 2 hops, 3 policies each, 2 levels |
| `TrialSampling` | are samples nested and paired over the points of a sweep, and fixed-k exact? | 3 services, 4 placements, 2 edges, 2 points |
| `EndpointSuccess` | do paths mean reachability and toggles never help by removing; does the blast radius cover the damage; do bounds of a profile hold for its parts? | 8 models of 4 services (diamond, cycle, parallel edges) without faults, 4 more under 8 fault profiles and 2 retry and timeout policies, 2 of a path that is too slow even without its faults |
| `Pipeline` | do exit codes tell which outputs are usable; what does a passing gate stand on; are the parameters and their sources those asked for? | about 300 single commands, each perturbing some layers, and all pairs of 12 commands that share files |
| `ServiceLostChange`, `ServiceSourceLeak`, `SharedPathIDs`, `SourceAttribution` | each shows one finding | as their sibling runs; the service in `file` and `auto` mode; for `SharedPathIDs` two endpoints over parallel edges |

Why the bounds are enough. Service: two good contents are needed for a change, a
third (the file is there before the first write) for good–bad–good, a history of 2 to trim, a queue of 1 to overflow;
more contents or paths only repeat the same branches, as no code compares more than two.
What matters to the loop is whether there are notifications, ticks or both: a watcher that fails leaves `ServicePolling`
with ticks only. The proofs cover all configurations.
A refused and a rejected content make an analysis fail at every tick.
Sweeps: four points give every order of meeting, straddling and violating
that the loops tell apart (first, last, repeated, returning), and the proofs
cover all sizes. Gate: profile thresholds and boundary rules are evaluated one
after the other and meet only in the merged decision, so each family of cases keeps the other simple.
Thresholds are only compared, so two levels per threshold are enough; odd axis values in rules stand for values that were not
evaluated. Paths: two hops nest one retry loop in another; a third adds a
layer of the same code. Sampling: a service with two placements, one of them
with two replicas, makes every branch of the slot arithmetic differ, and two points are what coupling relates.
Faults: a zone, two zones that together kill a service, a shared resource, eligible services only,
cut edges (one of them not in the graph), and degradations of edges and services that overlap.
Commands: a layer is set or not set, and set to values that differ from layer to layer, so that
each shows where it comes from; two commands are enough because only the last content of a file is read;
two baselines of one name, a torn, a missing and a mismatched one all occur.

`CHECK_DEADLOCK FALSE` is set where the modelled program stops: a finished
computation, or a service after its last allowed restart.

**Named bounds**: `MaxWrites`, `MaxTime`, `MaxRestarts`, `EventCap`, `ErrorCap`
(service); `Draws` (levels of a random draw); `NPoints`, `Trials` (curves).

### What the properties say

Service. `PostureConsistent`: ready, current and history agree with each
other and with the reports published. `GaugesTrackReport`: at no moment do two series come from two reports, only the model age
is ahead, until the last reset; outside an update all gauges are the current report's. `FailedRefreshVisible`: after a failed refresh
an error is visible. `ImplementsBoard`: with `posture <- current` and `log <- history`
every step is a step of `PostureBoard`, or a stutter; there, each report's diff is against the
report before it. `PollingConverges`,
`BadArtifactReported`, `CancelledLoopStops`, `NotifiedChangeServed`: liveness.

Sweeps. `ToleranceExact`: the certified tolerance is the longest prefix of certified points.
`CrossingSeparates`: an observed crossing separates meeting points from
violating ones. `VerdictsAgree`: the status and the certification do not contradict each other.

Gate. `DecisionSound`: counters, thresholds and rule statuses add up to the decision that the
configuration asks for. `FailClosed`: in fail mode, exit code 0 means that the sweep certifies
what every strict boundary rule asks, so missing evidence never passes. `ReplayAgrees`: `gate`
decides like `run` on the same report, with the same analysis or an
equivalent policy. `WhyConsistent`: reasons fit the decision, the failed endpoints are those that a reason names, and
the failed profiles those that do not meet what is asked of them (all of them in `report` mode).

Simulation. `CoupledOutcome`: a path succeeds in a sampled world exactly if it
does in an all-up world and its components are up, whatever was drawn in between.
`StaticPredictsExecution`: a path that is expected to fail fails, one that is sure to succeed
succeeds, and without errors it succeeds exactly if no timeout mismatch is counted and nothing on it is down.
`CallsBounded`: calls are bounded by the product of the attempts above.
`AmplificationBoundsCalls`: and by the expected amplification, where it leaves nothing to chance. `PointsCoupled`: more stress
never revives a service, and edges do not depend on stress, apart
from the zero point below. `ExactFailures`: exactly k fail, slots or services. `PathsMeanReachability`: without
parallel edges and errors, an `edge_aware` endpoint succeeds exactly if its targets can be reached over
live edges of its modes, and in an acyclic graph a journey endpoint exactly if a leaf can be
reached. `NeverNonMonotonic`: taking a component down never helps, so Birnbaum
analysis never gives up. `OthersStaySampled`: while a component is toggled all others are as
sampled, between components all are, and one side of each comparison is what the trial did.
`IgnoredEdgesNeverPivotal`: edges that an endpoint does not wait for or use never matter to it.
`BlastRadiusCoversDamage`: an endpoint that only the faults bring down, and that has a path in time without
them, is inside the radius.
`ProfileBoundCoversAll`: an upper bound asserted of the profile holds for all its endpoints, paths and
edges, and is not asserted while something is unknown.

Commands. `ExitTellsOutputs`: with exit code 0 or 2, `run` has written all its outputs, and they carry the
decision of the code. `OutputsInOrder`: whatever fails or is killed, no report stands beside an older model and no
summary beside an older report. `PassMeansCompared`: a strict gate on regressions passes only
against a baseline that has the sweep of the same definition. `RerunComparable`: a baseline artifact always has it.
`NeverRejectedLate`: what loading accepted is accepted by every later validation, and normalising it again
changes nothing. `EffectiveParameters`: the parameters simulated are, for every component and layer, those the user
asked for. `DefaultMeansUnset`: a source of `default` in the report is true.

Each of these is paired in `PROJECT.json` with a plausible slip in the code
(`mutants`) under which TLC finds it violated.

### Fairness

`SheaftService`: weak fairness of the recompute steps and of `ArmWatcher` (a
running goroutine that does not block). Strong fairness of `Tick`, `FileEvent`,
`WatchError` and `LoopDone`: Go's `select` chooses at random among the ready cases, so a
case that is ready again and again is taken eventually; the ticker recurs, and
a cancelled context stays ready. Fairness per case is what `select` gives and no more: if the
loop looked at its context only when nothing else is ready, `CancelledLoopStops` would fail in `ServicePolling`. Nothing is assumed of the producer, the kernel or
the process. Notifications may be lost, which is why convergence is claimed for
polling, and for notifications only up to changes that were announced.

`PathExecution`: weak fairness of `Next`, a single goroutine that never waits. The
other modules are checked for safety only.

## 4. Findings

Runs with `expect: violation`, each with the line it contradicts, in `PROJECT.json`:

- `ServiceLostChange`: with `watch_polling: false`, a change between the initial
  read and the registration of the watcher is never picked up.
- `ServiceSourceLeak`: a source recorded for one artifact stays for the following ones.
- `SharedPathIDs`: static metrics are kept per path ID, which names services only. An endpoint that waits for the event
  between two services is reported with the retries and timeouts of the call between them, or the other way round.
- `SourceAttribution`: a failure probability that nobody wrote is reported as `override`. Sources are derived after
  normalisation has written the inherited values into the profiles of the file (analysis.go:242, 547-549;
  parameter_sources.go:63-66); the same holds of trials and modes. The converse, `DefaultMeansUnset`, holds.

### Observations

What the models keep as the code has it, without a run. After a failed refresh
`/current-report` answers as before, and only `/status` and `/readyz` tell
(`FailedRefreshVisible`), where THREAT_MODEL.md:182 asks that "a failed service-mode refresh must
not leave a prior PASS looking current". Of parallel edges only the first is part of a
path (advanced.go:1496), which is why `PathsMeanReachability` excludes them.

- At zero failed slots `rng.Perm` is not called (advanced.go:566), so the edges of that point are
  another sample than those of the other points of the sweep (`PointsCoupled` excludes it).
- A path that endpoints share is counted once for each of them (advanced.go:202), so its success rate may exceed 1, and
  its timeout mismatches are summed twice for the profile.
- The amplification of a path does not depend on a hop's own timeout, and that of an endpoint passes over
  paths whose retries are unknown; that of a profile does not (`ProfileBoundCoversAll`).
- `fixed_k_replica_slots` takes a k of 0 for not set: with a failure probability the count is derived from it.
- `serve` without `--config`, which the usage text offers (app.go:499), always ends with an error: the settings made from its flags
  have no analysis (app.go:374-387) for `ServeConfig.Validate` to find (analysis.go:617). `Serve` of `Pipeline` has it so.
- A nested `edge_aware` predicate is accepted by `Validate`, and `Evaluate` counts it as failed (predicates.go:202):
  an `all_of` with such an operand never holds. `Combine` of `EndpointSuccess` has it so, where
  docs/methodology.md:78 says that operands can be nested predicates.
- `--seed 0` becomes 42 and is reported as an override.
- A rule without an action of its own keeps the severity of the file under `--mode` (app.go:177, analysis.go:211): with a `warn` file,
  `gate --mode fail` only warns of missing evidence. `FailClosed` counts only rules as strict whose action is
  to fail, so it accepts this. docs/ci-gate.md:53 promises no more.
- A file for `--analysis` with neither profiles nor a schema version is read as a policy; its gate section is ignored.
- Of two baselines of one name the last wins. A report that a failed run left truncated makes every later run that has
  it as its baseline fail, until the file is removed.
- A baseline artifact with evidence changes the source in the current report, which shares its map.
- The journeys and the fault contract of a run are validated against its baseline artifact, too.
- `model.json` of a snapshot has the nested model's weights, not those of the discovery section that were used.
- The nested model of a snapshot may name any supported contract, also that of snapshots.
- The fingerprint of a sweep does not cover reliabilities (sweep.go:236): this is what makes `RerunComparable` true, and two analyses
  of one artifact with different reliabilities comparable.

## 5. Proofs

TLAPS proves what follows for all values of the constants that satisfy the assumptions,
so for every number of services, points, profiles, hops or trials, and for every
plan that TLC's runs only sample.

### Assumptions

| Assumption | Says | Why the code justifies it |
|---|---|---|
| `ConstantsAssumption` (service) | content classes are disjoint, bounds are naturals, the history keeps a report | `ServeConfig`: its defaults (analysis.go:594) and `Validate` |
| `EvidenceAssumption` (sweeps) | there are points and trials, an interval contains its estimate | `validateSweep`, `wilsonInterval`; no monotonicity of its bounds is needed |
| `GateAssumption` | cases have the shape that decoding gives them; the run's own sweep is present | `Validate`, and `boundary_rules` need sweeps |
| `PathAssumption` | paths have a service, rates lie on the scale of draws | types of `executePath` |
| `SamplingAssumption` | placements have replicas, eligible services exist | `normalizeBuckets` |
| `SweepAssumption` | the points of a sweep ascend in the one quantity they vary | `validateSweep` refuses values that do not strictly increase |
| `PlanAssumption` (endpoints) | plans are of their types, predicates finite, an `edge_aware` endpoint has targets and modes | `Contract.Validate` of `internal/predicates` |
| `FaultAssumption` | plans are of their types, faults select something, services have a placement | `Fault.Validate` |
| `PlanAssumption` (commands) | there is a command; analyses and serve configurations have the fields of their structs, profiles and baselines are lists, trials, failure probabilities and failure counts are numbers | what decoding gives, `AnalysisConfig` and `ServeConfig`; nothing is said of any value, and nothing of artifacts |
| `NilAssumption` | `Nil`, a null pointer or an error, is no number | a pointer to a float is null or points to a number |

The theorems on output files use no assumption at all: the stored files and what loading, normalising
and analysing return are arbitrary. TLC evaluates each assumption on the instances of the runs.

### Service, sweeps, commands

- `ServiceInvariant` (`ServiceInv`): the conjunction of the type invariant,
  the four safety properties and `WorkerInv`. The four are not inductive alone:
  `WorkerInv` says what the goroutine's locals hold at each step, in particular
  that `previous` is still the current report when a new one is published (there
  is one writer) and that the result names it. The proof has a step per
  action; a lemma on trimming says what the history keeps.
- `TypeCorrect`, `PostureAlwaysConsistent`, `DiffsFormAChain`, `GaugesNeverMix`,
  `FailuresStayVisible` follow (for the gauges `WorkerInv` says which vectors are still the old report's, which are
  empty and which are filled at each position of the two loops), and `ServiceImplementsBoard` from the same invariant: publishing maps to
  posting, a restart to clearing, everything else to a stutter.
- `SweepInvariant` (`BoundaryInv`): `ObserveInv` and `CertifyInv` say what each
  loop knows of the prefix it has read. From it `ReportedToleranceExact`,
  `CertificationConservative`, `VerdictAgreesWithCurve`, `CrossingsSeparate`; `BoundariesTyped` is its type part.
- `PipelineInvariant` (`PipelineInv`). `ExitTellsOutputs` and `OutputsInOrder` are not inductive: that a summary
  may be written needs that the report beside it is complete and of this run (`WrittenInv`), that needs to know
  which command is in which stage (`StageInv`), and that a run has not written before needs that files
  carry no later number than the running command (`TypeInv`). `DecisionInv` says that a decision of a strict gate other than
  `fail` stands for comparable baselines, which nothing changes after the gate. One lemma serves all steps
  that write nothing, one a command that breaks off, one the writes of `run`, one those of
  `simulate`, one the gate, and one the next command. `ExitCodeTellsOutputs`, `OutputsStayInOrder` and `PassWasCompared` follow.

### Configurations

`NothingRejectedLate` and `RerunsCompare` are about what configurations contain.
Three lemmas on `Normalized` and `Validate` carry them:

- `NormalizedTwice`: normalising is idempotent, section by section and field by field. A profile inherits from
  the defaults of its analysis, and those do not change when the analysis is normalised once more.
- `StaysAccepted`: validation looks at the fields in `Judged`, at the policy and at the gate against the baselines. So another seed,
  journeys, sources or contract policy keep a configuration accepted; so does
  dropping the baselines, but only together with the boundary rules that name them.
- `AnalysisUsable`, `PolicyUsable`: whatever `LoadAnalysis` and `LoadPolicy` return, defaults included, is accepted.
  A policy becomes an analysis that was never validated as such, so each of its fields is checked here.

`ConfigurationInvariant` (`ConfiguredInv`) then follows a command: its configuration is normal and accepted (`ConfigInv`),
its artifact is the one of its command line (`LoadInv`), the baselines still to load are the rest of the list (`RefsInv`), only
`model.json` is ever an artifact and it is never a report (`KindInv`), and a baseline that was loaded under a name of its own
answers with the sweeps of the analysis, or else is a report (`ReferencesInv`). The last
needs `KindInv` because `run` overwrites `model.json` after the baselines have been read, and
`SweepsAlike`: a fingerprint depends neither on the model nor on the sources that an analysis writes.

### Parameters

`ParametersAreThoseAsked` and `DefaultsAreUnset` say that what is simulated, and what the report says of where it comes
from, is right for every file and every artifact, six layers deep. Neither is inductive: the state holds a configuration, but
the properties speak of the file it came from. `ParameterInvariant` (`ParameterInv`) ties them together:

- `AskedInv`: the configuration `Fulfils` what was asked. `Granted` gives every profile, field by field, its own value or that
  of the analysis; `Credited` says that a source of `default` is true of the *file*; `SourcesShaped` that
  each profile has its sources. `NormalizedGranted` establishes the first for any analysis, with or without profiles, and
  `PolicyFulfils` for a policy, whose one profile is written out by `ToAnalysisConfig`. `AttributedFulfils` is the delicate one: sources are
  derived from profiles that normalisation has already overwritten, so a profile's value is found again through its
  name, which validation has made unique. The failure probability and the failure count that are found there are the normalised
  ones, and these are zero only if the file had nothing.
- `EvidenceInv`: a profile whose reliability is still called a default uses no evidence (`Untouched`). An analysis
  establishes it for its own artifact (`EvidenceCredited`); the analyses of baselines in between write into the same sources, and
  can only turn a default into something else.

`LayersAre` then compares the three merges (profile over analysis, evidence below both, the general probability
that hides the evidence) with the first of six layers, once for services and once for edges; `WeightsAre` does so for the five layers of
weights, where the profile that normalisation makes up repeats the weights of the analysis.

### Gate

`GateInvariant` (`GateInv`) says what the loops have established after any number of profiles and
rules: `CountersInv` and `ReasonsInv` tie the counters, the failed lists and the reasons to the profiles
already visited, `StatusesInv` the rule statuses to the rules already read, `DecisionInv` the decision to both.
`ReportInv` keeps what the run has written, which is what `gate` starts from, and `ControlInv` and `PolicyInv` say
which command may be where. Each of the loop steps, each of the merges and each of the two replays is a lemma.
`DecisionIsSound`, `GateFailsClosed`, `GateReplays`, `ReasonsAgree` and `GateTyped` follow; for the failed lists in
`ReasonsAgree`, `ListsInv` compares them with the profiles and `EndpointReasons` says that a reason of an endpoint is only ever
added by the loop over endpoints; `StrictRule` and
`CertifiedExists` carry the one argument that is not bookkeeping: a strict rule that passes has
certified evidence for each of its clauses.

### Path execution

`PathInvariant` (`PathInv`) has four parts beyond the types.

- `CrossedInv` and `SureInv`: an execution that has come to a hop has crossed live components only, and one whose
  components below a hop are sure cannot fail there. With `OutcomesInv` this gives `StaticsPredict`,
  by way of `StaticSuccess` and `StaticTimeouts`, which say what the recursions of `analyzePathStatic` compute.
- `CallsInv`: the calls of a service are at most what the attempts of the hops above it have left open.
  `CallsAreBounded` and `AmplificationBounds` follow from it by unfolding the products; the second is stated
  for the nodes where the expectation is exact.
- `CoupledInv`: the second execution follows the first one over the same stream. `Follow` is the
  step function of the code given a stream; `Leads` says that one configuration leads to another under it, as membership in every
  set closed under the step, since a recursive count of steps is out of the provers' reach. In an
  all-up world the first execution leads to success exactly where the second one does, if the
  components of the path are up: `OutcomesCoupled`.

### Sampling

`SamplingInvariant` (`SamplingInv`) says that what a point has sampled is a function of one stream
of draws, one permutation and the point's stress (`AliveOf`, `EdgesOf`), whatever was read in which order. That function is
monotone in the stress (`AliveShrinks`), and edges are read from the same positions
(`EdgesAgree`): `SweepsAreCoupled`. `FailuresAreExact` counts: a permutation that is injective has as many
images as it has arguments (`FailedAreK`), and failed slots partition over the placements (`SlotBuckets`, `SlotsOfBucket`).

### Endpoints, importance, faults

`EndpointInvariant` (`EndpointInv`) says that an endpoint's paths are those of the model, its success is
what the sampled state gives, and that the maps of that state differ from the sample in the toggled component at
most, whose sampled value is remembered in `original`.

- `RepairsFailNothing`: success is monotone in the components that are up, for nested predicates and
  all combinations of paths (`SucceedingGrows`). `SampleIsKept` and `IgnoredEdgesStayOut` follow from the same invariant.
- `PathsDecideReachability`: reachability over live edges is unfolded to chains (`ReachedByChain`), a shortest
  live chain is simple and so is one of the enumerated paths (`TargetReached`), and in an acyclic graph a
  live journey that cannot be extended ends at a leaf of the graph (`JourneysMeanReachability`).
- `ViabilityInvariant` (`ViableInv`) ties the paths that succeed to what the static metrics expect of them.
  `BlastRadiusIsComplete`: an endpoint outside the radius has, in every group, a path that no fault touches, and
  such a path has the metrics it has without faults (`UntouchedSucceeds`).
- `ProfileBounds` compares the maximum and the sum over a profile with their parts (`LargestIs`, `ProfileCountsTimeouts`).

### How it is done

Induction over data cannot be cited from the library here, so `Induction` derives it for *sets*: a set of
naturals with a member has a least one, a set of subsets a minimal one. A statement about all numbers becomes one about the set
of numbers for which it holds. The same gives the sum over a finite set (`SumIsThat`, `SumStep`, `SumSplit`,
`SumMonotone`, `PartsSum`) from the definition that the community modules fold. The functions that are
written recursively inside a `LET` (attempts, success, amplification, reachability) are unfolded by
showing that a function with their equation exists (`MostCallsUnfold`, `StaticSuccess`,
`AmplificationUnfold`, `ReachedUnfold`).

### What the attempts showed about the models

- `TypeOK` of `PathExecution` had an implication among conjuncts without parentheses, and so said less than it
  looked. It is what `PathTyped` now proves.
- `BlastRadiusCoversDamage` was false for an endpoint whose every path is too slow without any fault: such an
  endpoint fails, and no fault explains it. TLC confirmed it on a plan
  added for it; the property now asks for a path that is in time (`AlwaysLate`).
- In `TrialSampling`, coupling needs that sweep points ascend: `SweepAssumption` states what `validateSweep` ensures.
- `EffectiveParameters` took a negative number of trials for a request, which the code treats as absent
  (analysis.go:195); it now asks for a positive one, and the run has a profile with -1.
- `EffectiveParameters` took the evidence of *the* component with an ID. No validation keeps two services of a model from
  sharing one, nor an edge of an older schema from having none; `EvidenceOf` now allows any component of that ID
  to speak for it, blank edges are left out as in the code, and the run has an artifact with both (`MTwice`).
- `FileConfig` accepted a command with neither a policy nor an analysis, which `loadExecutionConfig` refuses
  (app.go:472). The run now has such a command.
- The literal 10000 and the merging of maps (`Over`) became definitions of `AnalysisConfig`: the provers reason about
  neither `@@` nor a large numeral among strings.
- Two arms of `resolveAssertionMetric` overlapped, as did `UNION` and `\cup` in the eyes of different parsers.
  Both are written so that they cannot be read in two ways.

### Only model-checked

Liveness, which is out of the prover's reach: `PollingConverges`, `BadArtifactReported`, `CancelledLoopStops` and
`NotifiedChangeServed` of the service, `Terminates` of path execution. Every invariant and action property of a passing
run is a theorem.

## 6. Not modelled

Floating point; seeds and the quality of the random numbers; wording, order and layout of
reports; HTTP itself; the store on disk; weighted aggregates (any value between the
availabilities it averages stands for one); parallel workers (the simulation has none); counting and
ranking of importances (a mean and a sort); decoding of YAML and JSON; labels and provenance.

Whole parts: `internal/oracle`, a test oracle whose result is a floating-point probability;
`internal/discovery/otel`, an experimental conversion of span files that keeps no state; `internal/benchmark`,
which times commands; `internal/release` and `cmd/releasectl`, which generate release documents;
the runner for bare models in `simulation.go`, which only tests reach; the no-op observability and
provenance packages; charts, container image and workflows.

## 7. Plan

Done, in this order: service mode with its promise and proofs; sweeps with
proofs; gate and replay; path execution; sampling; endpoint success and importance; static
metrics of paths; fault profiles with blast radius and assertions; contracts, artifacts, configuration
and parameter sources; the analyzer with its baselines; commands over shared files, with proofs.

Proved since: the safety properties of the gate, of path execution and its static metrics, of
sampling, of endpoints and importance, and of fault profiles; that an accepted configuration is never
refused later, that a baseline artifact is always comparable, and that parameters and their sources are those
of the user's file.

Next, the first being the most valuable:

1. Journey overrides in `EndpointSuccess`, and breadth-first inference against reachability.
2. A composition of sampling, execution and endpoint success, whose curves are the
   inputs of `SweepBoundary`.
