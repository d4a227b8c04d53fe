------------------------------ MODULE Analyzer ------------------------------
(***************************************************************************)
(* What an analysis is asked to simulate and when it refuses:              *)
(* AnalyzeLoaded of internal/analyzer, RunArtifactProfiles with its sweeps *)
(* and importance requests, internal/journeys, the loaders of overlays.    *)
(*                                                                         *)
(* The random part is left out: a profile stands for all availabilities    *)
(* that its parameters can lead to.  A service also tells whether it may   *)
(* be sampled, an endpoint names the predicate of an overlay it refers to. *)
(***************************************************************************)
EXTENDS AnalysisConfig, FiniteSetsExt

ServiceIds(m)  == {s.id : s \in m.services}
EdgeIds(m)     == {e.id : e \in m.edges}
EndpointIds(m) == {e.id : e \in m.endpoints}

-----------------------------------------------------------------------------
(* The files a configuration refers to.                                    *)

ValidJourneys(j) ==
  /\ j.version = "1.0" /\ DOMAIN j.paths # {} /\ "" \notin DOMAIN j.paths
  /\ \A e \in DOMAIN j.paths : j.paths[e] # << >> /\ << >> \notin Range(j.paths[e])

BlockingHops(m) == {<<e.from, e.to>> : e \in {x \in m.edges : x.blocking /\ x.kind # "async"}}

ValidateAgainstModel(j, m) ==
  \A id \in DOMAIN j.paths : \E e \in m.endpoints :
    /\ e.id = id
    /\ \A path \in Range(j.paths[id]) :
         /\ path[1] = e.entry /\ Range(path) \subseteq ServiceIds(m)
         /\ \A i \in 1 .. Len(path) - 1 : <<path[i], path[i + 1]>> \in BlockingHops(m)

\* An overlay has predicates, each with the services it mentions, and weights.
ValidOverlay(o) ==
  /\ o.version \in {"1.0", "1.1"} /\ (DOMAIN o.predicates # {} \/ DOMAIN o.weights # {})
  /\ "" \notin DOMAIN o.predicates /\ ValidWeights(o.weights)

NoOverlay == [version |-> "1.0", predicates |-> << >>, weights |-> << >>]
Overlay(c) == Or(c.predicates, Nil, NoOverlay)

ValidFaults(f) == f.version \in {"", "1.0"} /\ f.profiles # {} /\ "" \notin f.profiles

ValidSideFiles(c, m) ==
  /\ c.predicates # Nil => ValidOverlay(c.predicates)
  /\ c.faultContract # Nil => ValidFaults(c.faultContract)
  /\ c.journeys # Nil => ValidJourneys(c.journeys) /\ ValidateAgainstModel(c.journeys, m)

-----------------------------------------------------------------------------
(* Parameters.                                                             *)

reliabilityFromArtifact(m) ==
  LET known(items) == {x \in items : x.live # Nil /\ x.id # ""}
      live(items) == [id \in {x.id : x \in known(items)} |->
                        (CHOOSE x \in known(items) : x.id = id).live]
  IN [NoReliability EXCEPT !.services = live(m.services), !.edges = live(m.edges)]

\* Mutant: what the artifact says replaces what the configuration says.
EvidenceFirst(evidence, own) ==
  [own EXCEPT !.services = IF own.node = Nil THEN Over(evidence.services, @) ELSE @,
              !.edges    = IF own.edge = Nil THEN Over(evidence.edges, @) ELSE @]

\* A general probability hides the evidence, an entry hides its own piece.
mergeArtifactReliability(evidence, own) ==
  [own EXCEPT !.services = IF own.node = Nil THEN Over(@, evidence.services) ELSE @,
              !.edges    = IF own.edge = Nil THEN Over(@, evidence.edges) ELSE @]

UsesEvidence(evidence, own) == mergeArtifactReliability(evidence, own) # own

SimulationProfile(m, p) ==
  [p EXCEPT !.reliability = mergeArtifactReliability(reliabilityFromArtifact(m), @)]

serviceLiveProbability(p, s) ==
  IF s \in DOMAIN p.reliability.services THEN p.reliability.services[s]
  ELSE Or(p.reliability.node, Nil, 100 - p.failure)

edgeLiveProbability(p, e) ==
  IF e \in DOMAIN p.reliability.edges THEN p.reliability.edges[e]
  ELSE Or(p.reliability.edge, Nil, 100)

\* DefaultWeights of the simulation parameters.
DefaultWeights(loaded, c) == Over(c.weights, Over(Overlay(c).weights, loaded.weights))

\* A weight of zero is a weight; the profile's own come first.
mergeWeights(defaults, overrides, m) ==
  LET all == Over(overrides, defaults) IN [e \in EndpointIds(m) \cap DOMAIN all |-> all[e]]

\* Mutant: the report does not learn of the evidence.
SourcesUnchanged(c, m) == c.sources

\* External once an analysis has used evidence; the entry stays so.
WithEvidence(c, m) ==
  [c.sources EXCEPT !.profiles =
     [n \in DOMAIN @ |->
        IF /\ @[n].reliability = "default"
           /\ \E p \in Range(c.profiles) :
                p.name = n /\ UsesEvidence(reliabilityFromArtifact(m), p.reliability)
        THEN [@[n] EXCEPT !.reliability = "external"] ELSE @[n]]]

parameterStatusForWeights(source, artifactSource) ==
  IF source # "default" THEN source
  ELSE IF artifactSource # "default" THEN "external" ELSE "default"

WeightsSource(loaded, c) ==
  IF DOMAIN Overlay(c).weights # {} THEN "external" ELSE loaded.weightsSource

-----------------------------------------------------------------------------
(* The simulation.                                                         *)

Slots(s) == IF s.placements = << >> THEN s.replicas ELSE FoldFunction(+, 0, s.placements)

Candidates(m) == {s \in m.services : s.eligible}

totalAdvancedReplicaSlots(m) == MapThenSumSet(Slots, Candidates(m))

CeilPercent(share, total) == (share * total + 99) \div 100

DerivedFixedK(p, slots) ==
  IF p.fixedK = 0 /\ p.failure > 0 THEN CeilPercent(p.failure, slots) ELSE p.fixedK

\* normalizeProfile, and the checks of runAdvancedProfile and of its sampling.
ProfileRuns(m, c, p) ==
  /\ p.trials > 0 /\ p.mode \in SamplingModes /\ validateReliability(p.reliability)
  /\ p.mode # "fixed_k_service_set" => InUnit(p.failure)
  /\ p.mode \in {"fixed_k_service_set", "fixed_k_replica_slots"} => p.fixedK >= 0
  /\ DOMAIN p.reliability.services \subseteq ServiceIds(m)
  /\ DOMAIN p.reliability.edges \subseteq EdgeIds(m)
  /\ p.fault # "" => c.faultContract # Nil /\ p.fault \in c.faultContract.profiles
  /\ p.mode = "fixed_k_service_set" => p.fixedK <= Cardinality(Candidates(m))
  /\ p.mode = "fixed_k_replica_slots" =>
       DerivedFixedK(p, totalAdvancedReplicaSlots(m)) <= totalAdvancedReplicaSlots(m)

sweepPointProfile(s, base, v) ==
  IF s.axis = "independent_replica_failure_probability"
  THEN [base EXCEPT !.mode = "independent_replica", !.failure = v, !.fixedK = 0,
                    !.reliability.node = 100 - v, !.reliability.services = << >>]
  ELSE [base EXCEPT !.mode = "fixed_k_replica_slots", !.failure = 0, !.fixedK = v \div 100]

\* A digest of a base, a name and an index; digests are taken to be distinct.
derivedSeed(base, name, index) == <<base, name, index>>

\* Mutant: the digest covers the reliability the base profile ends up with.
FingerprintWithEvidence(s, base, seed) == <<s, base, seed>>

sweepFingerprint(s, base, seed) ==
  <<s.name, base.name, base.trials, base.fault, s.level, s.axis, s.values, s.targets, seed>>

BaseProfile(m, c, name) == SimulationProfile(m, CHOOSE p \in Range(c.profiles) : p.name = name)

SweepRuns(m, c, s) ==
  /\ SweepEndpoints(s) \subseteq EndpointIds(m)
  /\ \A v \in Range(s.values) : ProfileRuns(m, c, sweepPointProfile(s, BaseProfile(m, c, s.profile), v))

\* The sweeps of a report, by name.
SweepOutputs(m, c) ==
  [name \in {s.name : s \in Range(c.sweeps)} |->
     LET i == CHOOSE i \in DOMAIN c.sweeps : c.sweeps[i].name = name IN
       sweepFingerprint(c.sweeps[i], BaseProfile(m, c, c.sweeps[i].profile),
                        derivedSeed(c.seed, name, i))]

ImportanceRuns(m, i) ==
  /\ Range(i.services) \subseteq ServiceIds(m) /\ Range(i.edges) \subseteq EdgeIds(m)
  /\ "service" \in Range(i.kinds) \/ m.edges # {}
  /\ Range(i.targets) \subseteq EndpointIds(m)

\* Endpoints with targets of their own do not look at the predicates.
ResolvesEndpoints(m, c) ==
  \A e \in m.endpoints :
    e.targets = {} /\ e.predicate \in DOMAIN Overlay(c).predicates =>
      Overlay(c).predicates[e.predicate] \subseteq ServiceIds(m)

RunArtifactProfiles(m, c) ==
  /\ ResolvesEndpoints(m, c)
  /\ \A p \in Range(c.profiles) : ProfileRuns(m, c, SimulationProfile(m, p))
  /\ \A s \in Range(c.sweeps) : SweepRuns(m, c, s)
  /\ \A i \in Range(c.importance) : ImportanceRuns(m, i)

-----------------------------------------------------------------------------
(* AnalyzeLoaded up to its baselines.                                      *)

\* The first thing an analysis does with its configuration, which was
\* accepted when it was loaded.
Accepted(c) == Validate(Normalized(c))

Analyzes(loaded, c) ==
  /\ Accepted(c) /\ Evaluate(c.policy, loaded.contract) # Nil
  /\ ValidSideFiles(c, loaded.model) /\ RunArtifactProfiles(loaded.model, Normalized(c))

\* Mutant: the rules are kept when a baseline is analysed.
KeepsRules(c) == [c EXCEPT !.baselines = << >>, !.policy = NoPolicy]

\* What a baseline artifact is analysed with.
BaselineConfig(c) ==
  [c EXCEPT !.baselines = << >>, !.gate.boundaryRules = << >>, !.policy = NoPolicy]
=============================================================================
