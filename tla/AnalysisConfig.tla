--------------------------- MODULE AnalysisConfig ---------------------------
(***************************************************************************)
(* The analysis and serve configurations: internal/config (analysis.go,    *)
(* policy.go, importance.go, parameter_sources.go).                        *)
(*                                                                         *)
(* Zero, "" and the empty sequence are what a key that the file leaves out *)
(* decodes to.  Versions are ten times the schema version; probabilities,  *)
(* thresholds, SLOs, confidence levels and axis values are in hundredths.  *)
(***************************************************************************)
EXTENDS ArtifactContract

Modes == {"warn", "fail", "report"}
SamplingModes == {"independent_replica", "independent_service", "fixed_k_service_set",
                  "fixed_k_replica_slots"}

NoReliability == [node |-> Nil, edge |-> Nil, services |-> << >>, edges |-> << >>]

DefaultTrials == 10000

\* Maps of entries, the first before the second.
Over(f, g) == [x \in DOMAIN f \cup DOMAIN g |-> IF x \in DOMAIN f THEN f[x] ELSE g[x]]

Positive(value, default) == IF value <= 0 THEN default ELSE value

-----------------------------------------------------------------------------
(* Normalisation.                                                          *)

normalizeProfileReliability(parent, own) ==
  [node |-> Or(own.node, Nil, parent.node), edge |-> Or(own.edge, Nil, parent.edge),
   services |-> Over(own.services, parent.services), edges |-> Over(own.edges, parent.edges)]

NormalizedGate(g) ==
  LET mode == Or(g.mode, "", "warn") IN
    [g EXCEPT !.mode = mode, !.defaultAction = Or(@, "", mode),
              !.rule = Or(@, "", "all_profiles"), !.global = Or(@, 0, 99)]

\* The profile of a configuration that has none.
DefaultProfile(c) ==
  [name |-> "default", trials |-> c.trials, mode |-> c.mode, failure |-> c.failure,
   reliability |-> normalizeProfileReliability(NoReliability, c.reliability),
   fixedK |-> c.fixedK, fault |-> "", weights |-> c.weights]

NormalizedProfile(c, p) ==
  [p EXCEPT !.trials = Positive(@, c.trials), !.mode = Or(@, "", c.mode),
            !.failure = Or(@, 0, c.failure), !.fixedK = Or(@, 0, c.fixedK),
            !.reliability = normalizeProfileReliability(c.reliability, @)]

\* The values of the configuration itself.
WithDefaults(c) ==
  [c EXCEPT !.version = Or(@, 0, 10), !.seed = Or(@, 0, 42), !.trials = Positive(@, DefaultTrials),
            !.mode = Or(@, "", "independent_replica"), !.failure = Or(@, 0, 5),
            !.policy = NormalizedPolicy(@), !.gate = NormalizedGate(@)]

\* Every profile inherits from the configuration once that has its defaults.
NormalizedProfiles(c) ==
  LET own == IF c.profiles = << >> THEN <<DefaultProfile(WithDefaults(c))>> ELSE c.profiles IN
    [i \in DOMAIN own |-> NormalizedProfile(WithDefaults(c), own[i])]

NormalizedSweeps(c) == [i \in DOMAIN c.sweeps |-> [c.sweeps[i] EXCEPT !.level = Or(@, 0, 95)]]

NormalizedImportance(c) ==
  [i \in DOMAIN c.importance |->
     [c.importance[i] EXCEPT !.method = Or(@, "", "birnbaum"), !.level = Or(@, 0, 95),
                             !.kinds = Or(@, << >>, <<"service", "edge">>)]]

Normalized(c) ==
  [WithDefaults(c) EXCEPT !.profiles = NormalizedProfiles(c), !.sweeps = NormalizedSweeps(c),
                          !.importance = NormalizedImportance(c)]

\* Normalized copies the struct but not the arrays of profiles and sweeps:
\* what the caller's own configuration holds afterwards.
WrittenThrough(c) ==
  [c EXCEPT !.profiles = IF @ = << >> THEN @ ELSE NormalizedProfiles(c),
            !.sweeps   = NormalizedSweeps(c)]

-----------------------------------------------------------------------------
(* Validation.                                                             *)

validateReliability(r) ==
  OptInUnit(r.node) /\ OptInUnit(r.edge) /\ ValidShares(r.services) /\ ValidShares(r.edges)

ProfileNames(c)  == {p.name : p \in Range(c.profiles)}
BaselineNames(c) == {b.name : b \in Range(c.baselines)}

Unique(seq) == IsInjective([i \in DOMAIN seq |-> seq[i].name])

ValidProfile(c, p) ==
  /\ p.name # "" /\ p.trials > 0 /\ p.mode \in SamplingModes
  /\ p.fault # "" => c.version # 10
  /\ p.mode # "fixed_k_service_set" => InUnit(p.failure)
  /\ p.mode \in {"fixed_k_service_set", "fixed_k_replica_slots"} => p.fixedK >= 0
  /\ ValidWeights(p.weights) /\ validateReliability(p.reliability)

SweepEndpoints(s) == {t.endpoint : t \in Range(s.targets)}

validateSweep(c, s) ==
  /\ s.name # "" /\ s.profile \in ProfileNames(c) /\ s.level \in 1 .. 99
  /\ s.values # << >> /\ \A i, j \in DOMAIN s.values : i < j => s.values[i] < s.values[j]
  /\ \/ s.axis = "independent_replica_failure_probability" /\ Range(s.values) \subseteq Percent
     \/ s.axis = "failed_replica_slots" /\ \A v \in Range(s.values) : v >= 0 /\ v % 100 = 0
  /\ s.targets # << >> /\ "" \notin SweepEndpoints(s)
  /\ IsInjective([i \in DOMAIN s.targets |-> s.targets[i].endpoint])
  /\ \A t \in Range(s.targets) : InUnit(t.slo)

validateBoundaryRule(c, r) ==
  \E s \in Range(c.sweeps) :
    /\ s.name = r.sweep /\ r.endpoint \in SweepEndpoints(s)
    /\ r.minimum # Nil \/ r.regression # Nil
    /\ r.minimum # Nil => r.minimum \in Range(s.values)
    /\ r.regression # Nil => r.regression >= 0 /\ r.baseline \in BaselineNames(c)
    /\ r.indeterminate \in Modes \cup {""}

ValidIDs(ids) == "" \notin Range(ids) /\ IsInjective(ids)

validateImportance(c, i) ==
  /\ i.name # "" /\ i.method = "birnbaum" /\ i.level \in 1 .. 99 /\ i.topK >= 0
  /\ \E p \in Range(c.profiles) :
       p.name = i.profile /\ p.fault = "" /\ p.mode \in {"independent_service", "independent_replica"}
  /\ i.targets # << >> /\ ValidIDs(i.targets)
  /\ i.kinds # << >> /\ ValidIDs(i.kinds) /\ Range(i.kinds) \subseteq {"service", "edge"}
  /\ ValidIDs(i.services) /\ (i.services # << >> => "service" \in Range(i.kinds))
  /\ ValidIDs(i.edges) /\ (i.edges # << >> => "edge" \in Range(i.kinds))

ValidGate(g) ==
  /\ {g.mode, g.defaultAction} \subseteq Modes /\ g.rule \in {"all_profiles", "any_profile"}
  /\ InUnit(g.global) /\ OptInUnit(g.aggregate) /\ OptInUnit(g.cross)
  /\ ValidShares(g.endpoints) /\ ValidShares(g.profileAggregates)
  /\ "" \notin DOMAIN g.profileEndpoints
  /\ \A p \in DOMAIN g.profileEndpoints : ValidShares(g.profileEndpoints[p])

\* Which schema version a section needs.
ValidVersion(c) ==
  /\ c.version \in {10, 11, 12, 13}
  /\ c.faultContract # Nil => c.version # 10
  /\ c.sweeps # << >> => c.version \in {12, 13}
  /\ c.importance # << >> => c.version = 13

Validate(c) ==
  /\ ValidVersion(c) /\ ValidWeights(c.weights) /\ validateReliability(c.reliability)
  /\ \A b \in Range(c.baselines) : b.name # "" /\ b.path # ""
  /\ ValidPolicy(c.policy)
  /\ c.profiles # << >> /\ Unique(c.profiles) /\ \A p \in Range(c.profiles) : ValidProfile(c, p)
  /\ Unique(c.sweeps) /\ \A s \in Range(c.sweeps) : validateSweep(c, s)
  /\ Unique(c.importance) /\ \A i \in Range(c.importance) : validateImportance(c, i)
  /\ \A r \in Range(c.gate.boundaryRules) : validateBoundaryRule(c, r)
  /\ ValidGate(c.gate)

-----------------------------------------------------------------------------
(* Where a parameter comes from.                                           *)

reliabilityConfigured(r) ==
  r.node # Nil \/ r.edge # Nil \/ DOMAIN r.services # {} \/ DOMAIN r.edges # {}

inheritedSource(set, fallback) == IF set THEN "override" ELSE fallback
pickSource(set) == inheritedSource(set, "default")

OwnSources(p, fallback) ==
  [trials |-> inheritedSource(p.trials > 0, fallback.trials),
   mode |-> inheritedSource(p.mode # "", fallback.mode),
   failure |-> inheritedSource(p.failure # 0, fallback.failure),
   reliability |-> inheritedSource(reliabilityConfigured(p.reliability), fallback.reliability),
   fixedK |-> inheritedSource(p.fixedK # 0, fallback.fixedK),
   weights |-> inheritedSource(DOMAIN p.weights # {}, fallback.weights)]

Unconfigured(name) ==
  [name |-> name, trials |-> 0, mode |-> "", failure |-> 0, reliability |-> NoReliability,
   fixedK |-> 0, fault |-> "", weights |-> << >>]

\* The profile of that name in the file, or an empty one.
RawProfile(raw, name) ==
  IF name \in ProfileNames(raw) THEN CHOOSE p \in Range(raw.profiles) : p.name = name
  ELSE Unconfigured(name)

BuildAnalysisParameterSources(raw, normalized) ==
  LET own == OwnSources(raw, [x \in {"trials", "mode", "failure", "reliability", "fixedK", "weights"}
                                |-> "default"])
  IN [seed |-> pickSource(raw.seed # 0), config |-> "override",
      profiles |-> [n \in ProfileNames(normalized) |-> OwnSources(RawProfile(raw, n), own)]]

BuildPolicyParameterSources(c) ==
  [seed |-> "policy", config |-> "policy",
   profiles |-> [n \in ProfileNames(c) |->
     [trials |-> "policy", mode |-> "policy", failure |-> "policy",
      reliability |-> "default", fixedK |-> "default", weights |-> "default"]]]

-----------------------------------------------------------------------------
(* Policies, and files that hold either.  A file is a record of what it    *)
(* decodes to as an analysis, with the top-level keys of a policy besides. *)

NormalizedPolicyFile(file) ==
  [mode |-> Or(file.mode, "", "warn"), defaultAction |-> Or(file.defaultAction, "", "warn"),
   global |-> Or(file.global, 0, 99), failure |-> Or(file.analysis.failure, 0, 5),
   trials |-> Positive(file.analysis.trials, DefaultTrials), endpoints |-> file.endpoints]

ValidPolicyFile(p) ==
  /\ {p.mode, p.defaultAction} \subseteq Modes
  /\ InUnit(p.global) /\ InUnit(p.failure) /\ p.trials > 0 /\ ValidShares(p.endpoints)

LoadPolicy(file) ==
  IF ValidPolicyFile(NormalizedPolicyFile(file)) THEN NormalizedPolicyFile(file) ELSE Nil

EmptyGate ==
  [mode |-> "", defaultAction |-> "", rule |-> "", global |-> 0, aggregate |-> Nil, cross |-> Nil,
   endpoints |-> << >>, profileAggregates |-> << >>, profileEndpoints |-> << >>, boundaryRules |-> << >>]

EmptyAnalysis ==
  [version |-> 0, seed |-> 0, trials |-> 0, mode |-> "", failure |-> 0, reliability |-> NoReliability,
   fixedK |-> 0, journeys |-> Nil, predicates |-> Nil, faultContract |-> Nil, weights |-> << >>,
   profiles |-> << >>, sweeps |-> << >>, importance |-> << >>, baselines |-> << >>,
   policy |-> NoPolicy, gate |-> EmptyGate, sources |-> Nil]

\* What any file decodes to: the fields of the structs, numbers and lists.
IsAnalysis(a) ==
  /\ DOMAIN a = DOMAIN EmptyAnalysis /\ DOMAIN a.gate = DOMAIN EmptyGate
  /\ \A list \in {a.profiles, a.baselines} : list \in Seq(Range(list))
  /\ \A p \in Range(a.profiles) : DOMAIN p = DOMAIN Unconfigured("")
  /\ \A x \in {a} \cup Range(a.profiles) : {x.trials, x.failure, x.fixedK} \subseteq Int

ToAnalysisConfig(p) ==
  LET profile == [Unconfigured("default") EXCEPT !.trials = p.trials, !.failure = p.failure,
                                                 !.mode = "independent_replica"]
      c == [EmptyAnalysis EXCEPT
              !.version = 10, !.seed = 42, !.trials = p.trials, !.failure = p.failure,
              !.mode = "independent_replica", !.profiles = <<profile>>,
              !.gate = [EmptyGate EXCEPT !.mode = p.mode, !.defaultAction = p.defaultAction,
                          !.rule = "all_profiles", !.global = p.global, !.endpoints = p.endpoints]]
  IN [c EXCEPT !.sources = BuildPolicyParameterSources(c)]

\* The normalised configuration with the sources that are derived after
\* normalisation has written through to the profiles of `raw'.
Attributed(raw) ==
  [Normalized(raw) EXCEPT !.sources =
     BuildAnalysisParameterSources(WrittenThrough(raw), Normalized(raw))]

\* A file with neither profiles nor a schema version is taken for a policy.
LoadAnalysis(file) ==
  IF file.analysis.profiles = << >> /\ file.analysis.version = 0
  THEN LET policy == LoadPolicy(file) IN
         IF policy = Nil THEN Nil ELSE Normalized(ToAnalysisConfig(policy))
  ELSE IF Validate(Normalized(file.analysis)) THEN Attributed(file.analysis) ELSE Nil

LoadContractPolicy(p) == IF ValidPolicy(p) THEN NormalizedPolicy(p) ELSE Nil

-----------------------------------------------------------------------------
(* The serve configuration.                                                *)

IsServe(s) == DOMAIN s = {"version", "artifactPath", "artifactMode", "poll", "maxItems", "analysisFile", "analysis"}

NormalizedServe(s) ==
  [s EXCEPT !.version = Or(@, 0, 10), !.artifactMode = Or(@, "", "auto"),
            !.poll = Or(@, Nil, 30), !.maxItems = Positive(@, 10)]

\* `poll' is 0 for a text that is not a duration.
ValidateServe(s) ==
  /\ s.version = 10 /\ s.artifactPath # "" /\ s.artifactMode \in {"auto", "file", "directory"}
  /\ s.poll > 0 /\ s.maxItems > 0
  /\ s.analysisFile = Nil => /\ s.analysis.profiles # << >> \/ s.analysis.version # 0
                             /\ Validate(Normalized(s.analysis))

LoadServeConfig(s) == IF ValidateServe(NormalizedServe(s)) THEN NormalizedServe(s) ELSE Nil
=============================================================================
