----------------------------- MODULE FaultProfile -----------------------------
(***************************************************************************)
(* A fault profile laid over a trial: what it kills and degrades, which    *)
(* endpoints it calls affected, and the assertions it makes about the      *)
(* result: internal/faults and buildProfileFaultState, buildAdvancedProfile*)
(* and evaluateAssertions of internal/simulation/advanced.go.              *)
(*                                                                         *)
(* Plans have more fields here, see FaultPlan.  Error rates are the        *)
(* classes of PathStatics.                                                 *)
(***************************************************************************)
EXTENDS EndpointSuccess, PathStatics

CONSTANTS Labels, Refs   \* labels of services and placements, shared resources

Service == [labels : SUBSET Labels, refs : SUBSET Refs, eligible : BOOLEAN,
            buckets : Seq(SUBSET Labels)]   \* the labels of each placement

\* works: how often what is degraded still works.
Fault == [type : {"correlated_failure_domain", "edge_fail_stop",
                  "edge_partial_degradation", "service_partial_degradation"},
          ids : SUBSET Services, labels : SUBSET Labels, placement : SUBSET Labels,
          refs : SUBSET Refs, edges : SUBSET Nat, onlyEligible : BOOLEAN,
          works : Chance, latency : Nat]

Target == [type : {"endpoint", "path", "edge", "profile"}, id : Nat, services : Seq(Services)]
Assertion == [metric : {"expected_success_rate", "max_amplification_factor", "timeout_mismatch_count",
                        "blast_radius_service_count", "blast_radius_endpoint_count"},
              target : Target, op : {">=", "<=", "=="}, value : Nat]

\* Fault.Validate, beyond what the types say: a fault selects something, and an
\* edge it names need not exist.
SelectsServices(f) == f.ids # {} \/ f.labels # {} \/ f.placement # {} \/ f.refs # {}
ValidFault(f) ==
  IF f.type \in {"edge_fail_stop", "edge_partial_degradation"} THEN f.edges # {} ELSE SelectsServices(f)

\* Of edges: how often they are observed to work, attempts (0 without retry
\* metadata), timeout and latency (0 if unknown).
FaultPlan(p) ==
  /\ p.services \in [Services -> Service] /\ \A s \in Services : p.services[s].buckets # << >>
  /\ p.faults \in Seq(Fault) /\ \A i \in DOMAIN p.faults : ValidFault(p.faults[i])
  /\ p.works \in [DOMAIN p.edges -> Chance]
  /\ \A field \in {p.attempts, p.timeout, p.latency} : field \in [DOMAIN p.edges -> Nat]

ASSUME FaultAssumption == \A p \in Plans : FaultPlan(p)

-----------------------------------------------------------------------------
(* buildProfileFaultState.                                                 *)

FaultsOf(type) == {plan.faults[i] : i \in {j \in DOMAIN plan.faults : plan.faults[j].type = type}}

Buckets(s) == {s} \X DOMAIN plan.services[s].buckets
BucketMatches(f, b) == f.placement # {} /\ f.placement \subseteq plan.services[b[1]].buckets[b[2]]

\* A selector is the conjunction of what it names.
selectServicesForFault(f, onlyEligible) ==
  {s \in Services :
     /\ onlyEligible => plan.services[s].eligible
     /\ f.ids # {} => s \in f.ids
     /\ f.labels \subseteq plan.services[s].labels
     /\ f.refs # {} => f.refs \cap plan.services[s].refs # {}
     /\ f.placement # {} => \E b \in Buckets(s) : BucketMatches(f, b)}

\* A placement selector kills the placements it matches, others whole services.
KilledBuckets(f) ==
  LET all == UNION {Buckets(s) : s \in selectServicesForFault(f, f.onlyEligible)}
      matched == {b \in all : BucketMatches(f, b)}
  IN IF matched = {} THEN all ELSE matched

hardBucketKill == UNION {KilledBuckets(f) : f \in FaultsOf("correlated_failure_domain")}
isServiceHardDead(s) == Buckets(s) \subseteq hardBucketKill
HardDead == {s \in Services : isServiceHardDead(s)}

hardEdgeKill == (UNION {f.edges : f \in FaultsOf("edge_fail_stop")}) \cap EdgeIDs

\* Degradations of one component combine: rates multiply, latencies add up.
combineErrorRates(faults) == Min({f.works : f \in faults} \cup {Always})
DegradingEdge(e) == {f \in FaultsOf("edge_partial_degradation") : e \in f.edges}
DegradingService(s) ==
  {f \in FaultsOf("service_partial_degradation") : s \in selectServicesForFault(f, FALSE)}
Injected(faults) == MapThenSumSet(LAMBDA f : f.latency, faults)

\* Mutant: only services that are killed count.
KilledServices ==
  UNION {selectServicesForFault(f, f.onlyEligible) : f \in FaultsOf("correlated_failure_domain")}

impactedServices ==
  (UNION {selectServicesForFault(f, f.onlyEligible) : f \in FaultsOf("correlated_failure_domain")})
    \cup (UNION {selectServicesForFault(f, FALSE) : f \in FaultsOf("service_partial_degradation")})

predicateServices(ep) ==
  IF ep.mode = "edge_aware" THEN {ep.entry} \cup ep.targets
  ELSE ep.predicate.services \cup UNION {IF c.type = "edge_aware" THEN {ep.entry} \cup ep.targets
                                         ELSE c.services : c \in ep.predicate.children}

endpointImpacted(i) ==
  \/ plan.endpoints[i].mode # "journey" /\ predicateServices(plan.endpoints[i]) \cap impactedServices # {}
  \/ \E path \in diagnostic[i] : \/ Range(path.services) \cap impactedServices # {}
                                 \/ Range(path.edges) \cap hardEdgeKill # {}

impactedEndpoints == {i \in EndpointIDs : endpointImpacted(i)}

-----------------------------------------------------------------------------
(* Static metrics of paths: the first endpoint in order that has a path with *)
(* an ID provides the edges for all others.                                 *)

HopLatency(path, i) ==
  plan.latency[path.edges[i]] + Injected(DegradingEdge(path.edges[i]))
    + Injected(DegradingService(path.services[i + 1]))
DownstreamLatency(path, h) == MapThenSumSet(LAMBDA i : HopLatency(path, i), h .. Len(path.edges))
LatencyKnown(path, h) ==
  \A i \in h .. Len(path.edges) :
    plan.latency[path.edges[i]] + Injected(DegradingEdge(path.edges[i])) > 0

TimeoutOf(path, h) ==
  LET timeout == plan.timeout[path.edges[h]]
  IN IF timeout = 0 \/ ~LatencyKnown(path, h) THEN "unknown"
     ELSE IF timeout < DownstreamLatency(path, h) THEN "mismatch" ELSE "fits"

analyzePathStatic(path) ==
  [services |-> [i \in DOMAIN path.services |->
     IF path.services[i] \in HardDead THEN Never ELSE combineErrorRates(DegradingService(path.services[i]))],
   hops |-> [h \in DOMAIN path.edges |->
     [works |-> Min({plan.works[path.edges[h]], combineErrorRates(DegradingEdge(path.edges[h]))}),
      dead |-> path.edges[h] \in hardEdgeKill,
      attempts |-> Max({1, plan.attempts[path.edges[h]]}), retry |-> plan.attempts[path.edges[h]] > 0,
      timeout |-> TimeoutOf(path, h)]]]

PathIDs == {ID(path) : path \in UNION Range(diagnostic)}

staticByPath(id) ==
  LET first == Min({i \in EndpointIDs : \E path \in diagnostic[i] : ID(path) = id})
  IN CHOOSE path \in diagnostic[first] : ID(path) = id

StaticOf(id) == analyzePathStatic(staticByPath(id))
-----------------------------------------------------------------------------
(* buildAdvancedProfile and the assertions; amplification 0 is unavailable,  *)
(* and bound says which end of the range of a factor is meant.              *)

Amplification(id, bound) == pathAmplification(StaticOf(id), bound)[1]

Largest(factors) == Max(factors \cup {0})

EndpointAmplification(i, bound) == Largest({Amplification(ID(path), bound) : path \in diagnostic[i]})

EdgeAmplification(e, bound) ==
  Largest(UNION {{pathAmplification(StaticOf(id), bound)[h] :
                    h \in {k \in DOMAIN staticByPath(id).edges : staticByPath(id).edges[k] = e}} : id \in PathIDs})

\* Mutant: paths without retry metadata are passed over.
ProfileOfAvailable(bound) == Largest({Amplification(id, bound) : id \in PathIDs})

ProfileAmplification(bound) ==
  LET factors == {Amplification(id, bound) : id \in PathIDs} IN IF 0 \in factors THEN 0 ELSE Largest(factors)

Known(value) == [available |-> TRUE, value |-> value]
Unavailable  == [available |-> FALSE, value |-> 0]
Factor(value) == IF value = 0 THEN Unavailable ELSE Known(value)

Timeouts(id) == timeoutMismatchForPath(StaticOf(id))

EndpointTimeouts(i) == MapThenSumSet(LAMBDA path : Timeouts(ID(path)).value, diagnostic[i])

\* A path that endpoints share is in the list once for each of them.
ProfileTimeouts ==
  IF \E id \in PathIDs : ~Timeouts(id).available THEN Unavailable
  ELSE Known(MapThenSumSet(EndpointTimeouts, EndpointIDs))

\* Success rates are in units of one trial over the number of endpoints; all
\* endpoints weigh the same.
ExpectedSuccess(target) ==
  LET unit == Cardinality(EndpointIDs) IN
  CASE target.type = "endpoint" /\ target.id \in EndpointIDs -> Known(IF target.id \in success THEN unit ELSE 0)
    [] target.type = "path" /\ <<FALSE, target.services>> \in PathIDs ->
         Known(unit * pathSuccess[<<FALSE, target.services>>])
    [] target.type = "profile" -> Known(Cardinality(success))
    [] OTHER -> Unavailable

MaxAmplification(target, bound) ==
  CASE target.type = "endpoint" /\ target.id \in EndpointIDs -> Factor(EndpointAmplification(target.id, bound))
    [] target.type = "path" /\ <<FALSE, target.services>> \in PathIDs ->
         Factor(Amplification(<<FALSE, target.services>>, bound))
    [] target.type = "edge" -> Factor(EdgeAmplification(target.id, bound))
    [] target.type = "profile" -> Factor(ProfileAmplification(bound))
    [] OTHER -> Unavailable

TimeoutMismatches(target) ==
  CASE target.type = "path" /\ <<FALSE, target.services>> \in PathIDs -> Timeouts(<<FALSE, target.services>>)
    [] target.type = "profile" -> ProfileTimeouts
    [] OTHER -> Unavailable

BlastRadius(metric, target) ==
  IF target.type # "profile" THEN Unavailable
  ELSE Known(Cardinality(IF metric = "blast_radius_service_count" THEN impactedServices ELSE impactedEndpoints))

\* A path is asserted about by its services; required edges cannot be.
resolveAssertionMetric(metric, target, bound) ==
  CASE metric = "expected_success_rate"    -> ExpectedSuccess(target)
    [] metric = "max_amplification_factor" -> MaxAmplification(target, bound)
    [] metric = "timeout_mismatch_count"   -> TimeoutMismatches(target)
    [] metric \in {"blast_radius_service_count", "blast_radius_endpoint_count"} -> BlastRadius(metric, target)

compareAssertion(actual, op, expected) ==
  CASE op = ">=" -> actual >= expected [] op = "<=" -> actual <= expected [] op = "==" -> actual = expected

\* What evaluateAssertions may say, given the range of the metric.
AssertionStatuses(a) ==
  LET At(bound) == resolveAssertionMetric(a.metric, a.target, bound)
  IN IF ~At("least").available THEN {"unavailable"}
     ELSE {IF compareAssertion(actual, a.op, a.value) THEN "pass" ELSE "fail" :
             actual \in At("least").value .. At("most").value}

-----------------------------------------------------------------------------
(* A trial under the profile: what it kills is down, and PathExecution shows *)
(* (StaticPredictsExecution) which paths may or must be viable.              *)

sampleAdvancedState(state) ==
  state.services \cap HardDead = {} /\ state.edges \cap hardEdgeKill = {}

\* Importance analysis requires a base profile without faults.
FaultNext ==
  \/ ContextFails
  \/ /\ BuildContext
     /\ \A path \in UNION Range(diagnostic') :
          LET chance == staticPathSuccess(analyzePathStatic(path))[1]
          IN chance # Sometimes => (path \in viable' <=> chance = Always)
  \/ RunTrial /\ sampleAdvancedState(sampled')
  \/ plan.faults = << >> /\ Importance

FaultSpec == Init /\ [][FaultNext]_vars

-----------------------------------------------------------------------------
(* Properties.                                                             *)

\* A trial in which nothing is down but what the faults kill.
OnlyFaults ==
  /\ pc = "importance" /\ paired = << >>
  /\ sampled = [services |-> Services \ HardDead, edges |-> EdgeIDs \ hardEdgeKill]

ObservedLatency(path, i) == plan.latency[path.edges[i]]

\* Without any fault, a timeout of the path is too short for what is below it.
AlwaysLate(path) ==
  \E h \in DOMAIN path.edges :
    /\ plan.timeout[path.edges[h]] # 0 /\ \A i \in h .. Len(path.edges) : ObservedLatency(path, i) > 0
    /\ plan.timeout[path.edges[h]] <
         MapThenSumSet(LAMBDA i : ObservedLatency(path, i), h .. Len(path.edges))

\* docs/methodology.md: "blast-radius counts for correlated failures".  The radius
\* is computed from selectors, predicates and paths, the damage by the trial: an
\* endpoint that fails although nothing but the faults is down, and that would
\* succeed without them, is inside the radius.  Degraded and erring edges do not
\* count.
BlastRadiusCoversDamage ==
  OnlyFaults /\ FaultsOf("edge_partial_degradation") = {} /\ Range(plan.works) = {Always} =>
    \A i \in EndpointIDs \ success :
         (IF plan.endpoints[i].mode = "predicate" THEN Evaluate(plan.endpoints[i].predicate, Services)
          ELSE \A g \in groups[i] : \E path \in g : ~AlwaysLate(path))
           => i \in impactedEndpoints

\* An upper bound that holds for the profile holds everywhere: no endpoint, path
\* or edge fails an assertion of the same metric, and nothing that is not known
\* of a path is passed over.  This is so at both ends of the range of a factor.
ProfileBoundCoversAll ==
  OnlyFaults => \A metric \in {"max_amplification_factor", "timeout_mismatch_count"}, bound \in Bounds :
    LET At(target) == resolveAssertionMetric(metric, target, bound)
        profile == At([type |-> "profile", id |-> 0, services |-> << >>])
    IN profile.available =>
         /\ \A id \in PathIDs : ~id[1] =>
              LET path == At([type |-> "path", id |-> 0, services |-> id[2]])
              IN path.available /\ path.value <= profile.value
         /\ \A type \in {"endpoint", "edge"} : \A id \in EndpointIDs \cup EdgeIDs :
              LET part == At([type |-> type, id |-> id, services |-> << >>])
              IN part.available => part.value <= profile.value

\* docs/methodology.md: "If retry, timeout, latency, placement, or shared-resource
\* metadata is missing, the affected metric is marked unavailable with a reason
\* instead of being guessed."  Static metrics are kept per path ID, which names
\* services only: endpoints whose modes select different edges between the same
\* services share them.
MissingMetadataIsUnavailable ==
  OnlyFaults => \A i \in EndpointIDs : \A path \in diagnostic[i] :
    /\ (\E e \in Range(path.edges) : plan.attempts[e] = 0) => Amplification(ID(path), "most") = 0
    /\ (\E e \in Range(path.edges) : plan.timeout[e] = 0) => ~Timeouts(ID(path)).available
=============================================================================
