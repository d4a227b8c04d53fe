----------------------------- MODULE MCPipeline -----------------------------
(* Single commands over perturbed files, and sequences of commands that share *)
(* a directory and use each other's reports as baselines.                     *)
EXTENDS Pipeline, TLC

-----------------------------------------------------------------------------
(* Artifacts.                                                                *)

Service(id, live) == [id |-> id, replicas |-> 1, live |-> live, placements |-> << >>, eligible |-> TRUE]

Services(a, b) == {Service("a", a), [Service("b", b) EXCEPT !.placements = <<1, 2>>],
                   [Service("c", Nil) EXCEPT !.eligible = FALSE]}

Edge(id, from, to, kind, live) ==
  [id |-> id, from |-> from, to |-> to, kind |-> kind, blocking |-> kind = "sync", live |-> live,
   errors |-> Nil, limits |-> <<100>>]

Endpoint(id) == [id |-> id, entry |-> "a", predicate |-> id, targets |-> {}, modes |-> {}]

M0 == [services |-> Services(Nil, Nil),
       edges |-> {Edge("ab", "a", "b", "sync", Nil), Edge("ac", "a", "c", "async", Nil)},
       endpoints |-> {Endpoint("home"), [Endpoint("feed") EXCEPT !.targets = {"b"}, !.modes = {"sync"}]},
       weights |-> << >>, schema |-> SchemaRef(Contract("model")), topology |-> "", confidence |-> 90]

MEvidence == [M0 EXCEPT !.services = Services(20, 25),
                        !.edges = {Edge("ab", "a", "b", "sync", 80), Edge("ac", "a", "c", "async", Nil)}]

\* Two services and two edges of one ID, which no validation forbids.
MTwice == [MEvidence EXCEPT !.services = @ \cup {Service("a", 30)},
                            !.edges = @ \cup {Edge("ab", "a", "b", "sync", 10)}]

\* An envelope, with its schema in its metadata or at the top level.
Snapshot(m, discovery) ==
  [schema |-> NoSchema, metadata |-> SchemaRef(Contract("snapshot")),
   model |-> [NoModel EXCEPT !.schema = SchemaRef(Contract("snapshot"))], nested |-> m,
   topology |-> "v2", discovery |-> discovery]

TopSnapshot(m, discovery) ==
  [Snapshot(m, discovery) EXCEPT !.schema = SchemaRef(Contract("snapshot")), !.metadata = NoSchema,
                                 !.model.schema = NoSchema]

\* A nested model may name the snapshot contract as well.
Misnamed(m) == [m EXCEPT !.schema = SchemaRef(Contract("snapshot"))]

\* Artifacts that are not accepted.
BadArtifacts ==
  {Nil, ModelFile([M0 EXCEPT !.schema = NoSchema]), ModelFile([M0 EXCEPT !.schema.pin = "other"]),
   ModelFile([M0 EXCEPT !.schema.version = "1.2.0"]), ModelFile(Misnamed(M0)),
   ModelFile([M0 EXCEPT !.edges = {Edge("", "a", "b", "sync", Nil)}]),
   [ModelFile(M0) EXCEPT !.schema = SchemaRef(Contract("model"))],
   [Snapshot(M0, << >>) EXCEPT !.nested.schema.version = "0.9.0"], Snapshot(M0, "home" :> -1),
   ModelFile([M0 EXCEPT !.services = {}]), ModelFile([M0 EXCEPT !.services = Services(120, Nil)]),
   ModelFile([M0 EXCEPT !.edges = {Edge("ax", "a", "x", "sync", Nil)}]),
   ModelFile([M0 EXCEPT !.endpoints = {[Endpoint("home") EXCEPT !.targets = {"x"}]}])}

-----------------------------------------------------------------------------
(* Configurations.                                                           *)

P0 == [Unconfigured("p") EXCEPT !.trials = 20]
A0 == [EmptyAnalysis EXCEPT !.version = 13, !.profiles = <<P0>>]

File(a) == [analysis |-> a, mode |-> "", defaultAction |-> "", global |-> 0, endpoints |-> << >>]

NoFlags == [artifactPath |-> "", artifactMode |-> "", poll |-> 0]

Job(a) == [command |-> "run", policy |-> Nil, analysis |-> File(a), contractPolicy |-> Nil,
           seed |-> Nil, journeys |-> Nil, artifact |-> ModelFile(M0), serve |-> Nil, flags |-> NoFlags]

\* An absent section and one that says something, on every layer.
Reliability(node, service, edge) ==
  {[node |-> n, edge |-> Nil, services |-> s, edges |-> << >>] : n \in {Nil, node}, s \in {<< >>, "a" :> service}}
    \cup {[NoReliability EXCEPT !.edge = edge], [NoReliability EXCEPT !.edges = "ab" :> edge]}

ReliabilityJobs ==
  {[Job([A0 EXCEPT !.reliability = r, !.failure = f, !.profiles = ps]) EXCEPT !.artifact = ModelFile(m)] :
     r \in Reliability(50, 30, 40), f \in {0, 10}, m \in {M0, MEvidence, MTwice},
     ps \in {<<[P0 EXCEPT !.reliability = own]>> : own \in Reliability(60, 70, 75)} \cup {<< >>}}

WeightJobs ==
  {[Job([A0 EXCEPT !.weights = w, !.profiles = <<[P0 EXCEPT !.weights = own]>>, !.predicates = o])
      EXCEPT !.artifact = file] :
     w \in {<< >>, "home" :> 3}, own \in {<< >>, "home" :> 0, "home" :> 4 @@ "feed" :> 1},
     o \in {Nil, [NoOverlay EXCEPT !.weights = "home" :> 2]},
     file \in {ModelFile([M0 EXCEPT !.weights = "home" :> 1 @@ "feed" :> 6]),
               Snapshot([M0 EXCEPT !.weights = "home" :> 1 @@ "feed" :> 6], "home" :> 5), TopSnapshot(M0, << >>)}}

Sweep == [name |-> "s", profile |-> "p", level |-> 0, axis |-> "failed_replica_slots",
          values |-> <<0, 100>>, targets |-> <<[endpoint |-> "home", slo |-> 90]>>]

Importance == [name |-> "i", profile |-> "p", method |-> "", level |-> 0, topK |-> 1, targets |-> <<"home">>,
               kinds |-> << >>, services |-> <<"a">>, edges |-> <<"ab">>]

\* Parameters from the analysis, from the profile, or from nowhere; -1 trials count as none.
InheritanceJobs ==
  {Job([A0 EXCEPT !.trials = t, !.fixedK = k, !.mode = mode, !.importance = i,
          !.profiles = <<[P0 EXCEPT !.trials = own, !.fixedK = ownK]>>]) :
     t \in {0, 30}, own \in {0, 20, -1}, k \in {0, 2}, ownK \in {0, 1}, i \in {<< >>, <<Importance>>},
     mode \in {"", "fixed_k_replica_slots"}}

Journeys(paths) == [version |-> "1.0", paths |-> paths]

PlainPolicy == [deprecated |-> <<[kind |-> "", name |-> "io.mb3r.bering.model", versions |-> << >>, action |-> ""]>>,
                kinds |-> << >>, allowed |-> << >>, deprecatedAction |-> ""]

\* Files and flags of every kind that loading or analysing may refuse.
OtherJobs ==
  {[Job(A0) EXCEPT !.policy = File(A0)], [Job(A0) EXCEPT !.analysis = Nil],
   [Job(A0) EXCEPT !.contractPolicy = PlainPolicy],
   [Job(A0) EXCEPT !.contractPolicy = [PlainPolicy EXCEPT !.deprecatedAction = "fail"]],
   [Job(A0) EXCEPT !.contractPolicy = [PlainPolicy EXCEPT !.kinds = <<"other">>]],
   [Job([A0 EXCEPT !.journeys = Journeys("home" :> <<<<"a", "b">>>>)]) EXCEPT !.seed = 0],
   [Job(A0) EXCEPT !.journeys = Journeys("home" :> <<<<"a", "c">>>>)],
   [Job(A0) EXCEPT !.analysis = File([A0 EXCEPT !.version = 0, !.profiles = << >>])],
   [Job(A0) EXCEPT !.analysis = Nil, !.policy = [File([EmptyAnalysis EXCEPT !.failure = 20]) EXCEPT !.mode = "fail"]],
   [Job(A0) EXCEPT !.analysis = Nil, !.policy = File(EmptyAnalysis), !.artifact = ModelFile(MEvidence), !.seed = 7],
   [Job(A0) EXCEPT !.analysis = Nil, !.policy = [File(EmptyAnalysis) EXCEPT !.global = 120]]}
  \cup {Job(a) : a \in {
     [A0 EXCEPT !.sweeps = <<Sweep>>, !.profiles = <<P0, [P0 EXCEPT !.name = "q"]>>],
     [A0 EXCEPT !.sweeps = <<[Sweep EXCEPT !.values = <<0, 500>>]>>],
     [A0 EXCEPT !.sweeps = <<[Sweep EXCEPT !.axis = "independent_replica_failure_probability"]>>,
                !.reliability = [NoReliability EXCEPT !.services = "a" :> 10]],
     [A0 EXCEPT !.sweeps = <<[Sweep EXCEPT !.targets = <<[endpoint |-> "x", slo |-> 90]>>]>>],
     [A0 EXCEPT !.importance = <<[Importance EXCEPT !.targets = <<"x">>]>>],
     [A0 EXCEPT !.profiles = <<P0, P0>>], [A0 EXCEPT !.version = 11, !.sweeps = <<Sweep>>],
     [A0 EXCEPT !.mode = "fixed_k_replica_slots", !.fixedK = 9],
     [A0 EXCEPT !.mode = "fixed_k_service_set", !.fixedK = 3],
     [A0 EXCEPT !.profiles = <<[P0 EXCEPT !.fault = "f"]>>],
     [A0 EXCEPT !.profiles = <<[P0 EXCEPT !.fault = "f"]>>, !.faultContract = [version |-> "", profiles |-> {"f"}]],
     [A0 EXCEPT !.reliability.services = "x" :> 10],
     [A0 EXCEPT !.predicates = [NoOverlay EXCEPT !.predicates = "home" :> {"x"}]],
     [A0 EXCEPT !.predicates = NoOverlay]}}
  \cup {[Job(A0) EXCEPT !.artifact = file] : file \in BadArtifacts}

-----------------------------------------------------------------------------
(* Commands that follow each other.                                          *)

Rule == [sweep |-> "s", endpoint |-> "home", minimum |-> Nil, regression |-> 0, baseline |-> "b", indeterminate |-> ""]

Guarded(path, trials) ==
  [A0 EXCEPT !.sweeps = <<Sweep>>, !.profiles = <<[P0 EXCEPT !.trials = trials]>>,
             !.baselines = <<[name |-> "b", path |-> path]>>,
             !.gate.mode = "fail", !.gate.boundaryRules = <<Rule>>]

Unguarded == [A0 EXCEPT !.sweeps = <<Sweep>>]

SharingJobs ==
  {Job(Unguarded), [Job(Unguarded) EXCEPT !.seed = 7], [Job(Unguarded) EXCEPT !.command = "simulate"],
   Job(Guarded("report.json", 20)), Job(Guarded("report.json", 30)), Job(Guarded("simulation.json", 20)),
   Job(Guarded("model.json", 20)),
   [Job(Guarded("model.json", 20)) EXCEPT !.artifact = Snapshot(MEvidence, "home" :> 5)],
   [Job(Guarded("model.json", 20)) EXCEPT !.artifact = TopSnapshot(Misnamed(MEvidence), "home" :> 5)],
   Job(Guarded("evidence", 20)), Job(Guarded("other model", 20)),
   Job([Guarded("evidence", 20) EXCEPT !.gate.boundaryRules =
          <<[Rule EXCEPT !.minimum = 100, !.indeterminate = "warn"]>>]),
   Job([Guarded("evidence", 20) EXCEPT !.baselines = <<[name |-> "b", path |-> "evidence"], [name |-> "b", path |-> "nowhere"]>>]),
   Job([Guarded("report.json", 20) EXCEPT !.gate.mode = "report"])}

MCStored ==
  [path \in {"evidence", "other model", "nowhere"} |->
     CASE path = "evidence" -> [kind |-> "artifact", run |-> 0, file |-> Snapshot(MEvidence, "home" :> 2)]
       [] path = "other model" -> [kind |-> "artifact", run |-> 0,
                                   file |-> ModelFile([M0 EXCEPT !.endpoints = {Endpoint("other")}])]
       [] path = "nowhere" -> [kind |-> "absent", run |-> 0]]

-----------------------------------------------------------------------------
(* Servers.                                                                  *)

Settings == [version |-> 0, artifactPath |-> "x", artifactMode |-> "", poll |-> Nil, maxItems |-> 0,
             analysisFile |-> Nil, analysis |-> A0]

Server(s) == [Job(A0) EXCEPT !.command = "serve", !.analysis = Nil, !.serve = s]

ServeJobs ==
  {Server(s) : s \in {Settings, [Settings EXCEPT !.analysisFile = File(A0)], [Settings EXCEPT !.poll = 0],
     [Settings EXCEPT !.analysis = EmptyAnalysis], [Settings EXCEPT !.analysisFile = File(EmptyAnalysis)],
     [Settings EXCEPT !.analysis.profiles = << >>]}}
  \cup {[Server(Settings) EXCEPT !.contractPolicy = PlainPolicy]}

FlagJobs ==
  {[Server(Nil) EXCEPT !.policy = File(EmptyAnalysis),
      !.flags = [artifactPath |-> "x", artifactMode |-> "auto", poll |-> poll]] : poll \in {0, 30}}

Single == ReliabilityJobs \cup WeightJobs \cup InheritanceJobs \cup OtherJobs \cup ServeJobs \cup FlagJobs

MCPlans ==
  {<<j>> : j \in Single \cup {[j EXCEPT !.command = "simulate"] : j \in OtherJobs}}
    \cup {<<j, k>> : j, k \in SharingJobs}

MCServePlans == {<<j>> : j \in ServeJobs \cup FlagJobs}
=============================================================================
