-------------------------- MODULE ArtifactContract --------------------------
(***************************************************************************)
(* Which artifact files are accepted, and as what: internal/modelcontract, *)
(* internal/artifact, the validation of internal/model, and the project's  *)
(* contract policy (internal/config/contract_policy.go).                   *)
(*                                                                         *)
(* A schema reference is a name, a version and a pin, which stands for the *)
(* URI and the digest together.  Probabilities are in hundredths.  Names   *)
(* are trimmed, "" is a blank one; Nil is a null pointer, an absent value  *)
(* and the result of an operation that returns an error.                   *)
(***************************************************************************)
EXTENDS Integers, Sequences, Functions

CONSTANT Nil

ASSUME NilAssumption == Nil \notin Int

Or(value, unset, default) == IF value = unset THEN default ELSE value

Percent      == 0 .. 100
InUnit(x)    == x \in Percent
OptInUnit(x) == x = Nil \/ InUnit(x)

\* What the configuration and the artifacts say of map-valued parameters.
ValidShares(f)  == "" \notin DOMAIN f /\ \A x \in DOMAIN f : InUnit(f[x])
ValidWeights(f) == "" \notin DOMAIN f /\ \A x \in DOMAIN f : f[x] \in Nat

-----------------------------------------------------------------------------
(* The contract registry.                                                  *)

Contract(kind) == [name |-> "io.mb3r.bering." \o kind, version |-> "1.3.0", pin |-> kind, kind |-> kind]
supportedContracts == {Contract("model"), Contract("snapshot")}

SchemaRef(contract) == [name |-> contract.name, version |-> contract.version, pin |-> contract.pin]

Resolve(schema) ==
  IF \E c \in supportedContracts : SchemaRef(c) = schema
  THEN CHOOSE c \in supportedContracts : SchemaRef(c) = schema ELSE Nil

-----------------------------------------------------------------------------
(* Models.  Labels, tags, identities and provenance are left out.          *)

ValidEvidence(live) == OptInUnit(live)

ValidService(s) ==
  /\ s.id # "" /\ s.replicas > 0 /\ ValidEvidence(s.live)
  /\ \A i \in DOMAIN s.placements : s.placements[i] > 0

\* "limits" are the timeouts, retry and breaker numbers of the resilience
\* policy, "errors" the observed error rate.
ValidEdge(m, e) ==
  /\ e.id # "" \/ m.schema.version # "1.3.0"
  /\ {e.from, e.to} \subseteq {s.id : s \in m.services}
  /\ e.kind \in {"sync", "async"}
  /\ ValidEvidence(e.live) /\ OptInUnit(e.errors)
  /\ \A i \in DOMAIN e.limits : e.limits[i] >= 0

\* The semantics: mandatory targets and the dependency modes to follow.
ValidEndpoint(m, e) ==
  /\ e.id # "" /\ e.predicate # ""
  /\ {e.entry} \cup e.targets \subseteq {s.id : s \in m.services}
  /\ e.modes \subseteq {"sync", "async"}

ValidModel(m) ==
  /\ m.services # {} /\ \A s \in m.services : ValidService(s)
  /\ \A e \in m.edges : ValidEdge(m, e)
  /\ \A e \in m.endpoints : ValidEndpoint(m, e)
  /\ ValidWeights(m.weights) /\ InUnit(m.confidence)

-----------------------------------------------------------------------------
(* Loading.  A file is read as a model, as a snapshot envelope and as the  *)
(* probe for its schema at once: a record with the fields of all three.    *)

sourceOrDefault(weights, source) == IF DOMAIN weights = {} THEN "default" ELSE source

Loaded(contract, model, weights, source) ==
  [contract |-> contract, model |-> model, weights |-> weights,
   weightsSource |-> sourceOrDefault(weights, source)]

loadModel(file, contract) ==
  IF ValidModel(file.model) THEN Loaded(contract, file.model, file.model.weights, "model") ELSE Nil

\* What is read of a field that a file does not have.
NoSchema == [name |-> "", version |-> "", pin |-> ""]
NoModel  == [services |-> {}, edges |-> {}, endpoints |-> {}, weights |-> << >>,
             schema |-> NoSchema, topology |-> "", confidence |-> 0]

\* A model on its own: the schema in its metadata is the model's, and nothing
\* in the file is an envelope's.
ModelFile(m) ==
  [schema |-> NoSchema, metadata |-> m.schema, model |-> m, nested |-> NoModel,
   topology |-> "", discovery |-> << >>]

\* Weights of the discovery section replace those of the model altogether.
SnapshotWeights(file) == IF DOMAIN file.discovery = {} THEN file.nested.weights ELSE file.discovery

loadSnapshot(file, contract) ==
  LET model == [file.nested EXCEPT !.topology = Or(@, "", file.topology)] IN
    IF Resolve(model.schema) # Nil /\ ValidModel(model) /\ ValidWeights(file.discovery)
    THEN Loaded(contract, model, SnapshotWeights(file),
                IF DOMAIN file.discovery = {} THEN "model" ELSE "snapshot")
    ELSE Nil

\* A schema at the top level must name the snapshot contract; otherwise the
\* one in the metadata decides.
Load(file) ==
  IF file = Nil THEN Nil
  ELSE LET top == file.schema.name # ""
           contract == Resolve(IF top THEN file.schema ELSE file.metadata)
       IN IF contract = Nil THEN Nil
          ELSE IF contract.kind = "snapshot" THEN loadSnapshot(file, contract)
          ELSE IF top THEN Nil ELSE loadModel(file, contract)

-----------------------------------------------------------------------------
(* The contract policy.                                                    *)

Matches(selector, contract) ==
  /\ selector.kind \in {"", contract.kind}
  /\ selector.name = contract.name
  /\ selector.versions = << >> \/ contract.version \in Range(selector.versions)

ValidSelector(s) ==
  /\ s.name # "" /\ s.kind \in {""} \cup {c.kind : c \in supportedContracts}
  /\ "" \notin Range(s.versions) /\ IsInjective(s.versions)
  /\ \E c \in supportedContracts : Matches(s, c)

NormalizedPolicy(p) == [p EXCEPT !.deprecatedAction = Or(@, "", "warn")]

ValidPolicy(p) ==
  /\ Range(p.kinds) \subseteq {c.kind : c \in supportedContracts} /\ IsInjective(p.kinds)
  /\ \A s \in Range(p.allowed) : ValidSelector(s)
  /\ NormalizedPolicy(p).deprecatedAction \in {"warn", "fail"}
  /\ \A s \in Range(p.deprecated) : ValidSelector(s) /\ s.action \in {"", "warn", "fail"}

Allowed(p, contract) ==
  /\ p.kinds = << >> \/ contract.kind \in Range(p.kinds)
  /\ p.allowed = << >> \/ \E s \in Range(p.allowed) : Matches(s, contract)

\* The first matching selector decides on a deprecated contract.
Evaluate(p, contract) ==
  LET hits     == {i \in DOMAIN p.deprecated : Matches(p.deprecated[i], contract)}
      selector == p.deprecated[CHOOSE i \in hits : \A j \in hits : i <= j]
      action   == Or(selector.action, "", NormalizedPolicy(p).deprecatedAction)
  IN IF ~Allowed(p, contract) THEN Nil
     ELSE IF hits = {} THEN [status |-> "current", action |-> "allow"]
     ELSE IF action = "fail" THEN Nil
     ELSE [status |-> "deprecated", action |-> action]

NoPolicy == [kinds |-> << >>, allowed |-> << >>, deprecatedAction |-> "", deprecated |-> << >>]
=============================================================================
