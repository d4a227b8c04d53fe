---------------------------- MODULE EndpointProofs ----------------------------
(***************************************************************************)
(* What the trials and Birnbaum analysis of EndpointSuccess say, for all   *)
(* models, predicates, endpoints and fault profiles.                       *)
(*                                                                         *)
(* The theorems are about the specification that the run checks: the steps *)
(* of EndpointSuccess under a fault profile.  Its invariant says that the  *)
(* endpoints' paths are those of the model, that success is what the       *)
(* sampled state gives, and that every comparison toggled one component of *)
(* that state.                                                             *)
(***************************************************************************)
EXTENDS FaultProfile, Induction

-----------------------------------------------------------------------------
(* Numbers and sequences.                                                  *)

LEMMA LeastMember ==
  ASSUME NEW S \in SUBSET Nat, S # {}
  PROVE  Min(S) \in S /\ \A x \in S : Min(S) <= x
BY LeastNatural DEF Min

LEMMA SeqOfMembers ==
  ASSUME NEW S, NEW n \in Nat
  PROVE  \A c : c \in SeqOf(S, n) <=> c \in Seq(S) /\ Len(c) <= n
<1>1. ASSUME NEW c, c \in SeqOf(S, n) PROVE c \in Seq(S) /\ Len(c) <= n
  BY <1>1 DEF SeqOf
<1>2. ASSUME NEW c \in Seq(S), Len(c) <= n PROVE c \in SeqOf(S, n)
  BY <1>2 DEF SeqOf
<1>. QED
  BY <1>1, <1>2

LEMMA LengthOf ==
  ASSUME NEW S, NEW s \in Seq(S), NEW n \in Nat, DOMAIN s = 1 .. n
  PROVE  Len(s) = n
<1>1. Len(s) \in Nat /\ DOMAIN s = 1 .. Len(s)
  OBVIOUS
<1>2. ASSUME Len(s) > n PROVE FALSE
  <2>1. Len(s) \in 1 .. Len(s) /\ Len(s) \notin 1 .. n
    BY <1>1, <1>2
  <2>. QED
    BY <1>1, <2>1
<1>3. ASSUME n > Len(s) PROVE FALSE
  <2>1. n \in 1 .. n /\ n \notin 1 .. Len(s)
    BY <1>1, <1>3
  <2>. QED
    BY <1>1, <2>1
<1>. QED
  BY <1>1, <1>2, <1>3

LEMMA LengthIs ==
  ASSUME NEW n \in Nat, NEW s, s = [i \in 1 .. n |-> s[i]]
  PROVE  Len(s) = n
<1> DEFINE S == {s[i] : i \in 1 .. n}
<1>1. s \in [1 .. n -> S] /\ DOMAIN s = 1 .. n
  OBVIOUS
<1> HIDE DEF S
<1>2. s \in Seq(S)
  BY <1>1
<1>. QED
  BY <1>1, <1>2, LengthOf

-----------------------------------------------------------------------------
(* The model and its endpoints.                                            *)

LEMMA Model ==
  ASSUME plan \in Plans
  PROVE  /\ Len(plan.edges) \in Nat /\ EdgeIDs = 1 .. Len(plan.edges)
         /\ \A e \in EdgeIDs : /\ plan.edges[e].from \in Services /\ plan.edges[e].to \in Services
                               /\ plan.edges[e].kind \in {"sync", "async"}
                               /\ plan.edges[e].blocking \in BOOLEAN
         /\ Len(plan.endpoints) \in Nat /\ EndpointIDs = 1 .. Len(plan.endpoints)
         /\ \A i \in EndpointIDs : /\ plan.endpoints[i] \in Endpoint
                                   /\ IsFiniteSet(plan.endpoints[i].predicate.children)
<1>1. plan.edges \in Seq(EdgeOf) /\ plan.endpoints \in Seq(Endpoint)
  BY PlanAssumption
<1>2. /\ Len(plan.edges) \in Nat /\ DOMAIN plan.edges = 1 .. Len(plan.edges)
      /\ \A e \in 1 .. Len(plan.edges) : plan.edges[e] \in EdgeOf
  BY <1>1
<1>3. /\ Len(plan.endpoints) \in Nat /\ DOMAIN plan.endpoints = 1 .. Len(plan.endpoints)
      /\ \A i \in 1 .. Len(plan.endpoints) : plan.endpoints[i] \in Endpoint
  BY <1>1
<1>4. \A i \in DOMAIN plan.endpoints : IsFiniteSet(plan.endpoints[i].predicate.children)
  BY PlanAssumption
<1>. QED
  BY <1>2, <1>3, <1>4 DEF EdgeIDs, EndpointIDs, EdgeOf

LEMMA Endpoints ==
  ASSUME NEW ep \in Endpoint
  PROVE  /\ ep.mode \in {"predicate", "journey", "edge_aware"} /\ ep.entry \in Services
         /\ ep.targets \subseteq Services /\ ep.modes \subseteq {"sync", "async"}
         /\ ep.required \subseteq Nat /\ ep.predicate \in Predicate
BY DEF Endpoint

LEMMA ServicesFinite ==
  NumServices \in Nat /\ IsFiniteSet(Services) /\ Cardinality(Services) = NumServices
BY PlanAssumption, FS_Interval DEF Services

\* What may be followed by the modes is what the docs select.
LEMMA AllowedSelected ==
  ASSUME plan \in Plans, NEW modes, NEW e \in EdgeIDs
  PROVE  edgeAllowedByModes(plan.edges[e], modes) <=> e \in Selected(modes)
BY Model DEF edgeAllowedByModes, Selected

\* The first of the edges between two services is one of them.
LEMMA FirstBetween ==
  ASSUME plan \in Plans, NEW modes, NEW a, NEW b, Between(modes, a, b) # {}
  PROVE  /\ Min(Between(modes, a, b)) \in Between(modes, a, b)
         /\ Min(Between(modes, a, b)) \in Selected(modes)
         /\ plan.edges[Min(Between(modes, a, b))].from = a
         /\ plan.edges[Min(Between(modes, a, b))].to = b
<1>1. Between(modes, a, b) \in SUBSET Nat
  BY Model DEF Between
<1>2. Min(Between(modes, a, b)) \in Between(modes, a, b)
  BY <1>1, LeastMember
<1>3. Min(Between(modes, a, b)) \in Selected(modes)
  BY <1>2, AllowedSelected DEF Between
<1>. QED
  BY <1>2, <1>3 DEF Between

-----------------------------------------------------------------------------
(* Paths.                                                                  *)

LEMMA ChainIs ==
  ASSUME NEW modes, NEW entry, NEW c \in Chains(modes, entry)
  PROVE  /\ c \in Seq(Services) /\ Len(c) \in Nat \ {0} /\ Len(c) <= NumServices
         /\ DOMAIN c = 1 .. Len(c)
         /\ \A i, j \in 1 .. Len(c) : c[i] = c[j] => i = j
         /\ c[1] = entry
         /\ \A i \in 1 .. Len(c) - 1 : Between(modes, c[i], c[i + 1]) # {}
<1>1. c \in SeqOf(Services, NumServices) /\ Len(c) > 0 /\ IsInjective(c) /\ c[1] = entry
      /\ \A i \in 1 .. Len(c) - 1 : Between(modes, c[i], c[i + 1]) # {}
  BY ServicesFinite DEF Chains
<1>2. c \in Seq(Services) /\ Len(c) <= NumServices
  BY <1>1, ServicesFinite, SeqOfMembers
<1>3. Len(c) \in Nat \ {0} /\ DOMAIN c = 1 .. Len(c)
  BY <1>1, <1>2
<1>. QED
  BY <1>1, <1>2, <1>3 DEF IsInjective

\* The edges of a path are of the modes, one for every step of its chain.
LEMMA PathIs ==
  ASSUME plan \in Plans, NEW modes, NEW entry, NEW c \in Chains(modes, entry)
  PROVE  /\ PathOf(modes, c).required = FALSE /\ PathOf(modes, c).services = c
         /\ DOMAIN PathOf(modes, c).edges = 1 .. Len(c) - 1
         /\ \A i \in 1 .. Len(c) - 1 :
              /\ PathOf(modes, c).edges[i] \in Between(modes, c[i], c[i + 1])
              /\ PathOf(modes, c).edges[i] \in Selected(modes)
<1>1. \A i \in 1 .. Len(c) - 1 : Between(modes, c[i], c[i + 1]) # {}
  BY ChainIs
<1>2. \A i \in 1 .. Len(c) - 1 :
        PathOf(modes, c).edges[i] = Min(Between(modes, c[i], c[i + 1]))
  BY DEF PathOf
<1>. QED
  BY <1>1, <1>2, FirstBetween DEF PathOf

\* No path of an endpoint has an edge that the endpoint ignores.
LEMMA PathEdgesSelected ==
  ASSUME plan \in Plans, NEW i \in EndpointIDs, EdgesResolve(plan.endpoints[i]),
         NEW g \in GroupsOf(plan.endpoints[i]), NEW path \in g
  PROVE  Range(path.edges) \cap IgnoredEdges(plan.endpoints[i]) = {}
<1> DEFINE ep == plan.endpoints[i]
<1>1. ep \in Endpoint
  BY Model
<1> HIDE DEF ep
<1>2. ASSUME NEW modes, NEW entry, NEW c \in Chains(modes, entry), path = PathOf(modes, c)
      PROVE  Range(path.edges) \subseteq Selected(modes)
  <2>1. /\ DOMAIN PathOf(modes, c).edges = 1 .. Len(c) - 1
        /\ \A j \in 1 .. Len(c) - 1 : PathOf(modes, c).edges[j] \in Selected(modes)
    BY PathIs
  <2>. QED
    BY <1>2, <2>1 DEF Range
<1>3. CASE ep.mode = "journey"
  <2>1. path \in JourneyPaths(ep)
    BY <1>3 DEF GroupsOf, ep
  <2>2. PICK c \in Chains({"sync"}, ep.entry) : path = PathOf({"sync"}, c)
    BY <2>1 DEF JourneyPaths
  <2>3. Range(path.edges) \subseteq Selected({"sync"})
    BY <1>2, <2>2
  <2>4. IgnoredEdges(ep) = EdgeIDs \ Selected({"sync"})
    BY <1>3 DEF IgnoredEdges
  <2>. QED
    BY <2>3, <2>4 DEF ep
<1>4. CASE ep.mode = "edge_aware"
  <2>1. g \in TargetPaths(ep)
    BY <1>4 DEF GroupsOf, ep
  <2>2. \/ \E t : path \in PathsTo(ep, t)
        \/ \E e \in ep.required : path = RequiredPath(e)
    BY <2>1 DEF TargetPaths
  <2>3. ASSUME NEW t, path \in PathsTo(ep, t) PROVE Range(path.edges) \subseteq Selected(ep.modes)
    <3>1. PICK c \in Chains(ep.modes, ep.entry) : path = PathOf(ep.modes, c)
      BY <2>3 DEF PathsTo
    <3>. QED
      BY <1>2, <3>1
  <2>4. ASSUME NEW e \in ep.required, path = RequiredPath(e)
        PROVE  Range(path.edges) \subseteq Selected(ep.modes)
    <3>1. e \in EdgeIDs /\ edgeAllowedByModes(plan.edges[e], ep.modes)
      BY <1>4 DEF EdgesResolve, RequirableEdges, ep
    <3>2. Range(path.edges) = {e}
      BY <2>4 DEF RequiredPath, Range
    <3>. QED
      BY <3>1, <3>2, AllowedSelected
  <2>5. Range(path.edges) \subseteq Selected(ep.modes)
    BY <2>2, <2>3, <2>4
  <2>6. IgnoredEdges(ep) = EdgeIDs \ Selected(ep.modes)
    BY <1>4 DEF IgnoredEdges
  <2>. QED
    BY <2>5, <2>6 DEF ep
<1>5. CASE ep.mode = "predicate"
  BY <1>5 DEF GroupsOf, ep
<1>. QED
  BY <1>1, <1>3, <1>4, <1>5, Endpoints

-----------------------------------------------------------------------------
(* More that is up fails nothing.                                          *)

\* A smaller state of the same trial.
Below(low, high) == low.services \subseteq high.services /\ low.edges \subseteq high.edges

LEMMA CombineGrows ==
  ASSUME NEW def, NEW m \in Nat, NEW n \in Nat, NEW of \in Nat, m <= n, n <= of, def.k \in Nat,
         Combine(def, m, of)
  PROVE  Combine(def, n, of)
BY DEF Combine

LEMMA PartSizes ==
  ASSUME NEW S, IsFiniteSet(S), NEW A \in SUBSET S, NEW B \in SUBSET A
  PROVE  /\ Cardinality(A) \in Nat /\ Cardinality(B) \in Nat /\ Cardinality(S) \in Nat
         /\ Cardinality(B) <= Cardinality(A) /\ Cardinality(A) <= Cardinality(S)
<1>1. IsFiniteSet(A) /\ Cardinality(A) <= Cardinality(S)
  BY FS_Subset
<1>2. IsFiniteSet(B) /\ Cardinality(B) <= Cardinality(A)
  BY <1>1, FS_Subset
<1>. QED
  BY <1>1, <1>2, FS_CardinalityType

LEMMA LeafGrows ==
  ASSUME NEW def \in Leaf, NEW down, NEW up, down \subseteq up, EvaluateLeaf(def, down)
  PROVE  EvaluateLeaf(def, up)
<1>1. def.services \subseteq Services /\ def.k \in Nat
  BY DEF Leaf
<1>2. IsFiniteSet(def.services)
  BY <1>1, ServicesFinite, FS_Subset
<1>3. def.services \cap up \in SUBSET def.services /\ def.services \cap down \in SUBSET (def.services \cap up)
  OBVIOUS
<1>4. /\ Cardinality(def.services \cap up) \in Nat /\ Cardinality(def.services \cap down) \in Nat
      /\ Cardinality(def.services) \in Nat
      /\ Cardinality(def.services \cap down) <= Cardinality(def.services \cap up)
      /\ Cardinality(def.services \cap up) <= Cardinality(def.services)
  BY <1>2, <1>3, PartSizes
<1>. QED
  BY <1>1, <1>4, CombineGrows DEF EvaluateLeaf

LEMMA PredicateGrows ==
  ASSUME NEW def \in Predicate, IsFiniteSet(def.children), NEW down, NEW up, down \subseteq up,
         Evaluate(def, down)
  PROVE  Evaluate(def, up)
<1>1. def.services \subseteq Services /\ def.k \in Nat /\ def.children \subseteq Leaf
  BY DEF Predicate
<1>2. IsFiniteSet(def.services)
  BY <1>1, ServicesFinite, FS_Subset
<1> DEFINE good(set) == {c \in def.children : EvaluateLeaf(c, set)}
<1>3. good(up) \in SUBSET def.children /\ good(down) \in SUBSET good(up)
  BY <1>1, LeafGrows
<1>4. /\ Cardinality(good(up)) \in Nat /\ Cardinality(good(down)) \in Nat
      /\ Cardinality(def.children) \in Nat
      /\ Cardinality(good(down)) <= Cardinality(good(up))
      /\ Cardinality(good(up)) <= Cardinality(def.children)
  <2> HIDE DEF good
  <2>. QED
    BY <1>3, PartSizes
<1>5. def.services \cap up \in SUBSET def.services /\ def.services \cap down \in SUBSET (def.services \cap up)
  OBVIOUS
<1>6. /\ Cardinality(def.services \cap up) \in Nat /\ Cardinality(def.services \cap down) \in Nat
      /\ Cardinality(def.services) \in Nat
      /\ Cardinality(def.services \cap down) <= Cardinality(def.services \cap up)
      /\ Cardinality(def.services \cap up) <= Cardinality(def.services)
  BY <1>2, <1>5, PartSizes
<1> DEFINE low == Cardinality(def.services \cap down) + Cardinality(good(down))
           high == Cardinality(def.services \cap up) + Cardinality(good(up))
           all == Cardinality(def.services) + Cardinality(def.children)
<1>7. low \in Nat /\ high \in Nat /\ all \in Nat /\ low <= high /\ high <= all
  <2> HIDE DEF good
  <2>. QED
    BY <1>4, <1>6
<1>8. Combine(def, low, all)
  BY DEF Evaluate
<1> HIDE DEF low, high, all
<1>9. Combine(def, high, all)
  BY <1>1, <1>7, <1>8, CombineGrows
<1>. QED
  BY <1>9 DEF Evaluate, high, all

LEMMA SucceedingGrows ==
  ASSUME plan \in Plans, NEW low, NEW high, Below(low, high)
  PROVE  Succeeding(low) \subseteq Succeeding(high)
<1> SUFFICES ASSUME NEW i \in EndpointIDs, EndpointSucceeds(i, low)
             PROVE  EndpointSucceeds(i, high)
  BY DEF Succeeding
<1>1. low.services \subseteq high.services /\ low.edges \subseteq high.edges
  BY DEF Below
<1>2. CASE plan.endpoints[i].mode = "predicate"
  <2>1. plan.endpoints[i].predicate \in Predicate /\ IsFiniteSet(plan.endpoints[i].predicate.children)
    BY Model, Endpoints
  <2>2. Evaluate(plan.endpoints[i].predicate, low.services)
    BY <1>2 DEF EndpointSucceeds
  <2>3. Evaluate(plan.endpoints[i].predicate, high.services)
    BY <1>1, <2>1, <2>2, PredicateGrows
  <2>. QED
    BY <1>2, <2>3 DEF EndpointSucceeds
<1>3. CASE plan.endpoints[i].mode # "predicate"
  <2>1. \A path : PathSucceeds(path, low) => PathSucceeds(path, high)
    BY <1>1 DEF PathSucceeds
  <2>. QED
    BY <1>3, <2>1 DEF EndpointSucceeds
<1>. QED
  BY <1>2, <1>3

-----------------------------------------------------------------------------
(* The invariant.                                                          *)

PlanInv ==
  /\ plan \in Plans
  /\ sampled \in [services : SUBSET Services, edges : SUBSET EdgeIDs]

\* After the context was built, paths are those of the model and edges resolve.
ContextInv ==
  pc \in {"trial", "importance", "up", "down", "nonmonotonic"} =>
    /\ \A i \in EndpointIDs : EdgesResolve(plan.endpoints[i])
    /\ groups = [i \in EndpointIDs |-> GroupsOf(plan.endpoints[i])]
    /\ diagnostic = [i \in EndpointIDs |-> DiagnosticPaths(plan.endpoints[i])]
    /\ ~plan.brownouts => viable = UNION {diagnostic[i] : i \in EndpointIDs}

TrialInv ==
  pc \in {"importance", "up", "down", "nonmonotonic"} => success = Succeeding(sampled)

\* A comparison toggles one component of the sampled state.
Toggles(comparison) ==
  \E c \in Components :
    comparison = [component |-> c, up   |-> Succeeding(With(sampled, c, TRUE)),
                                   down |-> Succeeding(With(sampled, c, FALSE))]

Comparisons == [component : Components, up : SUBSET EndpointIDs, down : SUBSET EndpointIDs]

\* Complete are the comparisons of the components before the current one.
PairedInv ==
  /\ paired \in Seq(Comparisons)
  /\ \A p \in 1 .. component - 1 : p \in DOMAIN paired /\ Toggles(paired[p])
  /\ component # 1 => pc \in {"importance", "up", "down"}

\* Those of the endpoints that were asked, the first n.
UpTo(set, n) == {i \in set : i <= n}

\* Component c of a sample is toggled in the world w, and value remembered.
Toggling(sample, c, w, value) ==
  /\ value = IsUp(sample, c)
  /\ w \in {sample, With(sample, c, TRUE), With(sample, c, FALSE)}

\* The endpoints that succeed with the component up and down.
High == Succeeding(With(sampled, Toggled, TRUE))
Low  == Succeeding(With(sampled, Toggled, FALSE))

ToggledInv ==
  /\ component <= Len(ComponentSeq) /\ Len(paired) = component
  /\ Toggling(sampled, Toggled, world, original)
  /\ turn \in 1 .. Len(plan.endpoints) + 1 /\ (pc = "down" => turn \in EndpointIDs)
  /\ paired[component] = [component |-> Toggled,
                          up   |-> UpTo(High, IF pc = "down" THEN turn ELSE turn - 1),
                          down |-> UpTo(Low, turn - 1)]

WorldInv ==
  /\ pc \notin {"up", "down"} => world = sampled /\ Len(paired) = component - 1
  /\ pc \in {"up", "down"} => ToggledInv

EndpointInv ==
  /\ pc \in {"context", "trial", "importance", "up", "down", "error"}
  /\ component \in Nat \ {0}
  /\ PlanInv
  /\ ContextInv
  /\ TrialInv
  /\ PairedInv
  /\ WorldInv

LEMMA ComponentsInOrder ==
  ASSUME plan \in Plans
  PROVE  /\ Len(ComponentSeq) \in Nat
         /\ \A n \in 1 .. Len(ComponentSeq) : ComponentSeq[n] \in Components
<1> DEFINE s == [i \in Services |-> [kind |-> "service", id |-> i]]
           e == [j \in EdgeIDs |-> [kind |-> "edge", id |-> j]]
<1>1. /\ NumServices \in Nat /\ Services = 1 .. NumServices
      /\ Len(plan.edges) \in Nat /\ EdgeIDs = 1 .. Len(plan.edges)
  BY ServicesFinite, Model DEF Services
<1>2. s \in Seq(Components) /\ e \in Seq(Components)
  BY <1>1 DEF Components
<1> HIDE DEF s, e
<1>3. s \o e \in Seq(Components)
  BY <1>2
<1>4. ComponentSeq = s \o e
  BY DEF ComponentSeq, s, e
<1>. QED
  BY <1>3, <1>4

LEMMA ToggledBelow ==
  ASSUME NEW state, NEW c
  PROVE  Below(With(state, c, FALSE), With(state, c, TRUE))
BY DEF Below, With

\* Only the last of several values that a component is given counts.
LEMMA GivenAgain ==
  ASSUME NEW state, NEW c, NEW before \in BOOLEAN, NEW after \in BOOLEAN
  PROVE  With(With(state, c, before), c, after) = With(state, c, after)
<1> DEFINE In(set, kind, up) == IF c.kind # kind THEN set ELSE IF up THEN set \cup {c.id} ELSE set \ {c.id}
<1>1. ASSUME NEW s, NEW up \in BOOLEAN
      PROVE  With(s, c, up) = [services |-> In(s.services, "service", up), edges |-> In(s.edges, "edge", up)]
  BY DEF With
<1>2. \A set, kind : In(In(set, kind, before), kind, after) = In(set, kind, after)
  OBVIOUS
<1> HIDE DEF In
<1>3. /\ With(state, c, before).services = In(state.services, "service", before)
      /\ With(state, c, before).edges = In(state.edges, "edge", before)
  BY <1>1
<1>. QED
  BY <1>1, <1>2, <1>3

\* The value that a component has already changes nothing.
LEMMA GivenItsOwn ==
  ASSUME plan \in Plans, sampled \in [services : SUBSET Services, edges : SUBSET EdgeIDs],
         NEW c \in Components
  PROVE  /\ IsUp(sampled, c) => With(sampled, c, TRUE) = sampled
         /\ ~IsUp(sampled, c) => With(sampled, c, FALSE) = sampled
<1>1. c.kind \in {"service", "edge"}
  BY DEF Components
<1>2. IsUp(sampled, c) =>
        /\ (IF c.kind # "service" THEN sampled.services ELSE sampled.services \cup {c.id}) = sampled.services
        /\ (IF c.kind # "edge" THEN sampled.edges ELSE sampled.edges \cup {c.id}) = sampled.edges
  BY <1>1 DEF IsUp
<1>3. ~IsUp(sampled, c) =>
        /\ (IF c.kind # "service" THEN sampled.services ELSE sampled.services \ {c.id}) = sampled.services
        /\ (IF c.kind # "edge" THEN sampled.edges ELSE sampled.edges \ {c.id}) = sampled.edges
  BY <1>1 DEF IsUp
<1>. QED
  BY <1>2, <1>3 DEF With

-----------------------------------------------------------------------------
(* The steps.                                                              *)

\* Judgements are of the model, of the paths and of the sampled state.
LEMMA JudgedAlike ==
  ASSUME plan' = plan, groups' = groups, viable' = viable, sampled' = sampled
  PROVE  /\ EdgeIDs' = EdgeIDs /\ EndpointIDs' = EndpointIDs /\ Components' = Components
         /\ ComponentSeq' = ComponentSeq
         /\ Succeeding(sampled)' = Succeeding(sampled)
         /\ \A comparison : Toggles(comparison)' <=> Toggles(comparison)
         /\ component' = component => Toggled' = Toggled /\ High' = High /\ Low' = Low
<1>1. EdgeIDs' = EdgeIDs /\ EndpointIDs' = EndpointIDs
  BY DEF EdgeIDs, EndpointIDs
<1>2. Components' = Components /\ ComponentSeq' = ComponentSeq
  BY <1>1 DEF Components, ComponentSeq
<1>3. Succeeding(sampled)' = Succeeding(sampled)
  BY <1>1 DEF Succeeding, EndpointSucceeds, PathSucceeds
<1>4. ASSUME NEW c, NEW up \in BOOLEAN
      PROVE  Succeeding(With(sampled, c, up))' = Succeeding(With(sampled, c, up))
  BY <1>1 DEF Succeeding, EndpointSucceeds, PathSucceeds
<1>5. \A comparison : Toggles(comparison)' <=> Toggles(comparison)
  BY <1>2, <1>4 DEF Toggles
<1>6. ASSUME component' = component PROVE Toggled' = Toggled /\ High' = High /\ Low' = Low
  <2>1. Toggled' = Toggled
    BY <1>2, <1>6 DEF Toggled
  <2>2. ASSUME NEW c, c = Toggled, c = Toggled' PROVE High' = High /\ Low' = Low
    BY <1>4, <2>2 DEF High, Low
  <2>. QED
    BY <2>1, <2>2
<1>. QED
  BY <1>1, <1>2, <1>3, <1>5, <1>6

LEMMA InitEndpoint ==
  ASSUME Init
  PROVE  EndpointInv
<1>1. PairedInv
  BY DEF Init, PairedInv
<1>2. PlanInv
  BY DEF Init, PlanInv
<1>3. WorldInv
  BY DEF Init, WorldInv
<1>. QED
  BY <1>1, <1>2, <1>3 DEF Init, EndpointInv, ContextInv, TrialInv

LEMMA ContextFailsKeeps ==
  ASSUME EndpointInv, ContextFails
  PROVE  EndpointInv'
<1>1. /\ pc' = "error" /\ pc = "context" /\ PlanInv /\ PairedInv /\ WorldInv /\ component \in Nat \ {0}
      /\ UNCHANGED <<context, results, toggling>>
  BY DEF EndpointInv, ContextFails
<1>2. UNCHANGED <<plan, groups, diagnostic, viable, sampled, world, component, paired>>
  BY <1>1 DEF context, results, toggling
<1>3. EdgeIDs' = EdgeIDs /\ EndpointIDs' = EndpointIDs /\ Components' = Components
      /\ \A comparison : Toggles(comparison)' <=> Toggles(comparison)
  BY <1>2, JudgedAlike
<1>4. PlanInv'
  BY <1>1, <1>2, <1>3 DEF PlanInv
<1>5. PairedInv'
  BY <1>1, <1>2, <1>3 DEF PairedInv, Comparisons
<1>6. WorldInv'
  BY <1>1, <1>2 DEF WorldInv
<1>. QED
  BY <1>1, <1>2, <1>4, <1>5, <1>6 DEF EndpointInv, ContextInv, TrialInv

\* The paths of an endpoint are those of the model.
LEMMA PathsAlike ==
  ASSUME plan' = plan
  PROVE  /\ EdgeIDs' = EdgeIDs /\ EndpointIDs' = EndpointIDs
         /\ \A i : EdgesResolve(plan.endpoints[i])' <=> EdgesResolve(plan.endpoints[i])
         /\ \A i : GroupsOf(plan.endpoints[i])' = GroupsOf(plan.endpoints[i])
         /\ \A i : DiagnosticPaths(plan.endpoints[i])' = DiagnosticPaths(plan.endpoints[i])
<1>1. EdgeIDs' = EdgeIDs /\ EndpointIDs' = EndpointIDs
  BY DEF EdgeIDs, EndpointIDs
<1>2. ASSUME NEW modes, NEW a, NEW b PROVE Between(modes, a, b)' = Between(modes, a, b)
  BY <1>1 DEF Between
<1>3. ASSUME NEW modes, NEW entry PROVE Chains(modes, entry)' = Chains(modes, entry)
  BY <1>2 DEF Chains
<1>4. ASSUME NEW modes, NEW c PROVE PathOf(modes, c)' = PathOf(modes, c)
  BY <1>2 DEF PathOf
<1>5. ASSUME NEW i PROVE JourneyPaths(plan.endpoints[i])' = JourneyPaths(plan.endpoints[i])
  BY <1>2, <1>3, <1>4 DEF JourneyPaths
<1>6. ASSUME NEW i, NEW t PROVE PathsTo(plan.endpoints[i], t)' = PathsTo(plan.endpoints[i], t)
  BY <1>3, <1>4 DEF PathsTo
<1>7. ASSUME NEW i PROVE TargetPaths(plan.endpoints[i])' = TargetPaths(plan.endpoints[i])
  BY <1>6 DEF TargetPaths, RequiredPath
<1>8. ASSUME NEW i PROVE EdgesResolve(plan.endpoints[i])' <=> EdgesResolve(plan.endpoints[i])
  BY <1>1, <1>6 DEF EdgesResolve, RequirableEdges
<1>9. ASSUME NEW i PROVE GroupsOf(plan.endpoints[i])' = GroupsOf(plan.endpoints[i])
  BY <1>5, <1>7 DEF GroupsOf
<1>10. ASSUME NEW i PROVE DiagnosticPaths(plan.endpoints[i])' = DiagnosticPaths(plan.endpoints[i])
  BY <1>5, <1>7 DEF DiagnosticPaths
<1>. QED
  BY <1>1, <1>8, <1>9, <1>10

LEMMA ContextKeeps ==
  ASSUME EndpointInv, BuildContext
  PROVE  EndpointInv'
<1>1. /\ pc' = "trial" /\ pc = "context" /\ PlanInv /\ PairedInv /\ WorldInv /\ component \in Nat \ {0}
      /\ UNCHANGED <<plan, results, toggling>>
      /\ \A i \in EndpointIDs : EdgesResolve(plan.endpoints[i])
      /\ groups' = [i \in EndpointIDs |-> GroupsOf(plan.endpoints[i])]
      /\ diagnostic' = [i \in EndpointIDs |-> DiagnosticPaths(plan.endpoints[i])]
      /\ ~plan.brownouts => viable' = UNION {diagnostic'[i] : i \in EndpointIDs}
  BY DEF EndpointInv, BuildContext
<1>2. UNCHANGED <<plan, sampled, world, component, paired>>
  BY <1>1 DEF results, toggling
<1>3. EdgeIDs' = EdgeIDs /\ EndpointIDs' = EndpointIDs
  BY <1>1 DEF EdgeIDs, EndpointIDs
<1>4. PlanInv'
  BY <1>1, <1>2, <1>3 DEF PlanInv
<1>5. component = 1 /\ Components' = Components
  BY <1>1, <1>3 DEF PairedInv, Components
<1>6. PairedInv'
  BY <1>1, <1>2, <1>3, <1>5 DEF PairedInv, Comparisons
<1>7. ContextInv'
  BY <1>1, PathsAlike DEF ContextInv
<1>8. WorldInv'
  BY <1>1, <1>2 DEF WorldInv
<1>. QED
  BY <1>1, <1>2, <1>4, <1>6, <1>7, <1>8 DEF EndpointInv, TrialInv

LEMMA ContextStays ==
  ASSUME ContextInv, UNCHANGED <<plan, groups, diagnostic, viable>>,
         pc \in {"trial", "importance", "up", "down", "nonmonotonic"}
  PROVE  ContextInv'
BY PathsAlike DEF ContextInv

LEMMA TrialKeeps ==
  ASSUME EndpointInv, RunTrial
  PROVE  EndpointInv'
<1>1. /\ pc' = "importance" /\ pc = "trial"
      /\ PlanInv /\ ContextInv /\ PairedInv /\ WorldInv /\ component \in Nat \ {0}
      /\ UNCHANGED <<plan, groups, diagnostic, viable, component, paired>>
      /\ sampled' \in [services : SUBSET Services, edges : SUBSET EdgeIDs]
      /\ world' = sampled' /\ success' = Succeeding(sampled')
  BY DEF EndpointInv, RunTrial, context
<1>2. EdgeIDs' = EdgeIDs /\ EndpointIDs' = EndpointIDs
  BY <1>1, PathsAlike
<1>3. component = 1 /\ Len(paired) = component - 1
  BY <1>1 DEF PairedInv, WorldInv
<1>4. PlanInv'
  BY <1>1, <1>2 DEF PlanInv
<1>5. ContextInv'
  BY <1>1, ContextStays
<1>6. PairedInv'
  <2>1. Components' = Components
    BY <1>2 DEF Components
  <2>. QED
    BY <1>1, <1>2, <1>3, <2>1 DEF PairedInv, Comparisons
<1>7. TrialInv'
  <2>1. Succeeding(sampled)' = Succeeding(sampled')
    BY <1>1, <1>2 DEF Succeeding, EndpointSucceeds, PathSucceeds
  <2>. QED
    BY <1>1, <2>1 DEF TrialInv
<1>8. WorldInv'
  BY <1>1, <1>3 DEF WorldInv
<1>. QED
  BY <1>1, <1>4, <1>5, <1>6, <1>7, <1>8 DEF EndpointInv

\* The steps of runBirnbaum leave the model, the paths and the trial alone.
LEMMA ToggleContext ==
  ASSUME PlanInv, ContextInv, TrialInv, UNCHANGED <<context, results>>,
         pc \in {"importance", "up", "down"}, pc' \in {"importance", "up", "down"}
  PROVE  /\ PlanInv' /\ ContextInv' /\ TrialInv'
         /\ EndpointIDs' = EndpointIDs /\ Comparisons' = Comparisons
         /\ plan' = plan /\ sampled' = sampled
         /\ ComponentSeq' = ComponentSeq
         /\ \A comparison : Toggles(comparison)' <=> Toggles(comparison)
         /\ component' = component => Toggled' = Toggled /\ High' = High /\ Low' = Low
<1>1. UNCHANGED <<plan, groups, diagnostic, viable, sampled, success>>
  BY DEF context, results
<1>2. /\ EdgeIDs' = EdgeIDs /\ EndpointIDs' = EndpointIDs /\ Components' = Components
      /\ ComponentSeq' = ComponentSeq
      /\ Succeeding(sampled)' = Succeeding(sampled)
      /\ \A comparison : Toggles(comparison)' <=> Toggles(comparison)
      /\ component' = component => Toggled' = Toggled /\ High' = High /\ Low' = Low
  BY <1>1, JudgedAlike
<1>3. PlanInv'
  BY <1>1, <1>2 DEF PlanInv
<1>4. ContextInv'
  BY <1>1, ContextStays
<1>5. TrialInv'
  BY <1>1, <1>2 DEF TrialInv
<1>. QED
  BY <1>1, <1>2, <1>3, <1>4, <1>5 DEF Comparisons

\* Where a component is toggled, the world is the sample but for it.
LEMMA WorldOf ==
  ASSUME PlanInv, NEW c \in Components, NEW w, NEW value, Toggling(sampled, c, w, value)
  PROVE  /\ With(w, c, TRUE) = With(sampled, c, TRUE)
         /\ With(w, c, FALSE) = With(sampled, c, FALSE)
         /\ With(w, c, value) = sampled
<1>1. w \in {sampled, With(sampled, c, TRUE), With(sampled, c, FALSE)} /\ value = IsUp(sampled, c)
  BY DEF Toggling
<1>2. ASSUME NEW up \in BOOLEAN PROVE With(w, c, up) = With(sampled, c, up)
  BY <1>1, GivenAgain
<1>3. value \in BOOLEAN
  BY <1>1 DEF IsUp
<1>4. With(sampled, c, value) = sampled
  <2>1. CASE value = TRUE
    BY <1>1, <2>1, GivenItsOwn DEF PlanInv
  <2>2. CASE value = FALSE
    BY <1>1, <2>2, GivenItsOwn DEF PlanInv
  <2>. QED
    BY <1>3, <2>1, <2>2
<1>. QED
  BY <1>2, <1>3, <1>4

\* One more endpoint is asked.
LEMMA OneMore ==
  ASSUME plan \in Plans, NEW state, NEW n \in EndpointIDs
  PROVE  UpTo(Succeeding(state), n) =
           IF EndpointSucceeds(n, state) THEN UpTo(Succeeding(state), n - 1) \cup {n}
           ELSE UpTo(Succeeding(state), n - 1)
<1>1. EndpointIDs \in SUBSET Nat
  BY Model
<1>2. Succeeding(state) \subseteq EndpointIDs /\ (n \in Succeeding(state) <=> EndpointSucceeds(n, state))
  BY DEF Succeeding
<1>3. \A i \in EndpointIDs : i <= n <=> i <= n - 1 \/ i = n
  BY <1>1
<1>. QED
  BY <1>2, <1>3 DEF UpTo

LEMMA NoneAndAll ==
  ASSUME plan \in Plans, NEW state
  PROVE  /\ UpTo(Succeeding(state), 0) = {}
         /\ UpTo(Succeeding(state), Len(plan.endpoints)) = Succeeding(state)
<1>1. EndpointIDs = 1 .. Len(plan.endpoints) /\ Len(plan.endpoints) \in Nat
  BY Model
<1>2. Succeeding(state) \subseteq EndpointIDs
  BY DEF Succeeding
<1>3. \A i \in EndpointIDs : ~(i <= 0) /\ i <= Len(plan.endpoints)
  BY <1>1
<1>. QED
  BY <1>2, <1>3 DEF UpTo

LEMMA TakeKeeps ==
  ASSUME EndpointInv, TakeComponent
  PROVE  EndpointInv'
<1> DEFINE new == [component |-> Toggled, up |-> {}, down |-> {}]
<1>1. /\ pc = "importance" /\ pc' = "up" /\ component <= Len(ComponentSeq) /\ component \in Nat \ {0}
      /\ PlanInv /\ ContextInv /\ TrialInv /\ PairedInv /\ WorldInv
      /\ original' = IsUp(world, Toggled) /\ turn' = 1 /\ paired' = Append(paired, new)
      /\ UNCHANGED <<context, results>> /\ world' = world /\ component' = component
  BY DEF EndpointInv, TakeComponent
<1>2. /\ PlanInv' /\ ContextInv' /\ TrialInv' /\ Comparisons' = Comparisons /\ ComponentSeq' = ComponentSeq
      /\ plan' = plan /\ sampled' = sampled
      /\ \A comparison : Toggles(comparison)' <=> Toggles(comparison)
      /\ Toggled' = Toggled /\ High' = High /\ Low' = Low
  BY <1>1, ToggleContext
<1>3. Toggled \in Components
  BY <1>1, ComponentsInOrder DEF PlanInv, Toggled
<1>4. world = sampled /\ Len(paired) = component - 1 /\ paired \in Seq(Comparisons)
  BY <1>1 DEF WorldInv, PairedInv
<1>5. new \in Comparisons
  BY <1>3 DEF Comparisons
<1>6. /\ paired' \in Seq(Comparisons) /\ Len(paired') = component /\ paired'[component] = new
      /\ \A p \in 1 .. component - 1 : p \in DOMAIN paired' /\ paired'[p] = paired[p]
  <2> HIDE DEF new
  <2>. QED
    BY <1>1, <1>4, <1>5
<1>7. PairedInv'
  <2>1. \A p \in 1 .. component - 1 : Toggles(paired[p])
    BY <1>1 DEF PairedInv
  <2>2. \A p \in 1 .. component - 1 : Toggles(paired'[p])
    BY <1>6, <2>1
  <2>3. \A p \in 1 .. component - 1 : Toggles(paired[p])'
    BY <1>2, <2>2
  <2>. QED
    BY <1>1, <1>2, <1>6, <2>3 DEF PairedInv
<1>8. UpTo(High, 0) = {} /\ UpTo(Low, 0) = {}
  BY <1>1, NoneAndAll DEF PlanInv, High, Low
<1>9. 1 \in 1 .. Len(plan.endpoints) + 1 /\ 1 - 1 = 0
  BY <1>1, Model DEF PlanInv
<1>10. Toggling(sampled, Toggled, world', original')
  BY <1>1, <1>4 DEF Toggling
<1>11. ToggledInv'
  BY <1>1, <1>2, <1>6, <1>8, <1>9, <1>10 DEF ToggledInv
<1>12. WorldInv'
  BY <1>1, <1>11 DEF WorldInv
<1>. QED
  BY <1>1, <1>2, <1>7, <1>12 DEF EndpointInv

\* The current entry of the list changes, those before it stay.
LEMMA CurrentChanges ==
  ASSUME PairedInv, component \in Nat \ {0}, Len(paired) = component, component' = component,
         NEW entry, entry \in Comparisons, paired' = [paired EXCEPT ![component] = entry],
         pc' \in {"importance", "up", "down"}, Comparisons' = Comparisons,
         \A comparison : Toggles(comparison)' <=> Toggles(comparison)
  PROVE  PairedInv' /\ Len(paired') = component /\ paired'[component] = entry
<1>1. paired \in Seq(Comparisons) /\ \A p \in 1 .. component - 1 : p \in DOMAIN paired /\ Toggles(paired[p])
  BY DEF PairedInv
<1>2. /\ paired' \in Seq(Comparisons) /\ Len(paired') = component /\ paired'[component] = entry
      /\ \A p \in 1 .. component - 1 : p \in DOMAIN paired' /\ paired'[p] = paired[p]
  BY <1>1
<1>3. \A p \in 1 .. component - 1 : Toggles(paired'[p])
  BY <1>1, <1>2
<1>4. \A p \in 1 .. component - 1 : Toggles(paired[p])'
  BY <1>3
<1>. QED
  BY <1>2, <1>4 DEF PairedInv

LEMMA UpKeeps ==
  ASSUME EndpointInv, ToggleUp
  PROVE  EndpointInv'
<1> DEFINE entry == [component |-> Toggled, up |-> UpTo(High, turn), down |-> UpTo(Low, turn - 1)]
<1>1. /\ pc = "up" /\ pc' = "down" /\ turn \in EndpointIDs /\ component \in Nat \ {0}
      /\ PlanInv /\ ContextInv /\ TrialInv /\ PairedInv /\ WorldInv
      /\ world' = With(world, Toggled, TRUE)
      /\ paired' = [paired EXCEPT ![component].up = Counted(@, world')]
      /\ UNCHANGED <<context, results>> /\ component' = component /\ original' = original /\ turn' = turn
  BY DEF EndpointInv, ToggleUp
<1>2. /\ PlanInv' /\ ContextInv' /\ TrialInv' /\ Comparisons' = Comparisons /\ ComponentSeq' = ComponentSeq
      /\ plan' = plan /\ sampled' = sampled /\ EndpointIDs' = EndpointIDs
      /\ \A comparison : Toggles(comparison)' <=> Toggles(comparison)
      /\ Toggled' = Toggled /\ High' = High /\ Low' = Low
  BY <1>1, ToggleContext
<1>3. /\ component <= Len(ComponentSeq) /\ Len(paired) = component
      /\ Toggling(sampled, Toggled, world, original) /\ turn \in 1 .. Len(plan.endpoints) + 1
      /\ paired[component] = [component |-> Toggled, up |-> UpTo(High, turn - 1), down |-> UpTo(Low, turn - 1)]
  BY <1>1 DEF WorldInv, ToggledInv
<1>4. Toggled \in Components
  BY <1>1, <1>3, ComponentsInOrder DEF PlanInv, Toggled
<1>5. world' = With(sampled, Toggled, TRUE)
  BY <1>1, <1>3, <1>4, WorldOf
<1>6. Counted(UpTo(High, turn - 1), world') = UpTo(High, turn)
  BY <1>1, <1>5, OneMore DEF PlanInv, High, Counted
<1>7. paired' = [paired EXCEPT ![component] = entry]
  <2>1. paired' = [paired EXCEPT ![component] =
                     [paired[component] EXCEPT !.up = Counted(paired[component].up, world')]]
    BY <1>1
  <2>2. [paired[component] EXCEPT !.up = Counted(paired[component].up, world')] = entry
    BY <1>3, <1>6
  <2>. QED
    BY <2>1, <2>2
<1>8. entry \in Comparisons
  <2>1. UpTo(High, turn) \subseteq EndpointIDs /\ UpTo(Low, turn - 1) \subseteq EndpointIDs
    BY DEF UpTo, High, Low, Succeeding
  <2>. QED
    BY <1>4, <2>1 DEF Comparisons
<1> HIDE DEF entry
<1>9. PairedInv' /\ Len(paired') = component /\ paired'[component] = entry
  BY <1>1, <1>2, <1>3, <1>7, <1>8, CurrentChanges
<1>10. Toggling(sampled, Toggled, world', original')
  BY <1>1, <1>3, <1>5 DEF Toggling
<1>11. ToggledInv'
  BY <1>1, <1>2, <1>3, <1>9, <1>10 DEF ToggledInv, entry
<1>12. WorldInv'
  BY <1>1, <1>11 DEF WorldInv
<1>. QED
  BY <1>1, <1>2, <1>9, <1>12 DEF EndpointInv

LEMMA DownKeeps ==
  ASSUME EndpointInv, ToggleDown
  PROVE  EndpointInv'
<1> DEFINE entry == [component |-> Toggled, up |-> UpTo(High, turn), down |-> UpTo(Low, turn)]
<1>1. /\ pc = "down" /\ component \in Nat \ {0}
      /\ PlanInv /\ ContextInv /\ TrialInv /\ PairedInv /\ WorldInv
      /\ world' = With(world, Toggled, FALSE)
      /\ paired' = [paired EXCEPT ![component].down = Counted(@, world')]
      /\ IF turn \in paired'[component].down \ paired'[component].up
         THEN pc' = "nonmonotonic" /\ UNCHANGED turn
         ELSE pc' = "up" /\ turn' = turn + 1
      /\ UNCHANGED <<context, results>> /\ component' = component /\ original' = original
  BY DEF EndpointInv, ToggleDown
<1>2. /\ component <= Len(ComponentSeq) /\ Len(paired) = component /\ paired \in Seq(Comparisons)
      /\ Toggling(sampled, Toggled, world, original)
      /\ turn \in 1 .. Len(plan.endpoints) + 1 /\ turn \in EndpointIDs
      /\ paired[component] = [component |-> Toggled, up |-> UpTo(High, turn), down |-> UpTo(Low, turn - 1)]
  BY <1>1 DEF WorldInv, ToggledInv, PairedInv
<1>3. Toggled \in Components
  BY <1>1, <1>2, ComponentsInOrder DEF PlanInv, Toggled
<1>4. world' = With(sampled, Toggled, FALSE)
  BY <1>1, <1>2, <1>3, WorldOf
<1>5. Counted(UpTo(Low, turn - 1), world') = UpTo(Low, turn)
  BY <1>1, <1>2, <1>4, OneMore DEF PlanInv, Low, Counted
<1>6. paired' = [paired EXCEPT ![component] = entry] /\ paired'[component] = entry
  <2>1. paired' = [paired EXCEPT ![component] =
                     [paired[component] EXCEPT !.down = Counted(paired[component].down, world')]]
    BY <1>1
  <2>2. [paired[component] EXCEPT !.down = Counted(paired[component].down, world')] = entry
    BY <1>2, <1>5
  <2>3. component \in DOMAIN paired
    BY <1>1, <1>2
  <2>. QED
    BY <2>1, <2>2, <2>3
<1>7. Low \subseteq High
  BY <1>1, ToggledBelow, SucceedingGrows DEF PlanInv, Low, High
<1>8. pc' = "up" /\ turn' = turn + 1
  <2>1. paired'[component].up = UpTo(High, turn) /\ paired'[component].down = UpTo(Low, turn)
    BY <1>6
  <2>2. UpTo(Low, turn) \subseteq UpTo(High, turn)
    BY <1>7 DEF UpTo
  <2>3. turn \notin paired'[component].down \ paired'[component].up
    BY <2>1, <2>2
  <2>. QED
    BY <1>1, <2>3
<1>9. /\ PlanInv' /\ ContextInv' /\ TrialInv' /\ Comparisons' = Comparisons /\ ComponentSeq' = ComponentSeq
      /\ plan' = plan /\ sampled' = sampled
      /\ \A comparison : Toggles(comparison)' <=> Toggles(comparison)
      /\ Toggled' = Toggled /\ High' = High /\ Low' = Low
  BY <1>1, <1>8, ToggleContext
<1>10. entry \in Comparisons
  <2>1. UpTo(High, turn) \subseteq EndpointIDs /\ UpTo(Low, turn) \subseteq EndpointIDs
    BY DEF UpTo, High, Low, Succeeding
  <2>. QED
    BY <1>3, <2>1 DEF Comparisons
<1> HIDE DEF entry
<1>11. PairedInv' /\ Len(paired') = component
  BY <1>1, <1>2, <1>6, <1>8, <1>9, <1>10, CurrentChanges
<1>12. Toggling(sampled, Toggled, world', original')
  BY <1>1, <1>2, <1>4 DEF Toggling
<1>13. turn' \in 1 .. Len(plan.endpoints) + 1 /\ turn' - 1 = turn
  <2>1. EndpointIDs = 1 .. Len(plan.endpoints) /\ Len(plan.endpoints) \in Nat
    BY <1>1, Model DEF PlanInv
  <2>. QED
    BY <1>2, <1>8, <2>1
<1>14. ToggledInv'
  BY <1>1, <1>2, <1>6, <1>8, <1>9, <1>11, <1>12, <1>13 DEF ToggledInv, entry
<1>15. WorldInv'
  BY <1>8, <1>14 DEF WorldInv
<1>. QED
  BY <1>1, <1>8, <1>9, <1>11, <1>15 DEF EndpointInv

LEMMA RestoreKeeps ==
  ASSUME EndpointInv, RestoreComponent
  PROVE  EndpointInv'
<1>1. /\ pc = "up" /\ pc' = "importance" /\ turn \notin EndpointIDs /\ component \in Nat \ {0}
      /\ PlanInv /\ ContextInv /\ TrialInv /\ PairedInv /\ WorldInv
      /\ world' = With(world, Toggled, original) /\ component' = component + 1
      /\ UNCHANGED <<context, results>> /\ paired' = paired
  BY DEF EndpointInv, RestoreComponent, Restored
<1>2. /\ PlanInv' /\ ContextInv' /\ TrialInv' /\ Comparisons' = Comparisons
      /\ plan' = plan /\ sampled' = sampled
      /\ \A comparison : Toggles(comparison)' <=> Toggles(comparison)
  BY <1>1, ToggleContext
<1>3. /\ component <= Len(ComponentSeq) /\ Len(paired) = component
      /\ Toggling(sampled, Toggled, world, original) /\ turn \in 1 .. Len(plan.endpoints) + 1
      /\ paired[component] = [component |-> Toggled, up |-> UpTo(High, turn - 1), down |-> UpTo(Low, turn - 1)]
  BY <1>1 DEF WorldInv, ToggledInv
<1>4. Toggled \in Components
  BY <1>1, <1>3, ComponentsInOrder DEF PlanInv, Toggled
<1>5. world' = sampled
  BY <1>1, <1>3, <1>4, WorldOf
<1>6. Toggles(paired[component])
  <2>1. turn - 1 = Len(plan.endpoints)
    <3>1. EndpointIDs = 1 .. Len(plan.endpoints) /\ Len(plan.endpoints) \in Nat
      BY <1>1, Model DEF PlanInv
    <3>. QED
      BY <1>1, <1>3, <3>1
  <2>2. UpTo(High, turn - 1) = High /\ UpTo(Low, turn - 1) = Low
    BY <1>1, <2>1, NoneAndAll DEF PlanInv, High, Low
  <2>. QED
    BY <1>3, <1>4, <2>2 DEF Toggles, High, Low
<1>7. PairedInv'
  <2>1. paired \in Seq(Comparisons) /\ \A p \in 1 .. component - 1 : p \in DOMAIN paired /\ Toggles(paired[p])
    BY <1>1 DEF PairedInv
  <2>2. component \in DOMAIN paired
    BY <1>1, <1>3, <2>1
  <2>3. \A p \in 1 .. component' - 1 : p \in 1 .. component - 1 \/ p = component
    BY <1>1
  <2>4. \A p \in 1 .. component' - 1 : p \in DOMAIN paired' /\ Toggles(paired'[p])
    BY <1>1, <1>6, <2>1, <2>2, <2>3
  <2>5. \A p \in 1 .. component' - 1 : Toggles(paired[p])'
    BY <1>2, <2>4
  <2>. QED
    BY <1>1, <1>2, <2>1, <2>4, <2>5 DEF PairedInv
<1>8. WorldInv'
  <2>1. Len(paired') = component' - 1
    BY <1>1, <1>3
  <2>. QED
    BY <1>1, <1>2, <1>5, <2>1 DEF WorldInv
<1>. QED
  BY <1>1, <1>2, <1>7, <1>8 DEF EndpointInv

LEMMA EndpointSteps ==
  EndpointInv /\ [Next]_vars => EndpointInv'
<1> SUFFICES ASSUME EndpointInv, [Next]_vars PROVE EndpointInv'
  OBVIOUS
<1>1. CASE ContextFails
  BY <1>1, ContextFailsKeeps
<1>2. CASE BuildContext
  BY <1>2, ContextKeeps
<1>3. CASE RunTrial
  BY <1>3, TrialKeeps
<1>4. CASE TakeComponent
  BY <1>4, TakeKeeps
<1>5. CASE ToggleUp
  BY <1>5, UpKeeps
<1>6. CASE ToggleDown
  BY <1>6, DownKeeps
<1>7. CASE RestoreComponent
  BY <1>7, RestoreKeeps
<1>8. CASE UNCHANGED vars
  <2>1. /\ PlanInv /\ ContextInv /\ TrialInv /\ PairedInv /\ WorldInv
        /\ pc \in {"context", "trial", "importance", "up", "down", "error"} /\ component \in Nat \ {0}
        /\ UNCHANGED <<pc, context, results, toggling>>
    BY <1>8 DEF EndpointInv, vars
  <2>2. /\ UNCHANGED <<pc, plan, groups, diagnostic, viable, sampled, success>>
        /\ UNCHANGED <<world, component, original, turn, paired>>
    BY <2>1 DEF context, results, toggling
  <2>3. /\ EdgeIDs' = EdgeIDs /\ EndpointIDs' = EndpointIDs /\ Components' = Components
        /\ ComponentSeq' = ComponentSeq
        /\ Succeeding(sampled)' = Succeeding(sampled)
        /\ \A comparison : Toggles(comparison)' <=> Toggles(comparison)
        /\ Toggled' = Toggled /\ High' = High /\ Low' = Low
    BY <2>2, JudgedAlike
  <2>4. PlanInv' /\ TrialInv' /\ PairedInv'
    BY <2>1, <2>2, <2>3 DEF PlanInv, TrialInv, PairedInv, Comparisons
  <2>5. ContextInv'
    BY <2>1, <2>2, ContextStays DEF ContextInv
  <2>6. ToggledInv' <=> ToggledInv
    BY <2>2, <2>3 DEF ToggledInv
  <2>7. WorldInv'
    BY <2>1, <2>2, <2>6 DEF WorldInv
  <2>. QED
    BY <2>1, <2>2, <2>4, <2>5, <2>7 DEF EndpointInv
<1>. QED
  BY <1>1, <1>2, <1>3, <1>4, <1>5, <1>6, <1>7, <1>8 DEF Next, Importance

\* The steps under a fault profile are steps of EndpointSuccess.
LEMMA FaultSteps ==
  [FaultNext]_vars => [Next]_vars
BY DEF FaultNext, Next

-----------------------------------------------------------------------------
(* Importance analysis.                                                    *)

\* Whatever the model and the fault profile, an endpoint's paths are those that
\* buildAdvancedContext found, its success is what the sampled state gives, and a
\* comparison of runBirnbaum toggles one component of that state.
THEOREM EndpointInvariant == FaultSpec => []EndpointInv
<1>1. Init => EndpointInv
  BY InitEndpoint
<1>2. EndpointInv /\ [FaultNext]_vars => EndpointInv'
  BY FaultSteps, EndpointSteps
<1>. QED
  BY <1>1, <1>2, PTL DEF FaultSpec

\* runBirnbaum never fails with "non-monotonic component": whatever predicates are
\* nested and whatever paths an endpoint has, what is up helps or does not matter.
THEOREM RepairsFailNothing == FaultSpec => []NeverNonMonotonic
<1>1. EndpointInv => NeverNonMonotonic
  BY DEF EndpointInv, NeverNonMonotonic
<1>. QED
  BY <1>1, EndpointInvariant, PTL

\* Whatever runBirnbaum has written into the sampled state, all components but the
\* toggled one have their sampled value there, all have it between components, and
\* every comparison has the sampled state as one of its two sides.
THEOREM SampleIsKept == FaultSpec => []OthersStaySampled
<1>1. ASSUME EndpointInv, pc \in {"up", "down"}
      PROVE  With(world, Toggled, TRUE) = With(sampled, Toggled, TRUE)
  <2>1. /\ component <= Len(ComponentSeq) /\ component \in Nat \ {0} /\ PlanInv
        /\ Toggling(sampled, Toggled, world, original)
    BY <1>1 DEF EndpointInv, WorldInv, ToggledInv
  <2>2. Toggled \in Components
    BY <2>1, ComponentsInOrder DEF PlanInv, Toggled
  <2>. QED
    BY <2>1, <2>2, WorldOf
<1>2. ASSUME EndpointInv, pc = "importance"
      PROVE  world = sampled
  BY <1>2 DEF EndpointInv, WorldInv
<1>3. ASSUME EndpointInv, NEW p \in 1 .. component - 1
      PROVE  success = IF IsUp(sampled, paired[p].component) THEN paired[p].up ELSE paired[p].down
  <2>1. PlanInv /\ Toggles(paired[p]) /\ success = Succeeding(sampled)
    BY <1>3 DEF EndpointInv, PairedInv, TrialInv
  <2>2. PICK c \in Components :
          paired[p] = [component |-> c, up   |-> Succeeding(With(sampled, c, TRUE)),
                                        down |-> Succeeding(With(sampled, c, FALSE))]
    BY <2>1 DEF Toggles
  <2>3. /\ paired[p].component = c /\ paired[p].up = Succeeding(With(sampled, c, TRUE))
        /\ paired[p].down = Succeeding(With(sampled, c, FALSE))
    BY <2>2
  <2>4. /\ IsUp(sampled, c) => With(sampled, c, TRUE) = sampled
        /\ ~IsUp(sampled, c) => With(sampled, c, FALSE) = sampled
    BY <2>1, GivenItsOwn DEF PlanInv
  <2>. QED
    BY <2>1, <2>3, <2>4
<1>4. EndpointInv => OthersStaySampled
  BY <1>1, <1>2, <1>3 DEF OthersStaySampled
<1>. QED
  BY <1>4, EndpointInvariant, PTL

\* Toggling an edge makes no difference to an endpoint that is not to wait for it:
\* one with a predicate over services, one of immediate response for edges that
\* are asynchronous or do not block, one whose modes leave the edge out.
THEOREM IgnoredEdgesStayOut == FaultSpec => []IgnoredEdgesNeverPivotal
<1>1. EndpointInv => IgnoredEdgesNeverPivotal
  <2> SUFFICES ASSUME EndpointInv, NEW p \in 1 .. component - 1, NEW i \in EndpointIDs,
                      paired[p].component.kind = "edge",
                      paired[p].component.id \in IgnoredEdges(plan.endpoints[i])
               PROVE  i \in paired[p].up <=> i \in paired[p].down
    BY DEF IgnoredEdgesNeverPivotal
  <2>1. /\ plan \in Plans /\ Toggles(paired[p]) /\ pc \in {"importance", "up", "down"}
    BY DEF EndpointInv, PlanInv, PairedInv
  <2>2. /\ EdgesResolve(plan.endpoints[i])
        /\ groups[i] = GroupsOf(plan.endpoints[i])
    BY <2>1 DEF EndpointInv, ContextInv
  <2>3. PICK c \in Components :
          paired[p] = [component |-> c, up   |-> Succeeding(With(sampled, c, TRUE)),
                                        down |-> Succeeding(With(sampled, c, FALSE))]
    BY <2>1 DEF Toggles
  <2>4. /\ paired[p].component = c /\ paired[p].up = Succeeding(With(sampled, c, TRUE))
        /\ paired[p].down = Succeeding(With(sampled, c, FALSE))
    BY <2>3
  <2> DEFINE high == With(sampled, c, TRUE)
             low == With(sampled, c, FALSE)
  <2>5. /\ high.services = low.services
        /\ high.edges \ {c.id} = low.edges \ {c.id}
    BY <2>4 DEF With
  <2> HIDE DEF high, low
  <2>6. ASSUME NEW g \in groups[i], NEW path \in g
        PROVE  PathSucceeds(path, high) <=> PathSucceeds(path, low)
    <3>1. c.id \notin Range(path.edges)
      BY <2>1, <2>2, <2>4, PathEdgesSelected
    <3>. QED
      BY <2>5, <3>1 DEF PathSucceeds
  <2>7. EndpointSucceeds(i, high) <=> EndpointSucceeds(i, low)
    BY <2>5, <2>6 DEF EndpointSucceeds
  <2>. QED
    BY <2>4, <2>7 DEF Succeeding, high, low
<1>. QED
  BY <1>1, EndpointInvariant, PTL

-----------------------------------------------------------------------------
(* Paths and their static metrics.                                         *)

\* The executed paths of an endpoint are chains of services or required edges.
LEMMA DiagnosticIs ==
  ASSUME plan \in Plans, NEW i \in EndpointIDs, EdgesResolve(plan.endpoints[i]),
         NEW path \in DiagnosticPaths(plan.endpoints[i])
  PROVE  \/ \E modes, entry : \E c \in Chains(modes, entry) : path = PathOf(modes, c)
         \/ \E e \in EdgeIDs : path = RequiredPath(e)
<1> DEFINE ep == plan.endpoints[i]
<1>1. EdgesResolve(ep) /\ path \in DiagnosticPaths(ep)
  OBVIOUS
<1> HIDE DEF ep
<1>2. CASE ep.mode = "edge_aware"
  <2>1. \/ \E t : path \in PathsTo(ep, t)
        \/ \E e \in ep.required : path = RequiredPath(e)
    BY <1>1, <1>2 DEF DiagnosticPaths, TargetPaths
  <2>2. ep.required \subseteq EdgeIDs
    BY <1>1, <1>2 DEF EdgesResolve, RequirableEdges
  <2>3. ASSUME NEW t, path \in PathsTo(ep, t)
        PROVE  \E modes, entry : \E c \in Chains(modes, entry) : path = PathOf(modes, c)
    BY <2>3 DEF PathsTo
  <2>. QED
    BY <2>1, <2>2, <2>3
<1>3. CASE ep.mode # "edge_aware"
  <2>1. path \in JourneyPaths(ep)
    BY <1>1, <1>3 DEF DiagnosticPaths
  <2>. QED
    BY <2>1 DEF JourneyPaths
<1>. QED
  BY <1>2, <1>3

\* A path has one edge less than services.
Shaped(path) ==
  /\ path.required \in BOOLEAN
  /\ Len(path.services) \in Nat \ {0} /\ DOMAIN path.services = 1 .. Len(path.services)
  /\ DOMAIN path.edges = 1 .. Len(path.services) - 1 /\ Len(path.edges) = Len(path.services) - 1
  /\ \A j \in 1 .. Len(path.services) : path.services[j] \in Services
  /\ \A h \in 1 .. Len(path.services) - 1 : path.edges[h] \in EdgeIDs

LEMMA PathShape ==
  ASSUME plan \in Plans, NEW i \in EndpointIDs, EdgesResolve(plan.endpoints[i]),
         NEW path \in DiagnosticPaths(plan.endpoints[i])
  PROVE  Shaped(path)
<1>1. ASSUME NEW modes, NEW entry, NEW c \in Chains(modes, entry), path = PathOf(modes, c)
      PROVE  /\ path.required = FALSE /\ path.services = c
             /\ Len(c) \in Nat \ {0} /\ DOMAIN c = 1 .. Len(c)
             /\ DOMAIN path.edges = 1 .. Len(c) - 1 /\ Len(path.edges) = Len(c) - 1
             /\ \A j \in 1 .. Len(c) : c[j] \in Services
             /\ \A h \in 1 .. Len(c) - 1 : path.edges[h] \in EdgeIDs
  <2>1. /\ path.required = FALSE /\ path.services = c
        /\ DOMAIN path.edges = 1 .. Len(c) - 1
        /\ \A h \in 1 .. Len(c) - 1 : path.edges[h] \in Between(modes, c[h], c[h + 1])
    BY <1>1, PathIs
  <2>2. c \in Seq(Services) /\ Len(c) \in Nat \ {0} /\ DOMAIN c = 1 .. Len(c)
    BY ChainIs
  <2>3. \A h \in 1 .. Len(c) - 1 : path.edges[h] \in EdgeIDs
    BY <2>1 DEF Between
  <2>4. path.edges \in Seq(EdgeIDs)
    <3>1. path.edges = [h \in 1 .. Len(c) - 1 |-> path.edges[h]]
      BY <1>1 DEF PathOf
    <3>2. path.edges \in [1 .. Len(c) - 1 -> EdgeIDs]
      BY <2>3, <3>1
    <3>. QED
      BY <2>2, <3>2
  <2>5. Len(path.edges) = Len(c) - 1
    <3>1. Len(c) - 1 \in Nat
      BY <2>2
    <3>. QED
      BY <2>1, <2>4, <3>1, LengthOf
  <2>6. \A j \in 1 .. Len(c) : c[j] \in Services
    BY <2>2
  <2>. QED
    BY <2>1, <2>2, <2>3, <2>5, <2>6
<1>2. ASSUME NEW e \in EdgeIDs, path = RequiredPath(e)
      PROVE  /\ path.required = TRUE /\ Len(path.services) = 2 /\ DOMAIN path.services = 1 .. 2
             /\ DOMAIN path.edges = 1 .. 1 /\ Len(path.edges) = 1
             /\ \A j \in 1 .. 2 : path.services[j] \in Services
             /\ \A h \in 1 .. 1 : path.edges[h] \in EdgeIDs
  BY <1>2, Model DEF RequiredPath
<1>3. CASE \E modes, entry : \E c \in Chains(modes, entry) : path = PathOf(modes, c)
  <2>1. PICK modes, entry : \E c \in Chains(modes, entry) : path = PathOf(modes, c)
    BY <1>3
  <2>2. PICK c \in Chains(modes, entry) : path = PathOf(modes, c)
    BY <2>1
  <2>. QED
    BY <1>1, <2>2 DEF Shaped
<1>4. CASE \E e \in EdgeIDs : path = RequiredPath(e)
  <2>1. PICK e \in EdgeIDs : path = RequiredPath(e)
    BY <1>4
  <2>2. /\ path.required = TRUE /\ Len(path.services) = 2 /\ DOMAIN path.services = 1 .. 2
        /\ DOMAIN path.edges = 1 .. 1 /\ Len(path.edges) = 1
        /\ \A j \in 1 .. 2 : path.services[j] \in Services
        /\ \A h \in 1 .. 1 : path.edges[h] \in EdgeIDs
    BY <1>2, <2>1
  <2>3. 2 - 1 = 1 /\ 2 \in Nat \ {0}
    OBVIOUS
  <2>. QED
    BY <2>2, <2>3 DEF Shaped
<1>. QED
  BY <1>3, <1>4, DiagnosticIs

\* The metrics of an ID are those of a path that has it.
LEMMA StaticByPath ==
  ASSUME plan \in Plans, NEW id, NEW i \in EndpointIDs, \E path \in diagnostic[i] : ID(path) = id
  PROVE  \E j \in EndpointIDs : staticByPath(id) \in diagnostic[j] /\ ID(staticByPath(id)) = id
<1> DEFINE S == {j \in EndpointIDs : \E path \in diagnostic[j] : ID(path) = id}
<1>1. S \in SUBSET Nat /\ S # {}
  BY Model
<1>2. Min(S) \in S
  BY <1>1, LeastMember
<1>3. \E path \in diagnostic[Min(S)] : ID(path) = id
  BY <1>2
<1>4. staticByPath(id) = CHOOSE path \in diagnostic[Min(S)] : ID(path) = id
  BY DEF staticByPath
<1>. QED
  BY <1>2, <1>3, <1>4

-----------------------------------------------------------------------------
(* Retry amplification of paths.                                           *)

LEMMA FaultModel ==
  ASSUME plan \in Plans
  PROVE  /\ \A s \in Services : plan.services[s].buckets # << >> /\ plan.services[s].buckets \in Seq(SUBSET Labels)
         /\ \A e \in EdgeIDs : /\ plan.works[e] \in Chance /\ plan.attempts[e] \in Nat
                               /\ plan.timeout[e] \in Nat /\ plan.latency[e] \in Nat
<1>1. /\ plan.services \in [Services -> Service] /\ \A s \in Services : plan.services[s].buckets # << >>
      /\ plan.works \in [DOMAIN plan.edges -> Chance]
      /\ \A field \in {plan.attempts, plan.timeout, plan.latency} : field \in [DOMAIN plan.edges -> Nat]
  BY FaultAssumption DEF FaultPlan
<1>2. /\ plan.attempts \in [EdgeIDs -> Nat] /\ plan.timeout \in [EdgeIDs -> Nat]
      /\ plan.latency \in [EdgeIDs -> Nat] /\ plan.works \in [EdgeIDs -> Chance]
  BY <1>1 DEF EdgeIDs
<1>3. \A s \in Services : plan.services[s] \in Service
  BY <1>1
<1>. QED
  BY <1>1, <1>2, <1>3 DEF Service

\* A path of n services, each but the last with a hop that attempts at least once.
Analyzed(path, n) ==
  /\ DOMAIN path.services = 1 .. n /\ Len(path.services) = n
  /\ DOMAIN path.hops = 1 .. n - 1
  /\ \A h \in 1 .. n - 1 : path.hops[h].attempts \in Nat \ {0}

LEMMA AnalyzedPath ==
  ASSUME plan \in Plans, NEW path, Shaped(path)
  PROVE  Analyzed(analyzePathStatic(path), Len(path.services))
<1> DEFINE n == Len(path.services)
           static == analyzePathStatic(path)
<1>1. n \in Nat \ {0} /\ DOMAIN path.services = 1 .. n /\ DOMAIN path.edges = 1 .. n - 1
      /\ \A h \in 1 .. n - 1 : path.edges[h] \in EdgeIDs
  BY DEF Shaped
<1> HIDE DEF n
<1>2. DOMAIN static.services = 1 .. n /\ static.services = [j \in 1 .. n |-> static.services[j]]
  BY <1>1 DEF analyzePathStatic
<1>3. DOMAIN static.hops = 1 .. n - 1
      /\ \A h \in 1 .. n - 1 : static.hops[h].attempts = Max({1, plan.attempts[path.edges[h]]})
  BY <1>1 DEF analyzePathStatic
<1> HIDE DEF static
<1>4. Len(static.services) = n
  BY <1>1, <1>2, LengthIs
<1>5. ASSUME NEW a \in Nat PROVE Max({1, a}) \in Nat \ {0}
  <2>1. \E x \in {1, a} : \A y \in {1, a} : x >= y
    <3>1. CASE a >= 1
      BY <3>1
    <3>2. CASE a = 0
      BY <3>2
    <3>. QED
      BY <3>1, <3>2
  <2>2. Max({1, a}) \in {1, a} /\ \A y \in {1, a} : Max({1, a}) >= y
    BY <2>1 DEF Max
  <2>. QED
    BY <2>2
<1>6. \A h \in 1 .. n - 1 : static.hops[h].attempts \in Nat \ {0}
  BY <1>1, <1>3, <1>5, FaultModel
<1>. QED
  BY <1>2, <1>3, <1>4, <1>6 DEF Analyzed, n, static

\* The recursive function of pathAmplification, counted from the last service.
LEMMA AmplificationUnfold ==
  ASSUME NEW path, NEW bound, NEW n \in Nat \ {0}, Analyzed(path, n)
  PROVE  pathAmplification(path, bound) =
           [i \in 1 .. n |->
             IF i = n THEN 1
             ELSE IF ~path.hops[i].retry THEN 0
             ELSE retryExpectedAttempts(AttemptSuccess(path, i), path.hops[i].attempts, bound)
                    * pathAmplification(path, bound)[i + 1]]
<1> DEFINE R(i) == retryExpectedAttempts(AttemptSuccess(path, i), path.hops[i].attempts, bound)
           F(f, m) == [i \in n - m .. n |->
                        IF i = n THEN 1 ELSE IF ~path.hops[i].retry THEN 0 ELSE R(i) * f[i + 1]]
           T == {m \in Nat : \E f : f = F(f, m)}
<1>1. 0 \in T
  <2> DEFINE f == [i \in n - 0 .. n |-> 1]
  <2>1. \A i \in n - 0 .. n : i = n
    OBVIOUS
  <2>2. f = F(f, 0)
    BY <2>1
  <2> HIDE DEF f
  <2>. QED
    BY <2>2
<1>2. ASSUME NEW m \in T PROVE m + 1 \in T
  <2>1. PICK f : f = F(f, m)
    OBVIOUS
  <2> DEFINE g == F(f, m + 1)
  <2>2. \A i \in n - m .. n : i \in n - (m + 1) .. n
    OBVIOUS
  <2>3. \A i \in n - m .. n : g[i] = f[i]
    <3> HIDE DEF R
    <3>. QED
      BY <2>1, <2>2
  <2>4. \A i \in n - (m + 1) .. n : i # n => i + 1 \in n - m .. n
    OBVIOUS
  <2>5. g = F(g, m + 1)
    <3> HIDE DEF R
    <3>. QED
      BY <2>3, <2>4
  <2> HIDE DEF g
  <2>. QED
    BY <2>5
<1>3. n - 1 \in T
  <2>1. T \in SUBSET Nat
    OBVIOUS
  <2> HIDE DEF T
  <2>. QED
    BY <1>1, <1>2, <2>1, SetInduction
<1>4. \E f : f = F(f, n - 1)
  BY <1>3
<1>5. n - (n - 1) = 1
  OBVIOUS
<1> DEFINE G(f) == [i \in 1 .. n |->
                     IF i = n THEN 1 ELSE IF ~path.hops[i].retry THEN 0 ELSE R(i) * f[i + 1]]
<1>6. \E f : f = G(f)
  BY <1>4, <1>5
<1>7. pathAmplification(path, bound) = CHOOSE f : f = G(f)
  BY DEF pathAmplification, Analyzed
<1>. QED
  BY <1>6, <1>7

LEMMA Multiple ==
  ASSUME NEW a \in Nat, NEW b \in Nat
  PROVE  a * b \in Nat /\ (a * b # 0 => b # 0 /\ b <= a * b)
<1>1. a = 0 \/ \E x \in Nat : a = 1 + x
  <2>1. a = 0 \/ a - 1 \in Nat
    OBVIOUS
  <2>2. a = 1 + (a - 1)
    OBVIOUS
  <2>. QED
    BY <2>1, <2>2
<1>2. CASE a = 0
  BY <1>2
<1>3. ASSUME NEW x \in Nat, a = 1 + x PROVE a * b = b + x * b /\ x * b \in Nat
  BY <1>3
<1>. QED
  BY <1>1, <1>2, <1>3

\* Calls of the last service per call of the first bound those per call of any.
LEMMA AmplificationFalls ==
  ASSUME NEW path, NEW bound, NEW n \in Nat \ {0}, Analyzed(path, n)
  PROVE  \A h \in 1 .. n : /\ pathAmplification(path, bound)[h] \in Nat
                           /\ pathAmplification(path, bound)[1] # 0 =>
                                pathAmplification(path, bound)[h] # 0 /\ pathAmplification(path, bound)[h] <= pathAmplification(path, bound)[1]
<1> DEFINE a == pathAmplification(path, bound)
           R(i) == retryExpectedAttempts(AttemptSuccess(path, i), path.hops[i].attempts, bound)
<1>1. a = [i \in 1 .. n |-> IF i = n THEN 1 ELSE IF ~path.hops[i].retry THEN 0 ELSE R(i) * a[i + 1]]
  BY AmplificationUnfold
<1>2. \A i \in 1 .. n - 1 : R(i) \in Nat
  BY DEF Analyzed, retryExpectedAttempts
<1> HIDE DEF a, R
<1>3. a[n] = 1 /\ \A i \in 1 .. n - 1 : a[i] = 0 \/ a[i] = R(i) * a[i + 1]
  <2>1. n \in 1 .. n /\ \A i \in 1 .. n - 1 : i \in 1 .. n /\ i # n
    OBVIOUS
  <2>2. a[n] = 1
    BY <1>1, <2>1
  <2>3. ASSUME NEW i \in 1 .. n - 1 PROVE a[i] = 0 \/ a[i] = R(i) * a[i + 1]
    <3>1. a[i] = IF i = n THEN 1 ELSE IF ~path.hops[i].retry THEN 0 ELSE R(i) * a[i + 1]
      BY <1>1, <2>1
    <3>. QED
      BY <2>1, <3>1
  <2>. QED
    BY <2>2, <2>3
<1>4. \A h \in 1 .. n : a[h] \in Nat
  <2> DEFINE T == {m \in Nat : m <= n - 1 => a[n - m] \in Nat}
  <2>1. 0 \in T
    <3>1. n - 0 = n
      OBVIOUS
    <3>. QED
      BY <1>3, <3>1
  <2>2. ASSUME NEW m \in T PROVE m + 1 \in T
    <3> SUFFICES ASSUME m + 1 <= n - 1 PROVE a[n - (m + 1)] \in Nat
      OBVIOUS
    <3>1. a[n - m] \in Nat
      OBVIOUS
    <3>2. n - (m + 1) \in 1 .. n - 1 /\ (n - (m + 1)) + 1 = n - m
      OBVIOUS
    <3>3. \/ a[n - (m + 1)] = 0
          \/ a[n - (m + 1)] = R(n - (m + 1)) * a[n - m] /\ R(n - (m + 1)) \in Nat
      BY <1>2, <1>3, <3>2
    <3>4. R(n - (m + 1)) \in Nat => R(n - (m + 1)) * a[n - m] \in Nat
      BY <3>1, Multiple
    <3>. QED
      BY <3>3, <3>4
  <2>3. T = Nat
    <3>1. T \in SUBSET Nat
      OBVIOUS
    <3> HIDE DEF T
    <3>. QED
      BY <2>1, <2>2, <3>1, SetInduction
  <2>4. ASSUME NEW h \in 1 .. n PROVE a[h] \in Nat
    <3>1. n - h \in Nat /\ n - h <= n - 1 /\ n - (n - h) = h
      OBVIOUS
    <3>2. n - h \in T
      BY <2>3, <3>1
    <3>. QED
      BY <3>1, <3>2
  <2>. QED
    BY <2>4
<1>5. ASSUME a[1] # 0, NEW h \in 1 .. n PROVE a[h] # 0 /\ a[h] <= a[1]
  <2> DEFINE T == {m \in Nat : m <= n - 1 => a[1 + m] # 0 /\ a[1 + m] <= a[1]}
  <2>1. 0 \in T
    <3>1. a[1] \in Nat /\ 1 + 0 = 1
      BY <1>4
    <3>. QED
      BY <1>5, <3>1
  <2>2. ASSUME NEW m \in T PROVE m + 1 \in T
    <3> SUFFICES ASSUME m + 1 <= n - 1 PROVE a[1 + (m + 1)] # 0 /\ a[1 + (m + 1)] <= a[1]
      OBVIOUS
    <3>1. a[1 + m] # 0 /\ a[1 + m] <= a[1]
      OBVIOUS
    <3>2. 1 + m \in 1 .. n - 1 /\ 1 + m \in 1 .. n /\ 1 + (m + 1) \in 1 .. n /\ (1 + m) + 1 = 1 + (m + 1)
      OBVIOUS
    <3>3. a[1 + m] = R(1 + m) * a[1 + (m + 1)] /\ R(1 + m) \in Nat
      BY <1>2, <1>3, <3>1, <3>2
    <3>4. a[1 + (m + 1)] \in Nat /\ a[1] \in Nat /\ a[1 + m] \in Nat
      BY <1>4, <3>2
    <3>5. a[1 + (m + 1)] # 0 /\ a[1 + (m + 1)] <= a[1 + m]
      BY <3>1, <3>3, <3>4, Multiple
    <3>. QED
      BY <3>1, <3>4, <3>5
  <2>3. T = Nat
    <3>1. T \in SUBSET Nat
      OBVIOUS
    <3> HIDE DEF T
    <3>. QED
      BY <2>1, <2>2, <3>1, SetInduction
  <2>4. h - 1 \in Nat /\ h - 1 <= n - 1 /\ 1 + (h - 1) = h
    OBVIOUS
  <2>5. h - 1 \in T
    BY <2>3, <2>4
  <2>. QED
    BY <2>4, <2>5
<1>. QED
  BY <1>4, <1>5 DEF a

-----------------------------------------------------------------------------
(* The metrics of a profile.                                               *)

\* After the trial, every endpoint has the paths of its model.
Contexts ==
  /\ plan \in Plans /\ DOMAIN diagnostic = EndpointIDs
  /\ \A i \in EndpointIDs : /\ EdgesResolve(plan.endpoints[i])
                            /\ diagnostic[i] = DiagnosticPaths(plan.endpoints[i])

LEMMA ContextsKnown ==
  ASSUME EndpointInv, pc = "importance"
  PROVE  Contexts
BY DEF EndpointInv, PlanInv, ContextInv, Contexts

LEMMA PathsFinite ==
  ASSUME plan \in Plans, NEW i \in EndpointIDs, EdgesResolve(plan.endpoints[i])
  PROVE  IsFiniteSet(DiagnosticPaths(plan.endpoints[i]))
<1> DEFINE ep == plan.endpoints[i]
           Cs == UNION {[1 .. m -> Services] : m \in 0 .. NumServices}
           f == [c \in Cs |-> PathOf({"sync"}, c)]
           g == [c \in Cs |-> PathOf(ep.modes, c)]
           r == [e \in EdgeIDs |-> RequiredPath(e)]
           F == {f[c] : c \in Cs}
           G == {g[c] : c \in Cs}
           R == {r[e] : e \in EdgeIDs}
<1>0. EdgesResolve(ep)
  OBVIOUS
<1> HIDE DEF ep
<1>1. IsFiniteSet(Cs)
  BY ServicesFinite, SequencesFinite
<1>2. IsFiniteSet(EdgeIDs)
  <2>1. Len(plan.edges) \in Int /\ 1 \in Int /\ EdgeIDs = 1 .. Len(plan.edges)
    BY Model
  <2>. QED
    BY <2>1, FS_Interval
<1>3. \A modes, entry : Chains(modes, entry) \subseteq Cs
  BY ServicesFinite DEF Chains, SeqOf
<1>4. IsFiniteSet(F) /\ IsFiniteSet(G) /\ IsFiniteSet(R)
  <2> HIDE DEF Cs, f, g, r
  <2>. QED
    BY <1>1, <1>2, ImageFinite
<1>5. JourneyPaths(ep) \in SUBSET F
  <2>1. \A c \in Chains({"sync"}, ep.entry) : c \in Cs
    BY <1>3
  <2> HIDE DEF Cs
  <2>. QED
    BY <2>1 DEF JourneyPaths
<1>6. ep.mode = "edge_aware" => UNION TargetPaths(ep) \in SUBSET (G \cup R)
  <2>1. \A c \in Chains(ep.modes, ep.entry) : c \in Cs
    BY <1>3
  <2>2. ep.mode = "edge_aware" => ep.required \subseteq EdgeIDs
    BY <1>0 DEF EdgesResolve, RequirableEdges
  <2> HIDE DEF Cs
  <2>3. \A t : PathsTo(ep, t) \subseteq G
    BY <2>1 DEF PathsTo
  <2>4. ep.mode = "edge_aware" => \A e \in ep.required : RequiredPath(e) \in R
    BY <2>2
  <2> HIDE DEF G, R
  <2>. QED
    BY <2>3, <2>4 DEF TargetPaths
<1>7. DiagnosticPaths(ep) \in SUBSET (F \cup (G \cup R))
  <2> HIDE DEF F, G, R
  <2>. QED
    BY <1>5, <1>6 DEF DiagnosticPaths
<1>8. IsFiniteSet(F \cup (G \cup R))
  <2> HIDE DEF F, G, R
  <2>. QED
    BY <1>4, FS_Union
<1>9. IsFiniteSet(DiagnosticPaths(ep))
  <2> HIDE DEF F, G, R
  <2>. QED
    BY <1>7, <1>8, FS_Subset
<1>. QED
  BY <1>9 DEF ep

LEMMA AllPathsFinite ==
  ASSUME Contexts
  PROVE  /\ \A i \in EndpointIDs : IsFiniteSet(diagnostic[i])
         /\ UNION Range(diagnostic) = UNION {diagnostic[i] : i \in EndpointIDs}
         /\ IsFiniteSet(UNION Range(diagnostic)) /\ IsFiniteSet(PathIDs)
<1>1. \A i \in EndpointIDs : IsFiniteSet(diagnostic[i])
  BY PathsFinite DEF Contexts
<1>2. Range(diagnostic) = {diagnostic[i] : i \in EndpointIDs}
  BY DEF Contexts, Range
<1>3. IsFiniteSet(EndpointIDs)
  BY Model, FS_Interval DEF Contexts
<1> DEFINE All == {diagnostic[i] : i \in EndpointIDs}
<1>4. IsFiniteSet(All)
  BY <1>3, ImageFinite
<1>5. \A P \in All : IsFiniteSet(P)
  BY <1>1
<1> HIDE DEF All
<1>6. IsFiniteSet(UNION All)
  BY <1>4, <1>5, FS_UNION
<1> DEFINE U == UNION Range(diagnostic)
           id == [path \in U |-> ID(path)]
<1>7. IsFiniteSet(U)
  BY <1>2, <1>6 DEF All
<1>8. PathIDs = {id[path] : path \in U}
  BY DEF PathIDs
<1> HIDE DEF U, id
<1>9. IsFiniteSet({id[path] : path \in U})
  BY <1>7, ImageFinite
<1>. QED
  BY <1>1, <1>2, <1>7, <1>8, <1>9 DEF U

\* An ID in the report is that of a path of some endpoint.
LEMMA IDsOfPaths ==
  ASSUME Contexts, NEW id \in PathIDs
  PROVE  /\ \E i \in EndpointIDs : \E path \in diagnostic[i] : ID(path) = id
         /\ Shaped(staticByPath(id)) /\ ID(staticByPath(id)) = id
         /\ id[1] \in BOOLEAN /\ id = <<id[1], id[2]>>
<1>1. PICK path \in UNION Range(diagnostic) : ID(path) = id
  BY DEF PathIDs
<1>2. PICK i \in EndpointIDs : path \in diagnostic[i]
  BY <1>1, AllPathsFinite
<1>3. PICK j \in EndpointIDs : staticByPath(id) \in diagnostic[j] /\ ID(staticByPath(id)) = id
  BY <1>1, <1>2, StaticByPath DEF Contexts
<1>4. Shaped(staticByPath(id))
  BY <1>3, PathShape DEF Contexts
<1>5. id = <<staticByPath(id).required, IF staticByPath(id).required THEN staticByPath(id).edges
                                        ELSE staticByPath(id).services>>
  BY <1>3 DEF ID
<1>. QED
  BY <1>1, <1>2, <1>3, <1>4, <1>5 DEF Shaped

LEMMA AmplificationOf ==
  ASSUME Contexts, NEW id \in PathIDs, NEW bound
  PROVE  /\ Amplification(id, bound) \in Nat
         /\ \A h \in DOMAIN staticByPath(id).edges :
              /\ pathAmplification(StaticOf(id), bound)[h] \in Nat
              /\ Amplification(id, bound) # 0 => pathAmplification(StaticOf(id), bound)[h] <= Amplification(id, bound)
<1> DEFINE path == staticByPath(id)
           n == Len(path.services)
<1>1. Shaped(path) /\ plan \in Plans
  BY IDsOfPaths DEF Contexts
<1>2. n \in Nat \ {0} /\ DOMAIN path.edges = 1 .. n - 1
  BY <1>1 DEF Shaped
<1> HIDE DEF path
<1>3. Analyzed(StaticOf(id), n)
  BY <1>1, AnalyzedPath DEF StaticOf, path
<1> HIDE DEF n
<1>4. \A h \in 1 .. n : /\ pathAmplification(StaticOf(id), bound)[h] \in Nat
                        /\ pathAmplification(StaticOf(id), bound)[1] # 0 =>
                             pathAmplification(StaticOf(id), bound)[h] <= pathAmplification(StaticOf(id), bound)[1]
  BY <1>2, <1>3, AmplificationFalls
<1>5. 1 \in 1 .. n /\ \A h \in 1 .. n - 1 : h \in 1 .. n
  BY <1>2
<1>. QED
  BY <1>2, <1>4, <1>5 DEF Amplification, path

\* The largest of factors that have a bound.
LEMMA LargestIs ==
  ASSUME NEW F \in SUBSET Nat, NEW k \in Nat, \A x \in F : x <= k
  PROVE  Largest(F) \in Nat /\ Largest(F) <= k /\ \A x \in F : x <= Largest(F)
<1>1. F \cup {0} \in SUBSET Nat /\ F \cup {0} # {} /\ \A x \in F \cup {0} : x <= k
  OBVIOUS
<1>2. PICK n \in F \cup {0} : \A m \in F \cup {0} : m <= n
  BY <1>1, GreatestNatural
<1>3. \A m \in F \cup {0} : n >= m
  BY <1>1, <1>2
<1>4. Largest(F) \in F \cup {0} /\ \A m \in F \cup {0} : Largest(F) >= m
  BY <1>3 DEF Largest, Max
<1>. QED
  BY <1>1, <1>4

\* Where the profile has a factor, every path has one that is no larger.
LEMMA ProfileAmplifies ==
  ASSUME Contexts, NEW bound, ProfileAmplification(bound) # 0
  PROVE  /\ ProfileAmplification(bound) \in Nat
         /\ \A id \in PathIDs : /\ Amplification(id, bound) \in Nat \ {0}
                                /\ Amplification(id, bound) <= ProfileAmplification(bound)
<1> DEFINE F == {Amplification(id, bound) : id \in PathIDs}
           a == [id \in PathIDs |-> Amplification(id, bound)]
<1>1. F \in SUBSET Nat
  BY AmplificationOf
<1>2. IsFiniteSet(F)
  <2>1. F = {a[id] : id \in PathIDs}
    OBVIOUS
  <2>2. IsFiniteSet(PathIDs)
    BY AllPathsFinite
  <2> HIDE DEF F, a
  <2>3. IsFiniteSet({a[id] : id \in PathIDs})
    BY <2>2, ImageFinite
  <2>. QED
    BY <2>1, <2>3
<1>3. ProfileAmplification(bound) = IF 0 \in F THEN 0 ELSE Largest(F)
  BY DEF ProfileAmplification
<1>4. \A id \in PathIDs : Amplification(id, bound) \in F
  OBVIOUS
<1> HIDE DEF F, a
<1>5. PICK k \in Nat : \A x \in F : x <= k
  BY <1>1, <1>2, FiniteBounded
<1>6. Largest(F) \in Nat /\ \A x \in F : x <= Largest(F)
  BY <1>1, <1>5, LargestIs
<1>. QED
  BY <1>1, <1>3, <1>4, <1>6

\* A path of the list has its mismatches among those of the profile.
LEMMA ProfileCountsTimeouts ==
  ASSUME Contexts, ProfileTimeouts.available
  PROVE  /\ ProfileTimeouts.value \in Int
         /\ \A id \in PathIDs : Timeouts(id).available /\ Timeouts(id).value <= ProfileTimeouts.value
<1> DEFINE sums == [i \in EndpointIDs |-> EndpointTimeouts(i)]
<1>1. \A id \in PathIDs : Timeouts(id).available
  BY DEF ProfileTimeouts, Unavailable
<1>2. ProfileTimeouts.value = MapThenSumSet(EndpointTimeouts, EndpointIDs)
  BY <1>1 DEF ProfileTimeouts, Known
<1>3. ProfileTimeouts.value = SumFunctionOnSet(sums, EndpointIDs)
  <2>1. MapThenSumSet(EndpointTimeouts, EndpointIDs) = SumFunctionOnSet(sums, EndpointIDs)
    BY DEF MapThenSumSet, MapThenFoldSet, SumFunctionOnSet, FoldFunctionOnSet
  <2>. QED
    BY <1>2, <2>1
<1>4. \A id \in PathIDs : Timeouts(id).value \in Nat
  <2> SUFFICES ASSUME NEW id \in PathIDs PROVE Timeouts(id).value \in Nat
    OBVIOUS
  <2> DEFINE path == staticByPath(id)
             n == Len(path.services)
             late == {h \in 1 .. n - 1 : StaticOf(id).hops[h].timeout = "mismatch"}
  <2>1. Shaped(path) /\ plan \in Plans
    BY IDsOfPaths DEF Contexts
  <2>2. n \in Nat \ {0}
    BY <2>1 DEF Shaped
  <2> HIDE DEF path
  <2>3. Analyzed(StaticOf(id), n)
    BY <2>1, AnalyzedPath DEF StaticOf, path
  <2> HIDE DEF n
  <2>4. DOMAIN StaticOf(id).hops = 1 .. n - 1
    BY <2>3 DEF Analyzed
  <2>5. Timeouts(id).value = Cardinality(late)
    <3>1. timeoutMismatchForPath(StaticOf(id)).available
      BY <1>1 DEF Timeouts
    <3>. QED
      BY <2>4, <3>1 DEF Timeouts, timeoutMismatchForPath
  <2>6. IsFiniteSet(1 .. n - 1)
    <3>1. 1 \in Int /\ n - 1 \in Int
      BY <2>2
    <3>. QED
      BY <3>1, FS_Interval
  <2>7. late \in SUBSET (1 .. n - 1)
    OBVIOUS
  <2> HIDE DEF late
  <2>8. Cardinality(late) \in Nat
    BY <2>6, <2>7, FS_Subset, FS_CardinalityType
  <2>. QED
    BY <2>5, <2>8
<1>5. ASSUME NEW i \in EndpointIDs
      PROVE  /\ EndpointTimeouts(i) \in Int /\ 0 <= EndpointTimeouts(i)
             /\ \A path \in diagnostic[i] : Timeouts(ID(path)).value <= EndpointTimeouts(i)
  <2> DEFINE S == diagnostic[i]
             f == [path \in S |-> Timeouts(ID(path)).value]
  <2>1. EndpointTimeouts(i) = SumFunctionOnSet(f, S)
    BY DEF EndpointTimeouts, MapThenSumSet, MapThenFoldSet, SumFunctionOnSet, FoldFunctionOnSet
  <2>2. ASSUME NEW path \in S PROVE f[path] = Timeouts(ID(path)).value /\ f[path] \in Nat
    <3>1. ID(path) \in PathIDs
      BY AllPathsFinite DEF PathIDs
    <3>. QED
      BY <1>4, <3>1
  <2>3. \A path \in S : f[path] \in Int /\ 0 <= f[path]
    BY <2>2
  <2>4. IsFiniteSet(S)
    BY AllPathsFinite
  <2> HIDE DEF f, S
  <2>5. Summable(f, S)
    BY <2>3, <2>4 DEF Summable
  <2>6. SumFunctionOnSet(f, S) \in Int
    BY <2>5, SumStep
  <2>7. 0 <= SumFunctionOnSet(f, S)
    BY <2>3, <2>5, SumNonNegative
  <2>8. \A path \in S : f[path] <= SumFunctionOnSet(f, S)
    BY <2>3, <2>5, SumCovers
  <2>. QED
    BY <2>1, <2>2, <2>6, <2>7, <2>8 DEF S
<1>6. \A i \in EndpointIDs : sums[i] = EndpointTimeouts(i) /\ sums[i] \in Int /\ 0 <= sums[i]
  BY <1>5
<1>7. IsFiniteSet(EndpointIDs)
  <2>1. Len(plan.endpoints) \in Int /\ 1 \in Int /\ EndpointIDs = 1 .. Len(plan.endpoints)
    BY Model DEF Contexts
  <2>. QED
    BY <2>1, FS_Interval
<1> HIDE DEF sums
<1>8. Summable(sums, EndpointIDs)
  BY <1>6, <1>7 DEF Summable
<1>9. ProfileTimeouts.value \in Int
  BY <1>3, <1>8, SumStep
<1>10. \A i \in EndpointIDs : sums[i] <= ProfileTimeouts.value
  BY <1>3, <1>6, <1>8, SumCovers
<1>11. ASSUME NEW id \in PathIDs PROVE Timeouts(id).value <= ProfileTimeouts.value
  <2>1. PICK i \in EndpointIDs : \E path \in diagnostic[i] : ID(path) = id
    BY IDsOfPaths
  <2>2. Timeouts(id).value <= EndpointTimeouts(i)
    BY <1>5, <2>1
  <2>3. Timeouts(id).value \in Int
    BY <1>4
  <2>. QED
    BY <1>6, <1>9, <1>10, <2>2, <2>3
<1>. QED
  BY <1>1, <1>9, <1>11

LEMMA TimeoutBounds ==
  ASSUME Contexts, ProfileTimeouts.available, NEW target,
         \/ target.type = "path" /\ <<FALSE, target.services>> \in PathIDs
         \/ target.type \in {"endpoint", "edge"}
  PROVE  /\ target.type = "path" => TimeoutMismatches(target).available
         /\ TimeoutMismatches(target).available => TimeoutMismatches(target).value <= ProfileTimeouts.value
<1>1. \A id \in PathIDs : Timeouts(id).available /\ Timeouts(id).value <= ProfileTimeouts.value
  BY ProfileCountsTimeouts
<1>2. CASE target.type = "path" /\ <<FALSE, target.services>> \in PathIDs
  <2>1. TimeoutMismatches(target) = Timeouts(<<FALSE, target.services>>)
    BY <1>2 DEF TimeoutMismatches
  <2>. QED
    BY <1>1, <1>2, <2>1
<1>3. CASE target.type \in {"endpoint", "edge"}
  <2>1. TimeoutMismatches(target) = Unavailable
    BY <1>3 DEF TimeoutMismatches
  <2>. QED
    BY <1>3, <2>1 DEF Unavailable
<1>. QED
  BY <1>2, <1>3

LEMMA AmplificationBoundsAll ==
  ASSUME Contexts, NEW bound, ProfileAmplification(bound) # 0, NEW target,
         \/ target.type = "path" /\ <<FALSE, target.services>> \in PathIDs
         \/ target.type \in {"endpoint", "edge"}
  PROVE  /\ target.type = "path" => MaxAmplification(target, bound).available
         /\ MaxAmplification(target, bound).available => MaxAmplification(target, bound).value <= ProfileAmplification(bound)
<1>1. /\ ProfileAmplification(bound) \in Nat
      /\ \A id \in PathIDs : Amplification(id, bound) \in Nat \ {0} /\ Amplification(id, bound) <= ProfileAmplification(bound)
  BY ProfileAmplifies
<1>2. CASE target.type = "path" /\ <<FALSE, target.services>> \in PathIDs
  <2>1. MaxAmplification(target, bound) = Factor(Amplification(<<FALSE, target.services>>, bound))
    BY <1>2 DEF MaxAmplification
  <2>2. Amplification(<<FALSE, target.services>>, bound) \in Nat \ {0}
        /\ Amplification(<<FALSE, target.services>>, bound) <= ProfileAmplification(bound)
    BY <1>1, <1>2
  <2>3. MaxAmplification(target, bound) = [available |-> TRUE, value |-> Amplification(<<FALSE, target.services>>, bound)]
    BY <2>1, <2>2 DEF Factor, Known
  <2>. QED
    BY <2>2, <2>3
<1>3. ASSUME NEW F \in SUBSET Nat, \A x \in F : x <= ProfileAmplification(bound), Factor(Largest(F)).available
      PROVE  Factor(Largest(F)).value <= ProfileAmplification(bound)
  <2>1. Largest(F) <= ProfileAmplification(bound)
    BY <1>1, <1>3, LargestIs
  <2>. QED
    BY <1>3, <2>1 DEF Factor, Known, Unavailable
<1>4. CASE target.type = "endpoint"
  <2>1. CASE target.id \notin EndpointIDs
    <3>1. MaxAmplification(target, bound) = Unavailable
      BY <1>4, <2>1 DEF MaxAmplification
    <3>. QED
      BY <1>4, <3>1 DEF Unavailable
  <2>2. CASE target.id \in EndpointIDs
    <3> DEFINE F == {Amplification(ID(path), bound) : path \in diagnostic[target.id]}
    <3>1. MaxAmplification(target, bound) = Factor(Largest(F))
      BY <1>4, <2>2 DEF MaxAmplification, EndpointAmplification
    <3>2. \A path \in diagnostic[target.id] : ID(path) \in PathIDs
      BY <2>2, AllPathsFinite DEF PathIDs
    <3>3. F \in SUBSET Nat /\ \A x \in F : x <= ProfileAmplification(bound)
      BY <1>1, <3>2
    <3> HIDE DEF F
    <3>. QED
      BY <1>3, <1>4, <3>1, <3>3
  <2>. QED
    BY <2>1, <2>2
<1>5. CASE target.type = "edge"
  <2> DEFINE Hops(id) == {k \in DOMAIN staticByPath(id).edges : staticByPath(id).edges[k] = target.id}
             F == UNION {{pathAmplification(StaticOf(id), bound)[h] : h \in Hops(id)} : id \in PathIDs}
  <2>1. MaxAmplification(target, bound) = Factor(Largest(F))
    BY <1>5 DEF MaxAmplification, EdgeAmplification
  <2>2. ASSUME NEW id \in PathIDs, NEW h \in Hops(id)
        PROVE  pathAmplification(StaticOf(id), bound)[h] \in Nat /\ pathAmplification(StaticOf(id), bound)[h] <= ProfileAmplification(bound)
    <3>1. /\ pathAmplification(StaticOf(id), bound)[h] \in Nat
          /\ Amplification(id, bound) # 0 => pathAmplification(StaticOf(id), bound)[h] <= Amplification(id, bound)
      BY AmplificationOf
    <3>2. Amplification(id, bound) \in Nat \ {0} /\ Amplification(id, bound) <= ProfileAmplification(bound)
      BY <1>1
    <3>. QED
      BY <1>1, <3>1, <3>2
  <2>3. F \in SUBSET Nat /\ \A x \in F : x <= ProfileAmplification(bound)
    <3> HIDE DEF Hops
    <3>. QED
      BY <2>2
  <2> HIDE DEF F
  <2>. QED
    BY <1>3, <1>5, <2>1, <2>3
<1>. QED
  BY <1>2, <1>4, <1>5

\* A bound that an assertion puts on the amplification or the timeout mismatches
\* of the whole profile holds for each of its paths, endpoints and edges.
THEOREM ProfileBounds == FaultSpec => []ProfileBoundCoversAll
<1> DEFINE whole == [type |-> "profile", id |-> 0, services |-> << >>]
           ofPath(services) == [type |-> "path", id |-> 0, services |-> services]
           part(type, id) == [type |-> type, id |-> id, services |-> << >>]
<1>1. ASSUME EndpointInv, OnlyFaults, NEW metric \in {"max_amplification_factor", "timeout_mismatch_count"},
             NEW bound \in Bounds,
             resolveAssertionMetric(metric, whole, bound).available, NEW target,
             \/ target.type = "path" /\ <<FALSE, target.services>> \in PathIDs
             \/ target.type \in {"endpoint", "edge"}
      PROVE  /\ target.type = "path" => resolveAssertionMetric(metric, target, bound).available
             /\ resolveAssertionMetric(metric, target, bound).available =>
                  resolveAssertionMetric(metric, target, bound).value <= resolveAssertionMetric(metric, whole, bound).value
  <2>1. Contexts
    BY <1>1, ContextsKnown DEF OnlyFaults
  <2>2. CASE metric = "timeout_mismatch_count"
    <3>1. \A t : resolveAssertionMetric(metric, t, bound) = TimeoutMismatches(t)
      BY <2>2 DEF resolveAssertionMetric
    <3>2. TimeoutMismatches(whole) = ProfileTimeouts
      BY DEF TimeoutMismatches
    <3> HIDE DEF whole
    <3>3. ProfileTimeouts.available
      BY <1>1, <3>1, <3>2
    <3>4. /\ target.type = "path" => TimeoutMismatches(target).available
          /\ TimeoutMismatches(target).available => TimeoutMismatches(target).value <= ProfileTimeouts.value
      BY <1>1, <2>1, <3>3, TimeoutBounds
    <3>. QED
      BY <3>1, <3>2, <3>4
  <2>3. CASE metric = "max_amplification_factor"
    <3>1. \A t : resolveAssertionMetric(metric, t, bound) = MaxAmplification(t, bound)
      BY <2>3 DEF resolveAssertionMetric
    <3>2. MaxAmplification(whole, bound) = Factor(ProfileAmplification(bound))
      BY DEF MaxAmplification
    <3> HIDE DEF whole
    <3>3. ProfileAmplification(bound) # 0 /\ MaxAmplification(whole, bound).value = ProfileAmplification(bound)
      BY <1>1, <3>1, <3>2 DEF Factor, Unavailable, Known
    <3>4. /\ target.type = "path" => MaxAmplification(target, bound).available
          /\ MaxAmplification(target, bound).available => MaxAmplification(target, bound).value <= ProfileAmplification(bound)
      BY <1>1, <2>1, <3>3, AmplificationBoundsAll
    <3>. QED
      BY <3>1, <3>2, <3>3, <3>4
  <2>. QED
    BY <2>2, <2>3
<1>2. EndpointInv => ProfileBoundCoversAll
  <2> SUFFICES ASSUME EndpointInv, OnlyFaults,
                      NEW metric \in {"max_amplification_factor", "timeout_mismatch_count"},
                      NEW bound \in Bounds,
                      resolveAssertionMetric(metric, whole, bound).available
               PROVE  /\ \A id \in PathIDs : ~id[1] =>
                           /\ resolveAssertionMetric(metric, ofPath(id[2]), bound).available
                           /\ resolveAssertionMetric(metric, ofPath(id[2]), bound).value
                                <= resolveAssertionMetric(metric, whole, bound).value
                      /\ \A type \in {"endpoint", "edge"} : \A id \in EndpointIDs \cup EdgeIDs :
                           resolveAssertionMetric(metric, part(type, id), bound).available =>
                             resolveAssertionMetric(metric, part(type, id), bound).value
                               <= resolveAssertionMetric(metric, whole, bound).value
    BY DEF ProfileBoundCoversAll
  <2>1. Contexts
    BY ContextsKnown DEF OnlyFaults
  <2>2. ASSUME NEW id \in PathIDs, ~id[1]
        PROVE  /\ resolveAssertionMetric(metric, ofPath(id[2]), bound).available
               /\ resolveAssertionMetric(metric, ofPath(id[2]), bound).value <= resolveAssertionMetric(metric, whole, bound).value
    <3>1. <<FALSE, id[2]>> = id
      BY <2>1, <2>2, IDsOfPaths
    <3>2. ofPath(id[2]).type = "path" /\ <<FALSE, ofPath(id[2]).services>> \in PathIDs
      BY <3>1
    <3> HIDE DEF ofPath, whole
    <3>. QED
      BY <1>1, <3>2
  <2>3. ASSUME NEW type \in {"endpoint", "edge"}, NEW id \in EndpointIDs \cup EdgeIDs,
               resolveAssertionMetric(metric, part(type, id), bound).available
        PROVE  resolveAssertionMetric(metric, part(type, id), bound).value <= resolveAssertionMetric(metric, whole, bound).value
    <3>1. part(type, id).type \in {"endpoint", "edge"}
      OBVIOUS
    <3> HIDE DEF part, whole
    <3>. QED
      BY <1>1, <2>3, <3>1
  <2>. QED
    BY <2>2, <2>3
<1>. QED
  BY <1>2, EndpointInvariant, PTL

-----------------------------------------------------------------------------
(* What faults select, and the paths that must be viable.                  *)

LatenciesAdded(path, h) ==
  SumFunctionOnSet([i \in h .. Len(path.edges) |-> HopLatency(path, i)], h .. Len(path.edges))

LatencyIsSum == \A path, h : DownstreamLatency(path, h) = LatenciesAdded(path, h)

LEMMA DownstreamSum == LatencyIsSum
BY DEF LatencyIsSum, LatenciesAdded, DownstreamLatency, MapThenSumSet, MapThenFoldSet, SumFunctionOnSet, FoldFunctionOnSet

LEMMA ObservedSum ==
  \A path, h : MapThenSumSet(LAMBDA i : ObservedLatency(path, i), h .. Len(path.edges)) =
    SumFunctionOnSet([i \in h .. Len(path.edges) |-> ObservedLatency(path, i)], h .. Len(path.edges))
BY DEF MapThenSumSet, MapThenFoldSet, SumFunctionOnSet, FoldFunctionOnSet

\* What is computed of a path depends on the model only.
LEMMA StaticsAlike ==
  ASSUME plan' = plan
  PROVE  \A path : analyzePathStatic(path)' = analyzePathStatic(path)
<1>1. ASSUME NEW type PROVE FaultsOf(type)' = FaultsOf(type)
  BY DEF FaultsOf
<1>2. ASSUME NEW s PROVE Buckets(s)' = Buckets(s)
  BY DEF Buckets
<1>3. ASSUME NEW f, NEW b PROVE BucketMatches(f, b)' <=> BucketMatches(f, b)
  BY DEF BucketMatches
<1>4. ASSUME NEW f, NEW only PROVE selectServicesForFault(f, only)' = selectServicesForFault(f, only)
  BY <1>2, <1>3 DEF selectServicesForFault
<1>5. ASSUME NEW f PROVE KilledBuckets(f)' = KilledBuckets(f)
  BY <1>2, <1>3, <1>4 DEF KilledBuckets
<1>6. hardBucketKill' = hardBucketKill
  BY <1>1, <1>5 DEF hardBucketKill
<1>7. HardDead' = HardDead
  BY <1>2, <1>6 DEF HardDead, isServiceHardDead
<1>8. hardEdgeKill' = hardEdgeKill
  BY <1>1 DEF hardEdgeKill, EdgeIDs
<1>9. ASSUME NEW e PROVE DegradingEdge(e)' = DegradingEdge(e)
  BY <1>1 DEF DegradingEdge
<1>10. ASSUME NEW s PROVE DegradingService(s)' = DegradingService(s)
  BY <1>1, <1>4 DEF DegradingService
<1>11. ASSUME NEW path, NEW h PROVE DownstreamLatency(path, h)' = DownstreamLatency(path, h)
  <2>1. ASSUME NEW i PROVE HopLatency(path, i)' = HopLatency(path, i)
    BY <1>9, <1>10 DEF HopLatency
  <2>2. LatenciesAdded(path, h)' = LatenciesAdded(path, h)
    BY <2>1 DEF LatenciesAdded
  <2>3. LatencyIsSum /\ LatencyIsSum'
    BY DownstreamSum, PTL
  <2>. QED
    BY <2>2, <2>3 DEF LatencyIsSum
<1>12. ASSUME NEW path, NEW h PROVE LatencyKnown(path, h)' <=> LatencyKnown(path, h)
  BY <1>9 DEF LatencyKnown
<1>13. ASSUME NEW path, NEW h PROVE TimeoutOf(path, h)' = TimeoutOf(path, h)
  BY <1>11, <1>12 DEF TimeoutOf
<1>14. ASSUME NEW path PROVE analyzePathStatic(path)' = analyzePathStatic(path)
  BY <1>7, <1>8, <1>9, <1>10, <1>13 DEF analyzePathStatic
<1>. QED
  BY <1>14

\* A path that never, or always, succeeds with everything up is not, or is, viable.
ViableInv ==
  pc \in {"trial", "importance", "up", "down", "nonmonotonic"} =>
    \A path \in UNION Range(diagnostic) :
      LET chance == staticPathSuccess(analyzePathStatic(path))[1]
      IN chance # Sometimes => (path \in viable <=> chance = Always)

LEMMA ViableStays ==
  ASSUME EndpointInv, ViableInv, UNCHANGED <<plan, diagnostic, viable>>,
         pc \in {"context", "error"} => pc' \in {"context", "error"}
  PROVE  ViableInv'
<1>1. \A path : analyzePathStatic(path)' = analyzePathStatic(path)
  BY StaticsAlike
<1>2. Range(diagnostic)' = Range(diagnostic)
  BY DEF Range
<1>. QED
  BY <1>1, <1>2 DEF ViableInv, EndpointInv

LEMMA ViableSteps ==
  EndpointInv /\ ViableInv /\ [FaultNext]_vars => ViableInv'
<1> SUFFICES ASSUME EndpointInv, ViableInv, [FaultNext]_vars PROVE ViableInv'
  OBVIOUS
<1>1. CASE ContextFails
  BY <1>1 DEF ContextFails, ViableInv
<1>2. CASE /\ BuildContext
           /\ \A path \in UNION Range(diagnostic') :
                LET chance == staticPathSuccess(analyzePathStatic(path))[1]
                IN chance # Sometimes => (path \in viable' <=> chance = Always)
  <2>1. plan' = plan
    BY <1>2 DEF BuildContext
  <2>2. \A path : analyzePathStatic(path)' = analyzePathStatic(path)
    BY <2>1, StaticsAlike
  <2>. QED
    BY <1>2, <2>2 DEF ViableInv, Range
<1>3. CASE RunTrial
  <2>1. UNCHANGED <<plan, diagnostic, viable>> /\ pc = "trial"
    BY <1>3 DEF RunTrial, context
  <2>. QED
    BY <2>1, ViableStays
<1>4. CASE Importance
  <2>1. UNCHANGED <<plan, diagnostic, viable>> /\ pc \in {"importance", "up", "down"}
    BY <1>4 DEF Importance, TakeComponent, ToggleUp, ToggleDown, RestoreComponent, context
  <2>. QED
    BY <2>1, ViableStays
<1>5. CASE UNCHANGED vars
  BY <1>5, ViableStays DEF vars, context
<1>. QED
  BY <1>1, <1>2, <1>3, <1>4, <1>5 DEF FaultNext

\* Which paths succeed with everything up is what PathStatics expects of them.
THEOREM ViabilityInvariant == FaultSpec => []ViableInv
<1>1. Init => ViableInv
  BY DEF Init, ViableInv
<1>. QED
  BY <1>1, ViableSteps, EndpointInvariant, PTL DEF FaultSpec

\* A profile kills only services that its selectors select.
LEMMA KilledAreImpacted ==
  ASSUME plan \in Plans
  PROVE  HardDead \subseteq impactedServices
<1> SUFFICES ASSUME NEW s \in HardDead PROVE s \in impactedServices
  OBVIOUS
<1>1. s \in Services /\ Buckets(s) \subseteq hardBucketKill
  BY DEF HardDead, isServiceHardDead
<1>2. <<s, 1>> \in Buckets(s)
  <2>1. plan.services[s].buckets # << >> /\ plan.services[s].buckets \in Seq(SUBSET Labels)
    BY <1>1, FaultModel
  <2>2. 1 \in DOMAIN plan.services[s].buckets
    BY <2>1
  <2>. QED
    BY <2>2 DEF Buckets
<1>3. PICK f \in FaultsOf("correlated_failure_domain") : <<s, 1>> \in KilledBuckets(f)
  BY <1>1, <1>2 DEF hardBucketKill
<1>4. \E t \in selectServicesForFault(f, f.onlyEligible) : <<s, 1>> \in Buckets(t)
  BY <1>3 DEF KilledBuckets
<1>5. s \in selectServicesForFault(f, f.onlyEligible)
  BY <1>4 DEF Buckets
<1>. QED
  BY <1>3, <1>5 DEF impactedServices

\* The least of chances that are all Always.
LEMMA MinAlways ==
  ASSUME NEW S, S # {}, S \subseteq {Always}
  PROVE  Min(S) = Always
<1>1. S = {2}
  BY DEF Always
<1>2. Min({2}) = 2
  BY DEF Min
<1>. QED
  BY <1>1, <1>2 DEF Always

\* What the faults do not touch succeeds, unless it is always late.
LEMMA UntouchedSucceeds ==
  ASSUME plan \in Plans, NEW path, Shaped(path),
         FaultsOf("edge_partial_degradation") = {}, Range(plan.works) = {Always},
         Range(path.services) \cap impactedServices = {}, Range(path.edges) \cap hardEdgeKill = {},
         ~AlwaysLate(path)
  PROVE  staticPathSuccess(analyzePathStatic(path))[1] = Always
<1> DEFINE n == Len(path.services)
           static == analyzePathStatic(path)
<1>1. /\ n \in Nat \ {0} /\ DOMAIN path.services = 1 .. n
      /\ DOMAIN path.edges = 1 .. n - 1 /\ Len(path.edges) = n - 1
      /\ \A j \in 1 .. n : path.services[j] \in Services
      /\ \A h \in 1 .. n - 1 : path.edges[h] \in EdgeIDs
  BY DEF Shaped
<1> HIDE DEF n
<1>2. \A j \in 1 .. n : path.services[j] \notin impactedServices
  BY <1>1 DEF Range
<1>3. \A j \in 1 .. n : /\ path.services[j] \notin HardDead /\ DegradingService(path.services[j]) = {}
  <2>1. ASSUME NEW s, s \notin impactedServices PROVE s \notin HardDead /\ DegradingService(s) = {}
    <3>1. \A f \in FaultsOf("service_partial_degradation") : s \notin selectServicesForFault(f, FALSE)
      <4>1. ASSUME NEW f \in FaultsOf("service_partial_degradation")
            PROVE  selectServicesForFault(f, FALSE) \subseteq impactedServices
        BY DEF impactedServices
      <4>. QED
        BY <2>1, <4>1
    <3>. QED
      BY <2>1, <3>1, KilledAreImpacted DEF DegradingService
  <2>. QED
    BY <1>2, <2>1
<1>4. \A e : DegradingEdge(e) = {}
  BY DEF DegradingEdge
<1>5. combineErrorRates({}) = Always
  BY MinAlways DEF combineErrorRates
<1>6. Injected({}) = 0
  BY DEF Injected, MapThenSumSet, MapThenFoldSet
<1>7. ASSUME NEW h \in 1 .. n - 1 PROVE TimeoutOf(path, h) # "mismatch"
  <2> DEFINE S == h .. n - 1
             f == [i \in S |-> HopLatency(path, i)]
             g == [i \in S |-> ObservedLatency(path, i)]
  <2>1. \A i \in S : i \in 1 .. n - 1 /\ i + 1 \in 1 .. n
    BY <1>1
  <2>2. \A i \in S : plan.latency[path.edges[i]] \in Nat
    BY <1>1, <2>1, FaultModel
  <2>3. \A i \in S : HopLatency(path, i) = plan.latency[path.edges[i]]
    <3> SUFFICES ASSUME NEW i \in S PROVE HopLatency(path, i) = plan.latency[path.edges[i]]
      OBVIOUS
    <3>1. DegradingService(path.services[i + 1]) = {} /\ DegradingEdge(path.edges[i]) = {}
      BY <1>3, <1>4, <2>1
    <3>2. HopLatency(path, i) = plan.latency[path.edges[i]] + 0 + 0
      BY <1>6, <3>1 DEF HopLatency
    <3>. QED
      BY <2>2, <3>2
  <2>4. f = g
    BY <2>3 DEF ObservedLatency
  <2>5. DownstreamLatency(path, h) = SumFunctionOnSet(f, S)
    BY <1>1, DownstreamSum DEF LatencyIsSum, LatenciesAdded
  <2>6. MapThenSumSet(LAMBDA i : ObservedLatency(path, i), S) = SumFunctionOnSet(g, S)
    BY <1>1, ObservedSum
  <2>7. LatencyKnown(path, h) <=> \A i \in S : plan.latency[path.edges[i]] > 0
    <3>1. \A i \in S : Injected(DegradingEdge(path.edges[i])) = 0
      BY <1>4, <1>6
    <3>2. \A i \in S : plan.latency[path.edges[i]] + Injected(DegradingEdge(path.edges[i])) = plan.latency[path.edges[i]]
      BY <2>2, <3>1
    <3>. QED
      BY <1>1, <3>2 DEF LatencyKnown
  <2>8. ~/\ plan.timeout[path.edges[h]] # 0 /\ \A i \in S : plan.latency[path.edges[i]] > 0
         /\ plan.timeout[path.edges[h]] < MapThenSumSet(LAMBDA i : ObservedLatency(path, i), S)
    BY <1>1 DEF AlwaysLate, ObservedLatency
  <2> HIDE DEF f, g, S
  <2>. QED
    BY <2>4, <2>5, <2>6, <2>7, <2>8 DEF TimeoutOf
<1>8. ASSUME NEW h \in 1 .. n - 1 PROVE Min({plan.works[path.edges[h]], combineErrorRates(DegradingEdge(path.edges[h]))}) = Always
  <2>1. plan.works[path.edges[h]] = Always
    <3>1. path.edges[h] \in DOMAIN plan.works
      BY <1>1, FaultAssumption DEF FaultPlan, EdgeIDs
    <3>. QED
      BY <3>1 DEF Range
  <2>. QED
    BY <1>4, <1>5, <2>1, MinAlways
<1>9. /\ DOMAIN static.services = 1 .. n
      /\ \A j \in 1 .. n : static.services[j] = Always
  BY <1>1, <1>3, <1>5 DEF analyzePathStatic
<1>10. /\ DOMAIN static.hops = 1 .. n - 1
       /\ \A h \in 1 .. n - 1 : /\ static.hops[h].works = Always /\ ~static.hops[h].dead
                                /\ static.hops[h].timeout # "mismatch"
  <2>1. \A h \in 1 .. n - 1 : path.edges[h] \notin hardEdgeKill
    BY <1>1 DEF Range
  <2>. QED
    BY <1>1, <1>7, <1>8, <2>1 DEF analyzePathStatic
<1>11. Len(static.services) = n /\ Len(static.hops) = n - 1
  <2>1. static.services = [j \in 1 .. n |-> static.services[j]] /\ static.hops = [h \in 1 .. n - 1 |-> static.hops[h]]
    BY <1>1 DEF analyzePathStatic
  <2>2. n \in Nat /\ n - 1 \in Nat
    BY <1>1
  <2> HIDE DEF static
  <2>. QED
    BY <2>1, <2>2, LengthIs
<1> HIDE DEF static
<1> DEFINE chances == {static.services[j] : j \in 1 .. n} \cup {static.hops[h].works : h \in 1 .. n - 1}
<1>12. staticPathSuccess(static)[1] = Min(chances)
  <2>1. 1 \in DOMAIN static.services
    BY <1>1, <1>9
  <2>. QED
    BY <1>10, <1>11, <2>1 DEF staticPathSuccess
<1>13. chances # {} /\ chances \subseteq {Always}
  <2>1. static.services[1] \in chances
    BY <1>1
  <2>. QED
    BY <1>9, <1>10, <2>1
<1>. QED
  BY <1>12, <1>13, MinAlways DEF static

\* Without what is impacted, a predicate is judged as if nothing were down.
LEMMA UntouchedPredicate ==
  ASSUME plan \in Plans, NEW i \in EndpointIDs, plan.endpoints[i].mode = "predicate",
         predicateServices(plan.endpoints[i]) \cap HardDead = {}
  PROVE  Evaluate(plan.endpoints[i].predicate, Services \ HardDead)
           <=> Evaluate(plan.endpoints[i].predicate, Services)
<1> DEFINE def == plan.endpoints[i].predicate
           up == Services \ HardDead
<1>1. def \in Predicate
  BY Model, Endpoints
<1>2. def.services \cap HardDead = {}
      /\ \A c \in def.children : c.type # "edge_aware" => c.services \cap HardDead = {}
  <2>1. def.services \subseteq predicateServices(plan.endpoints[i])
    BY DEF predicateServices
  <2>2. \A c \in def.children : c.type # "edge_aware" => c.services \subseteq predicateServices(plan.endpoints[i])
    BY DEF predicateServices
  <2>. QED
    BY <2>1, <2>2
<1> HIDE DEF def
<1>3. def.services \cap up = def.services \cap Services
  BY <1>2
<1>4. ASSUME NEW c \in def.children PROVE EvaluateLeaf(c, up) <=> EvaluateLeaf(c, Services)
  <2>1. CASE c.type = "edge_aware"
    BY <2>1 DEF EvaluateLeaf, Combine
  <2>2. CASE c.type # "edge_aware"
    <3>1. c.services \cap up = c.services \cap Services
      BY <1>2, <2>2
    <3>. QED
      BY <3>1 DEF EvaluateLeaf
  <2>. QED
    BY <2>1, <2>2
<1>5. {c \in def.children : EvaluateLeaf(c, up)} = {c \in def.children : EvaluateLeaf(c, Services)}
  BY <1>4
<1>. QED
  BY <1>3, <1>5 DEF Evaluate, def

\* An endpoint that fails although only the faults of the profile are down, and
\* that would succeed without them, is one of those that the profile calls impacted.
THEOREM BlastRadiusIsComplete == FaultSpec => []BlastRadiusCoversDamage
<1>1. ASSUME EndpointInv, ViableInv, OnlyFaults, FaultsOf("edge_partial_degradation") = {},
             Range(plan.works) = {Always}, NEW i \in EndpointIDs \ success,
             IF plan.endpoints[i].mode = "predicate" THEN Evaluate(plan.endpoints[i].predicate, Services)
             ELSE \A g \in groups[i] : \E path \in g : ~AlwaysLate(path)
      PROVE  i \in impactedEndpoints
  <2>1. Contexts /\ plan \in Plans /\ groups[i] = GroupsOf(plan.endpoints[i]) /\ success = Succeeding(sampled)
        /\ sampled.services = Services \ HardDead /\ sampled.edges = EdgeIDs \ hardEdgeKill
        /\ pc = "importance"
    BY <1>1, ContextsKnown DEF OnlyFaults, EndpointInv, PlanInv, ContextInv, TrialInv
  <2>2. SUFFICES ASSUME ~endpointImpacted(i) PROVE FALSE
    BY DEF impactedEndpoints
  <2>3. HardDead \subseteq impactedServices
    BY <2>1, KilledAreImpacted
  <2>4. ~EndpointSucceeds(i, sampled)
    BY <2>1 DEF Succeeding
  <2>5. CASE plan.endpoints[i].mode = "predicate"
    <3>1. predicateServices(plan.endpoints[i]) \cap HardDead = {}
      BY <2>2, <2>3, <2>5 DEF endpointImpacted
    <3>2. Evaluate(plan.endpoints[i].predicate, sampled.services)
      BY <1>1, <2>1, <2>5, <3>1, UntouchedPredicate
    <3>. QED
      BY <2>4, <2>5, <3>2 DEF EndpointSucceeds
  <2>6. CASE plan.endpoints[i].mode # "predicate"
    <3>1. PICK g \in groups[i] : ~\E path \in g : PathSucceeds(path, sampled)
      BY <2>4, <2>6 DEF EndpointSucceeds
    <3>2. PICK path \in g : ~AlwaysLate(path)
      BY <1>1, <2>6, <3>1
    <3>3. path \in diagnostic[i]
      <4>1. g \in GroupsOf(plan.endpoints[i]) /\ plan.endpoints[i].mode \in {"journey", "edge_aware"}
        BY <2>1, <2>6, <3>1, Model, Endpoints
      <4>2. path \in DiagnosticPaths(plan.endpoints[i])
        BY <3>2, <4>1 DEF GroupsOf, DiagnosticPaths
      <4>. QED
        BY <2>1, <4>2 DEF Contexts
    <3>4. Shaped(path)
      BY <2>1, <3>3, PathShape DEF Contexts
    <3>5. Range(path.services) \cap impactedServices = {} /\ Range(path.edges) \cap hardEdgeKill = {}
      BY <2>2, <3>3 DEF endpointImpacted
    <3>6. staticPathSuccess(analyzePathStatic(path))[1] = Always
      BY <1>1, <2>1, <3>2, <3>4, <3>5, UntouchedSucceeds
    <3>7. path \in UNION Range(diagnostic)
      BY <2>1, <3>3, AllPathsFinite
    <3>8. path \in viable
      BY <1>1, <2>1, <3>6, <3>7 DEF ViableInv, Always, Sometimes
    <3>9. Range(path.services) \subseteq Services /\ Range(path.edges) \subseteq EdgeIDs
      BY <3>4 DEF Shaped, Range
    <3>10. PathSucceeds(path, sampled)
      BY <2>1, <2>3, <3>5, <3>8, <3>9 DEF PathSucceeds
    <3>. QED
      BY <3>1, <3>2, <3>10
  <2>. QED
    BY <2>5, <2>6
<1>2. EndpointInv /\ ViableInv => BlastRadiusCoversDamage
  BY <1>1 DEF BlastRadiusCoversDamage
<1>. QED
  BY <1>2, EndpointInvariant, ViabilityInvariant, PTL

-----------------------------------------------------------------------------
(* Paths and reachability.                                                 *)

\* The sets that Reached computes, one for every number of hops.
Hops(h, edges, entry) ==
  /\ h[0] = {entry} \cap sampled.services
  /\ \A n \in 1 .. NumServices :
       h[n] = h[n - 1] \cup {plan.edges[e].to : e \in {f \in edges \cap sampled.edges :
                plan.edges[f].from \in h[n - 1] /\ plan.edges[f].to \in sampled.services}}

LEMMA ReachedUnfold ==
  ASSUME NEW edges, NEW entry
  PROVE  \E h : Hops(h, edges, entry) /\ Reached(edges, entry) = h[NumServices]
<1> DEFINE First == {entry} \cap sampled.services
           More(S) == S \cup {plan.edges[e].to : e \in {f \in edges \cap sampled.edges :
                        plan.edges[f].from \in S /\ plan.edges[f].to \in sampled.services}}
           F(f, m) == [n \in 0 .. m |-> IF n = 0 THEN First ELSE More(f[n - 1])]
           T == {m \in Nat : \E f : f = F(f, m)}
<1>1. 0 \in T
  <2> DEFINE f == [n \in 0 .. 0 |-> First]
  <2>1. \A n \in 0 .. 0 : n = 0
    OBVIOUS
  <2> HIDE DEF First, More
  <2>2. f = F(f, 0)
    BY <2>1
  <2> HIDE DEF f
  <2>. QED
    BY <2>2
<1>2. ASSUME NEW m \in T PROVE m + 1 \in T
  <2>1. PICK f : f = F(f, m)
    OBVIOUS
  <2> HIDE DEF First, More
  <2> DEFINE g == F(f, m + 1)
  <2>2. \A n \in 0 .. m : n \in 0 .. m + 1
    OBVIOUS
  <2>3. \A n \in 0 .. m : g[n] = f[n]
    BY <2>1, <2>2
  <2>4. \A n \in 0 .. m + 1 : n # 0 => n - 1 \in 0 .. m
    OBVIOUS
  <2>5. g = F(g, m + 1)
    BY <2>3, <2>4
  <2> HIDE DEF g
  <2>. QED
    BY <2>5
<1>3. T = Nat
  <2>1. T \in SUBSET Nat
    OBVIOUS
  <2> HIDE DEF T
  <2>. QED
    BY <1>1, <1>2, <2>1, SetInduction
<1>4. \E f : f = F(f, NumServices)
  BY <1>3, ServicesFinite
<1> DEFINE h == CHOOSE f : f = F(f, NumServices)
<1>5. h = F(h, NumServices)
  <2> HIDE DEF First, More
  <2>. QED
    BY <1>4
<1>6. Reached(edges, entry) = h[NumServices]
  BY ServicesFinite DEF Reached
<1> HIDE DEF h
<1>7. 0 \in 0 .. NumServices /\ \A n \in 1 .. NumServices : n \in 0 .. NumServices /\ n # 0
  BY ServicesFinite
<1>8. h[0] = First /\ \A n \in 1 .. NumServices : h[n] = More(h[n - 1])
  <2> HIDE DEF First, More
  <2>. QED
    BY <1>5, <1>7
<1>9. Hops(h, edges, entry)
  BY <1>8 DEF Hops
<1>. QED
  BY <1>6, <1>9

\* A chain of services that are up, over edges that are up.
LiveChain(c, modes, entry) ==
  /\ c \in Chains(modes, entry)
  /\ \A i \in 1 .. Len(c) : c[i] \in sampled.services
  /\ \A i \in 1 .. Len(c) - 1 : \E e \in Between(modes, c[i], c[i + 1]) : e \in sampled.edges

\* What is on a live chain is reached.
LEMMA ChainsReach ==
  ASSUME plan \in Plans, NEW modes, NEW entry, NEW c, LiveChain(c, modes, entry), NEW k \in 1 .. Len(c)
  PROVE  c[k] \in Reached(Selected(modes), entry)
<1>1. PICK h : Hops(h, Selected(modes), entry) /\ Reached(Selected(modes), entry) = h[NumServices]
  BY ReachedUnfold
<1>2. /\ Len(c) \in Nat \ {0} /\ Len(c) <= NumServices /\ NumServices \in Nat /\ c[1] = entry
  BY ChainIs, ServicesFinite DEF LiveChain
<1>3. \A n \in 1 .. NumServices : h[n - 1] \subseteq h[n]
  BY <1>1 DEF Hops
<1> DEFINE T == {n \in Nat : n + 1 \in 1 .. Len(c) => c[n + 1] \in h[n]}
<1>4. 0 \in T
  <2>1. c[1] \in sampled.services
    BY <1>2 DEF LiveChain
  <2>2. c[1] \in h[0]
    BY <1>1, <1>2, <2>1 DEF Hops
  <2>. QED
    BY <2>2
<1>5. ASSUME NEW n \in T PROVE n + 1 \in T
  <2> SUFFICES ASSUME (n + 1) + 1 \in 1 .. Len(c) PROVE c[(n + 1) + 1] \in h[n + 1]
    OBVIOUS
  <2>1. n \in Nat /\ n + 1 \in 1 .. Len(c) /\ n + 1 \in 1 .. Len(c) - 1 /\ n + 1 \in 1 .. NumServices
        /\ (n + 1) - 1 = n
    BY <1>2
  <2>2. c[n + 1] \in h[n] /\ c[(n + 1) + 1] \in sampled.services
    BY <2>1 DEF LiveChain
  <2>3. PICK e \in Between(modes, c[n + 1], c[(n + 1) + 1]) : e \in sampled.edges
    BY <2>1 DEF LiveChain
  <2>4. e \in Selected(modes) /\ plan.edges[e].from = c[n + 1] /\ plan.edges[e].to = c[(n + 1) + 1]
    BY <2>3, AllowedSelected DEF Between
  <2>5. h[n + 1] = h[n] \cup {plan.edges[f].to : f \in {g \in Selected(modes) \cap sampled.edges :
                     plan.edges[g].from \in h[n] /\ plan.edges[g].to \in sampled.services}}
    <3>1. h[n + 1] = h[(n + 1) - 1] \cup {plan.edges[f].to : f \in {g \in Selected(modes) \cap sampled.edges :
                     plan.edges[g].from \in h[(n + 1) - 1] /\ plan.edges[g].to \in sampled.services}}
      BY <1>1, <2>1 DEF Hops
    <3>. QED
      BY <2>1, <3>1
  <2>. QED
    BY <2>2, <2>3, <2>4, <2>5
<1>6. T = Nat
  <2>1. T \in SUBSET Nat
    OBVIOUS
  <2> HIDE DEF T
  <2>. QED
    BY <1>4, <1>5, <2>1, SetInduction
<1>7. k - 1 \in Nat /\ (k - 1) + 1 = k /\ k - 1 \in 0 .. NumServices
  BY <1>2
<1>8. c[k] \in h[k - 1]
  BY <1>6, <1>7
<1> DEFINE U == {n \in Nat : n \in 0 .. NumServices /\ k - 1 <= n => c[k] \in h[n]}
<1>9. 0 \in U
  BY <1>7, <1>8
<1>10. ASSUME NEW n \in U PROVE n + 1 \in U
  <2> SUFFICES ASSUME n + 1 \in 0 .. NumServices, k - 1 <= n + 1 PROVE c[k] \in h[n + 1]
    OBVIOUS
  <2>1. n + 1 \in 1 .. NumServices /\ (n + 1) - 1 = n /\ n \in 0 .. NumServices
        /\ (k - 1 <= n \/ k - 1 = n + 1)
    BY <1>2, <1>7
  <2>2. h[n] \subseteq h[n + 1]
    BY <1>3, <2>1
  <2>. QED
    BY <1>8, <2>1, <2>2
<1>11. U = Nat
  <2>1. U \in SUBSET Nat
    OBVIOUS
  <2> HIDE DEF U
  <2>. QED
    BY <1>9, <1>10, <2>1, SetInduction
<1>12. c[k] \in h[NumServices]
  BY <1>2, <1>7, <1>11
<1>. QED
  BY <1>1, <1>12

\* The first k services of a live chain are one.
LEMMA LivePrefix ==
  ASSUME plan \in Plans, NEW modes, NEW entry, NEW c, LiveChain(c, modes, entry), NEW k \in 1 .. Len(c)
  PROVE  \E d : LiveChain(d, modes, entry) /\ d[Len(d)] = c[k]
<1> DEFINE d == [i \in 1 .. k |-> c[i]]
<1>1. /\ c \in Seq(Services) /\ Len(c) \in Nat \ {0} /\ Len(c) <= NumServices
      /\ \A i, j \in 1 .. Len(c) : c[i] = c[j] => i = j
      /\ c[1] = entry /\ NumServices \in Nat
  BY ChainIs, ServicesFinite DEF LiveChain
<1>2. k \in Nat \ {0} /\ k <= Len(c) /\ \A i \in 1 .. k : i \in 1 .. Len(c)
  BY <1>1
<1>3. \A i \in 1 .. Len(c) : c[i] \in Services
  BY <1>1
<1>4. d \in Seq(Services)
  BY <1>2, <1>3
<1>5. Len(d) = k /\ DOMAIN d = 1 .. k
  <2>1. DOMAIN d = 1 .. k
    OBVIOUS
  <2> HIDE DEF d
  <2>. QED
    BY <1>2, <1>4, <2>1, LengthOf
<1>6. \A i \in 1 .. k : d[i] = c[i]
  OBVIOUS
<1> HIDE DEF d
<1>7. \A i \in 1 .. k - 1 : i \in 1 .. k /\ i + 1 \in 1 .. k /\ i \in 1 .. Len(c) - 1
  BY <1>1, <1>2
<1>8. d \in SeqOf(Services, Cardinality(Services))
  <2>1. Len(d) <= NumServices
    BY <1>1, <1>2, <1>5
  <2>. QED
    BY <1>1, <1>4, <2>1, SeqOfMembers, ServicesFinite
<1>9. IsInjective(d)
  BY <1>1, <1>2, <1>5, <1>6 DEF IsInjective
<1>10. d[1] = entry
  BY <1>1, <1>2, <1>6
<1>11. \A i \in 1 .. k - 1 : \E e \in Between(modes, d[i], d[i + 1]) : e \in sampled.edges
  BY <1>6, <1>7 DEF LiveChain
<1>12. d \in Chains(modes, entry)
  BY <1>2, <1>5, <1>8, <1>9, <1>10, <1>11 DEF Chains
<1>13. \A i \in 1 .. k : d[i] \in sampled.services
  BY <1>2, <1>6 DEF LiveChain
<1>14. LiveChain(d, modes, entry)
  BY <1>5, <1>11, <1>12, <1>13 DEF LiveChain
<1>15. d[Len(d)] = c[k]
  BY <1>2, <1>5, <1>6
<1>. QED
  BY <1>14, <1>15

\* A live chain has a live successor over every edge that is up: where the edge
\* leads back, its prefix, as no search visits a service twice.
LEMMA LiveExtension ==
  ASSUME plan \in Plans, NEW modes, NEW entry, NEW c, LiveChain(c, modes, entry),
         NEW e \in Selected(modes), e \in sampled.edges, plan.edges[e].from = c[Len(c)],
         plan.edges[e].to \in sampled.services
  PROVE  \E d : LiveChain(d, modes, entry) /\ d[Len(d)] = plan.edges[e].to
<1> DEFINE s == plan.edges[e].to
           n == Len(c)
<1>1. /\ c \in Seq(Services) /\ n \in Nat \ {0} /\ n <= NumServices
      /\ \A i, j \in 1 .. n : c[i] = c[j] => i = j
      /\ c[1] = entry /\ NumServices \in Nat
  BY ChainIs, ServicesFinite DEF LiveChain
<1>2. e \in EdgeIDs /\ s \in Services /\ e \in Between(modes, c[n], s)
  BY Model, AllowedSelected DEF Selected, Between
<1>3. CASE \E k \in 1 .. n : c[k] = s
  BY <1>3, LivePrefix
<1>4. CASE \A k \in 1 .. n : c[k] # s
  <2> DEFINE d == Append(c, s)
  <2> HIDE DEF n, s
  <2>1. /\ d \in Seq(Services) /\ Len(d) = n + 1 /\ DOMAIN d = 1 .. n + 1
        /\ d[n + 1] = s
        /\ \A i \in 1 .. n : d[i] = c[i]
    BY <1>1, <1>2 DEF n
  <2> HIDE DEF d
  <2>2. \A i \in 1 .. n + 1 : i \in 1 .. n \/ i = n + 1
    BY <1>1
  <2>3. \A i, j \in 1 .. n + 1 : d[i] = d[j] => i = j
    <3> SUFFICES ASSUME NEW i \in 1 .. n + 1, NEW j \in 1 .. n + 1, d[i] = d[j] PROVE i = j
      OBVIOUS
    <3>1. CASE i \in 1 .. n /\ j \in 1 .. n
      BY <1>1, <2>1, <3>1
    <3>2. CASE i \in 1 .. n /\ j = n + 1
      BY <1>4, <2>1, <3>2
    <3>3. CASE i = n + 1 /\ j \in 1 .. n
      BY <1>4, <2>1, <3>3
    <3>. QED
      BY <2>2, <3>1, <3>2, <3>3
  <2>4. n + 1 <= NumServices
    <3>1. d \in [1 .. n + 1 -> Services]
      BY <2>1
    <3>2. IsFiniteSet(Services) /\ IsFiniteSet(1 .. n + 1) /\ Cardinality(1 .. n + 1) = n + 1
      <4>1. 1 \in Int /\ n + 1 \in Int /\ 1 <= n + 1
        BY <1>1
      <4>2. IsFiniteSet(1 .. n + 1) /\ Cardinality(1 .. n + 1) = IF 1 > n + 1 THEN 0 ELSE (n + 1) - 1 + 1
        BY <4>1, FS_Interval
      <4>. QED
        BY <1>1, <4>2, ServicesFinite
    <3>3. d \in Injection(1 .. n + 1, Services)
      BY <2>3, <3>1 DEF Injection, IsInjective
    <3>4. Cardinality(1 .. n + 1) <= Cardinality(Services)
      BY <3>2, <3>3, FS_Injection
    <3>. QED
      BY <3>2, <3>4, ServicesFinite
  <2>5. d \in SeqOf(Services, Cardinality(Services))
    BY <1>1, <2>1, <2>4, SeqOfMembers, ServicesFinite
  <2>6. 1 \in 1 .. n /\ d[1] = entry /\ IsInjective(d) /\ n + 1 > 0
    BY <1>1, <2>1, <2>3 DEF IsInjective
  <2>7. ASSUME NEW i \in 1 .. (n + 1) - 1 PROVE \E f \in Between(modes, d[i], d[i + 1]) : f \in sampled.edges
    <3>1. CASE i \in 1 .. n - 1
      <4>1. i \in 1 .. n /\ i + 1 \in 1 .. n
        BY <1>1, <3>1
      <4>. QED
        BY <2>1, <3>1, <4>1 DEF LiveChain, n
    <3>2. CASE i = n
      <4>1. n \in 1 .. n
        BY <1>1
      <4>. QED
        BY <1>2, <2>1, <3>2, <4>1
    <3>3. i \in 1 .. n - 1 \/ i = n
      BY <1>1
    <3>. QED
      BY <3>1, <3>2, <3>3
  <2>8. d \in Chains(modes, entry)
    BY <2>1, <2>5, <2>6, <2>7 DEF Chains
  <2>9. \A i \in 1 .. n + 1 : d[i] \in sampled.services
    <3>1. \A i \in 1 .. n : c[i] \in sampled.services
      BY DEF LiveChain, n
    <3>2. s \in sampled.services
      BY DEF s
    <3>. QED
      BY <2>1, <2>2, <3>1, <3>2
  <2>10. LiveChain(d, modes, entry)
    BY <2>1, <2>7, <2>8, <2>9 DEF LiveChain
  <2>. QED
    BY <2>1, <2>10 DEF s
<1>. QED
  BY <1>3, <1>4

\* A service is reached if and only if a live chain ends there.
LEMMA ReachedByChain ==
  ASSUME plan \in Plans, NEW modes, NEW entry \in Services, NEW s
  PROVE  s \in Reached(Selected(modes), entry)
           <=> \E c : LiveChain(c, modes, entry) /\ c[Len(c)] = s
<1>1. ASSUME NEW c, LiveChain(c, modes, entry), c[Len(c)] = s
      PROVE  s \in Reached(Selected(modes), entry)
  <2>1. Len(c) \in Nat \ {0}
    BY <1>1, ChainIs DEF LiveChain
  <2>2. Len(c) \in 1 .. Len(c)
    BY <2>1
  <2>. QED
    BY <1>1, <2>2, ChainsReach
<1>2. ASSUME s \in Reached(Selected(modes), entry)
      PROVE  \E c : LiveChain(c, modes, entry) /\ c[Len(c)] = s
  <2>1. PICK h : Hops(h, Selected(modes), entry) /\ Reached(Selected(modes), entry) = h[NumServices]
    BY ReachedUnfold
  <2> DEFINE Chained(t) == \E c : LiveChain(c, modes, entry) /\ c[Len(c)] = t
             T == {n \in Nat : n \in 0 .. NumServices => \A t \in h[n] : Chained(t)}
  <2>2. 0 \in T
    <3> SUFFICES ASSUME NEW t \in h[0] PROVE Chained(t)
      OBVIOUS
    <3>1. t = entry /\ entry \in sampled.services
      BY <2>1 DEF Hops
    <3> DEFINE c == <<entry>>
    <3>2. c \in Seq(Services) /\ Len(c) = 1 /\ DOMAIN c = 1 .. 1 /\ c[1] = entry
      OBVIOUS
    <3> HIDE DEF c
    <3>3. \A i \in 1 .. 1 : i = 1
      OBVIOUS
    <3>4. \A i \in 1 .. 1 - 1 : FALSE
      OBVIOUS
    <3>5. c \in SeqOf(Services, Cardinality(Services))
      <4>1. NumServices \in Nat /\ 1 <= NumServices
        BY PlanAssumption
      <4>. QED
        BY <3>2, <4>1, SeqOfMembers, ServicesFinite
    <3>6. IsInjective(c)
      BY <3>2, <3>3 DEF IsInjective
    <3>7. c \in Chains(modes, entry)
      <4>1. Len(c) > 0 /\ \A i \in 1 .. Len(c) - 1 : Between(modes, c[i], c[i + 1]) # {}
        BY <3>2, <3>4
      <4>. QED
        BY <3>2, <3>5, <3>6, <4>1 DEF Chains
    <3>8. LiveChain(c, modes, entry)
      BY <3>1, <3>2, <3>3, <3>4, <3>7 DEF LiveChain
    <3>. QED
      BY <3>1, <3>2, <3>8
  <2>3. ASSUME NEW n \in T PROVE n + 1 \in T
    <3> SUFFICES ASSUME n + 1 \in 0 .. NumServices, NEW t \in h[n + 1] PROVE Chained(t)
      OBVIOUS
    <3>1. n + 1 \in 1 .. NumServices /\ (n + 1) - 1 = n /\ n \in 0 .. NumServices
      BY ServicesFinite
    <3>2. \A u \in h[n] : Chained(u)
      BY <3>1
    <3>3. CASE t \in h[n]
      BY <3>2, <3>3
    <3>4. CASE t \notin h[n]
      <4>1. h[n + 1] = h[(n + 1) - 1] \cup {plan.edges[f].to : f \in {g \in Selected(modes) \cap sampled.edges :
                     plan.edges[g].from \in h[(n + 1) - 1] /\ plan.edges[g].to \in sampled.services}}
        BY <2>1, <3>1 DEF Hops
      <4>2. PICK e \in Selected(modes) : /\ e \in sampled.edges /\ plan.edges[e].from \in h[n]
                                         /\ plan.edges[e].to \in sampled.services /\ plan.edges[e].to = t
        BY <3>1, <3>4, <4>1
      <4>3. PICK c : LiveChain(c, modes, entry) /\ c[Len(c)] = plan.edges[e].from
        BY <3>2, <4>2
      <4>4. \E d : LiveChain(d, modes, entry) /\ d[Len(d)] = plan.edges[e].to
        BY <4>2, <4>3, LiveExtension
      <4>. QED
        BY <4>2, <4>4
    <3>. QED
      BY <3>3, <3>4
  <2>4. T = Nat
    <3>1. T \in SUBSET Nat
      OBVIOUS
    <3> HIDE DEF T
    <3>. QED
      BY <2>2, <2>3, <3>1, SetInduction
  <2>5. NumServices \in T /\ NumServices \in 0 .. NumServices
    BY <2>4, ServicesFinite
  <2>. QED
    BY <1>2, <2>1, <2>5
<1>. QED
  BY <1>1, <1>2

\* A path succeeds if and only if its chain is live, as long as no edge is
\* parallel to another: of those only the first is part of a path.
LEMMA SucceedsIfLive ==
  ASSUME plan \in Plans, NEW modes, NoParallel(Selected(modes)), NEW entry,
         NEW c \in Chains(modes, entry), PathOf(modes, c) \in viable
  PROVE  PathSucceeds(PathOf(modes, c), sampled) <=> LiveChain(c, modes, entry)
<1> DEFINE n == Len(c)
           path == PathOf(modes, c)
<1>1. n \in Nat \ {0} /\ DOMAIN c = 1 .. n
  BY ChainIs
<1>2. /\ path.services = c /\ DOMAIN path.edges = 1 .. n - 1
      /\ \A i \in 1 .. n - 1 : path.edges[i] \in Between(modes, c[i], c[i + 1])
  BY PathIs
<1> HIDE DEF n, path
<1>3. ASSUME NEW i \in 1 .. n - 1, NEW e \in Between(modes, c[i], c[i + 1]) PROVE e = path.edges[i]
  <2>1. path.edges[i] \in Between(modes, c[i], c[i + 1])
    BY <1>2
  <2>2. /\ e \in Selected(modes) /\ path.edges[i] \in Selected(modes)
        /\ plan.edges[e].from = plan.edges[path.edges[i]].from
        /\ plan.edges[e].to = plan.edges[path.edges[i]].to
    BY <2>1, AllowedSelected DEF Between
  <2>. QED
    BY <2>2 DEF NoParallel
<1>4. Range(path.services) \subseteq sampled.services <=> \A i \in 1 .. n : c[i] \in sampled.services
  BY <1>1, <1>2 DEF Range
<1>5. Range(path.edges) \subseteq sampled.edges
        <=> \A i \in 1 .. n - 1 : \E e \in Between(modes, c[i], c[i + 1]) : e \in sampled.edges
  <2>1. Range(path.edges) \subseteq sampled.edges <=> \A i \in 1 .. n - 1 : path.edges[i] \in sampled.edges
    BY <1>2 DEF Range
  <2>. QED
    BY <1>2, <1>3, <2>1
<1>6. path \in viable
  BY DEF path
<1>7. PathSucceeds(path, sampled) <=> LiveChain(c, modes, entry)
  BY <1>4, <1>5, <1>6 DEF PathSucceeds, LiveChain, n
<1>. QED
  BY <1>7 DEF path

\* The paths to a target decide whether it is reached.
LEMMA TargetReached ==
  ASSUME plan \in Plans, NEW ep \in Endpoint, NoParallel(Selected(ep.modes)), NEW t,
         PathsTo(ep, t) \subseteq viable
  PROVE  (\E path \in PathsTo(ep, t) : PathSucceeds(path, sampled))
           <=> t \in Reached(Selected(ep.modes), ep.entry)
<1>1. ep.entry \in Services
  BY Endpoints
<1>2. t \in Reached(Selected(ep.modes), ep.entry)
        <=> \E c : LiveChain(c, ep.modes, ep.entry) /\ c[Len(c)] = t
  BY <1>1, ReachedByChain
<1>3. ASSUME NEW path \in PathsTo(ep, t), PathSucceeds(path, sampled)
      PROVE  \E c : LiveChain(c, ep.modes, ep.entry) /\ c[Len(c)] = t
  <2>1. PICK c \in Chains(ep.modes, ep.entry) : path = PathOf(ep.modes, c) /\ c[Len(c)] = t
    BY DEF PathsTo
  <2>. QED
    BY <1>3, <2>1, SucceedsIfLive
<1>4. ASSUME NEW c, LiveChain(c, ep.modes, ep.entry), c[Len(c)] = t
      PROVE  \E path \in PathsTo(ep, t) : PathSucceeds(path, sampled)
  <2>1. c \in Chains(ep.modes, ep.entry)
    BY <1>4 DEF LiveChain
  <2>2. PathOf(ep.modes, c) \in PathsTo(ep, t)
    BY <1>4, <2>1 DEF PathsTo
  <2>. QED
    BY <1>4, <2>1, <2>2, SucceedsIfLive
<1>. QED
  BY <1>2, <1>3, <1>4

\* What is reached is up, and so is the entry service if it is.
LEMMA ReachedIsUp ==
  ASSUME plan \in Plans, NEW modes, NEW entry \in Services
  PROVE  /\ Reached(Selected(modes), entry) \subseteq sampled.services
         /\ entry \in sampled.services => entry \in Reached(Selected(modes), entry)
<1>1. ASSUME NEW s \in Reached(Selected(modes), entry) PROVE s \in sampled.services
  <2>1. PICK c : LiveChain(c, modes, entry) /\ c[Len(c)] = s
    BY ReachedByChain
  <2>2. Len(c) \in 1 .. Len(c)
    BY <2>1, ChainIs DEF LiveChain
  <2>. QED
    BY <2>1, <2>2 DEF LiveChain
<1>2. ASSUME entry \in sampled.services PROVE entry \in Reached(Selected(modes), entry)
  <2>1. PICK h : Hops(h, Selected(modes), entry) /\ Reached(Selected(modes), entry) = h[NumServices]
    BY ReachedUnfold
  <2> DEFINE T == {n \in Nat : n \in 0 .. NumServices => entry \in h[n]}
  <2>2. 0 \in T
    BY <1>2, <2>1 DEF Hops
  <2>3. ASSUME NEW n \in T PROVE n + 1 \in T
    <3> SUFFICES ASSUME n + 1 \in 0 .. NumServices PROVE entry \in h[n + 1]
      OBVIOUS
    <3>1. n + 1 \in 1 .. NumServices /\ (n + 1) - 1 = n /\ n \in 0 .. NumServices
      BY ServicesFinite
    <3>2. h[(n + 1) - 1] \subseteq h[n + 1]
      BY <2>1, <3>1 DEF Hops
    <3>. QED
      BY <3>1, <3>2
  <2>4. T = Nat
    <3>1. T \in SUBSET Nat
      OBVIOUS
    <3> HIDE DEF T
    <3>. QED
      BY <2>2, <2>3, <3>1, SetInduction
  <2>5. NumServices \in T /\ NumServices \in 0 .. NumServices
    BY <2>4, ServicesFinite
  <2>. QED
    BY <2>1, <2>5
<1>. QED
  BY <1>1, <1>2

\* Where an edge that is up leads from what is reached, to a service that is up,
\* is reached.
LEMMA ReachedGoesOn ==
  ASSUME plan \in Plans, NEW modes, NEW entry \in Services, NEW e \in Selected(modes),
         e \in sampled.edges, plan.edges[e].from \in Reached(Selected(modes), entry),
         plan.edges[e].to \in sampled.services
  PROVE  plan.edges[e].to \in Reached(Selected(modes), entry)
<1>1. PICK c : LiveChain(c, modes, entry) /\ c[Len(c)] = plan.edges[e].from
  BY ReachedByChain
<1>2. \E d : LiveChain(d, modes, entry) /\ d[Len(d)] = plan.edges[e].to
  BY <1>1, LiveExtension
<1>. QED
  BY <1>2, ReachedByChain

\* Targets and required edges decide what the paths of an endpoint decide.
LEMMA TargetsMeanReachability ==
  ASSUME plan \in Plans, NEW ep \in Endpoint, ep.mode = "edge_aware", EdgesResolve(ep),
         NoParallel(Selected(ep.modes)), UNION TargetPaths(ep) \subseteq viable
  PROVE  (\A g \in TargetPaths(ep) : \E path \in g : PathSucceeds(path, sampled)) <=> Reachable(ep)
<1> DEFINE reached == Reached(Selected(ep.modes), ep.entry)
           Holds(g) == \E path \in g : PathSucceeds(path, sampled)
           Called(e) == {plan.edges[e].from, plan.edges[e].to}
           Callers == {e \in ep.required : plan.edges[e].from # ep.entry}
<1>1. ep.entry \in Services
  BY Endpoints
<1>2. \A g \in TargetPaths(ep) : g \subseteq viable
  OBVIOUS
<1>3. (\A g \in TargetPaths(ep) : Holds(g))
        <=> /\ \A t \in ep.targets : Holds(PathsTo(ep, t))
            /\ \A e \in Callers : Holds(PathsTo(ep, plan.edges[e].from))
            /\ \A e \in ep.required : Holds({RequiredPath(e)})
  <2> HIDE DEF Holds
  <2>. QED
    BY DEF TargetPaths
<1>4. \A t \in ep.targets : Holds(PathsTo(ep, t)) <=> t \in reached
  <2> SUFFICES ASSUME NEW t \in ep.targets PROVE Holds(PathsTo(ep, t)) <=> t \in reached
    OBVIOUS
  <2>1. PathsTo(ep, t) \in TargetPaths(ep)
    BY DEF TargetPaths
  <2>. QED
    BY <1>2, <2>1, TargetReached
<1>5. \A e \in Callers : Holds(PathsTo(ep, plan.edges[e].from)) <=> plan.edges[e].from \in reached
  <2> SUFFICES ASSUME NEW e \in Callers
               PROVE  Holds(PathsTo(ep, plan.edges[e].from)) <=> plan.edges[e].from \in reached
    OBVIOUS
  <2>1. PathsTo(ep, plan.edges[e].from) \in TargetPaths(ep)
    BY DEF TargetPaths
  <2>. QED
    BY <1>2, <2>1, TargetReached
<1>6. \A e \in ep.required : Holds({RequiredPath(e)}) <=> e \in sampled.edges /\ Called(e) \subseteq sampled.services
  <2> SUFFICES ASSUME NEW e \in ep.required
               PROVE  Holds({RequiredPath(e)}) <=> e \in sampled.edges /\ Called(e) \subseteq sampled.services
    OBVIOUS
  <2>1. {RequiredPath(e)} \in TargetPaths(ep)
    BY DEF TargetPaths
  <2>2. RequiredPath(e) \in viable
    BY <1>2, <2>1
  <2>3. RequiredPath(e).services = <<plan.edges[e].from, plan.edges[e].to>> /\ RequiredPath(e).edges = <<e>>
    BY DEF RequiredPath
  <2>4. Range(RequiredPath(e).services) = Called(e) /\ Range(RequiredPath(e).edges) = {e}
    BY <2>3 DEF Range
  <2>. QED
    BY <2>2, <2>4 DEF PathSucceeds
<1>7. reached \subseteq sampled.services /\ (ep.entry \in sampled.services => ep.entry \in reached)
  BY <1>1, ReachedIsUp
<1>8. \A e \in ep.required : e \in Selected(ep.modes)
  <2>1. \A e \in ep.required : e \in EdgeIDs /\ edgeAllowedByModes(plan.edges[e], ep.modes)
    BY DEF EdgesResolve, RequirableEdges
  <2>. QED
    BY <2>1, AllowedSelected
<1>9. \A e \in ep.required :
        e \in sampled.edges /\ plan.edges[e].from \in reached /\ plan.edges[e].to \in sampled.services
          => plan.edges[e].to \in reached
  BY <1>1, <1>8, ReachedGoesOn
<1>10. Reachable(ep) <=> /\ ep.targets \subseteq reached
                         /\ \A e \in ep.required : e \in sampled.edges /\ Called(e) \subseteq reached
  BY DEF Reachable
<1> HIDE DEF reached, Holds
<1>11. ASSUME \A g \in TargetPaths(ep) : Holds(g) PROVE Reachable(ep)
  <2>1. ep.targets \subseteq reached
    BY <1>3, <1>4, <1>11
  <2>2. ASSUME NEW e \in ep.required PROVE e \in sampled.edges /\ Called(e) \subseteq reached
    <3>1. e \in sampled.edges /\ Called(e) \subseteq sampled.services
      BY <1>3, <1>6, <1>11
    <3>2. plan.edges[e].from \in reached
      <4>1. CASE plan.edges[e].from = ep.entry
        BY <1>7, <3>1, <4>1
      <4>2. CASE plan.edges[e].from # ep.entry
        BY <1>3, <1>5, <1>11, <4>2
      <4>. QED
        BY <4>1, <4>2
    <3>. QED
      BY <1>9, <3>1, <3>2
  <2>. QED
    BY <1>10, <2>1, <2>2
<1>12. ASSUME Reachable(ep) PROVE \A g \in TargetPaths(ep) : Holds(g)
  <2>1. \A t \in ep.targets : Holds(PathsTo(ep, t))
    BY <1>4, <1>10, <1>12
  <2>2. \A e \in Callers : Holds(PathsTo(ep, plan.edges[e].from))
    BY <1>5, <1>10, <1>12
  <2>3. \A e \in ep.required : Holds({RequiredPath(e)})
    BY <1>6, <1>7, <1>10, <1>12
  <2>. QED
    BY <1>3, <2>1, <2>2, <2>3
<1>. QED
  BY <1>11, <1>12 DEF Holds

\* On a chain of an acyclic model, services ascend.
LEMMA ChainAscends ==
  ASSUME plan \in Plans, NEW modes, Acyclic(Selected(modes)), NEW entry,
         NEW c \in Chains(modes, entry)
  PROVE  \A i \in 1 .. Len(c) : c[i] <= c[Len(c)]
<1>1. /\ Len(c) \in Nat \ {0} /\ c \in Seq(Services)
      /\ \A i \in 1 .. Len(c) - 1 : Between(modes, c[i], c[i + 1]) # {}
  BY ChainIs
<1>2. \A i \in 1 .. Len(c) : c[i] \in Nat
  <2>1. \A i \in 1 .. Len(c) : c[i] \in Services
    BY <1>1
  <2>2. Services \subseteq Nat
    BY ServicesFinite DEF Services
  <2>. QED
    BY <2>1, <2>2
<1>3. \A i \in 1 .. Len(c) - 1 : c[i] < c[i + 1]
  <2> SUFFICES ASSUME NEW i \in 1 .. Len(c) - 1 PROVE c[i] < c[i + 1]
    OBVIOUS
  <2>1. PICK e \in EdgeIDs : e \in Between(modes, c[i], c[i + 1])
    BY <1>1 DEF Between
  <2>2. e \in Selected(modes) /\ plan.edges[e].from = c[i] /\ plan.edges[e].to = c[i + 1]
    BY <2>1, AllowedSelected DEF Between
  <2>. QED
    BY <2>2 DEF Acyclic
<1> DEFINE n == Len(c)
           T == {d \in Nat : n - d \in 1 .. n => c[n - d] <= c[n]}
<1>4. 0 \in T
  BY <1>1, <1>2
<1>5. ASSUME NEW d \in T PROVE d + 1 \in T
  <2> SUFFICES ASSUME n - (d + 1) \in 1 .. n PROVE c[n - (d + 1)] <= c[n]
    OBVIOUS
  <2> DEFINE k == n - (d + 1)
  <2> HIDE DEF n
  <2>1. /\ d \in Nat /\ k \in 1 .. n - 1 /\ k + 1 = n - d /\ k \in 1 .. n /\ k + 1 \in 1 .. n /\ n \in 1 .. n
    BY <1>1 DEF n
  <2>2. c[k + 1] <= c[n]
    BY <2>1
  <2>3. c[k] \in Nat /\ c[k + 1] \in Nat /\ c[n] \in Nat /\ c[k] < c[k + 1]
    BY <1>2, <1>3, <2>1 DEF n
  <2> HIDE DEF k
  <2>4. c[k] <= c[n]
    BY <2>2, <2>3
  <2>. QED
    BY <2>4 DEF k
<1>6. T = Nat
  <2>1. T \in SUBSET Nat
    OBVIOUS
  <2> HIDE DEF T
  <2>. QED
    BY <1>4, <1>5, <2>1, SetInduction
<1>7. ASSUME NEW i \in 1 .. Len(c) PROVE c[i] <= c[Len(c)]
  <2>1. n - i \in Nat /\ n - (n - i) = i
    BY <1>1
  <2>2. n - i \in T
    BY <1>6, <2>1
  <2>. QED
    BY <2>1, <2>2
<1>. QED
  BY <1>7

\* In an acyclic model, the journeys from an entry decide whether it reaches a
\* service that calls no other.
LEMMA JourneysMeanReachability ==
  ASSUME plan \in Plans, NEW ep \in Endpoint, Acyclic(Selected({"sync"})),
         NoParallel(Selected({"sync"})), JourneyPaths(ep) \subseteq viable
  PROVE  (\E path \in JourneyPaths(ep) : PathSucceeds(path, sampled)) <=> LeafReached(ep)
<1> DEFINE modes == {"sync"}
<1> HIDE DEF modes
<1>1. Acyclic(Selected(modes)) /\ NoParallel(Selected(modes)) /\ ep.entry \in Services
  BY Endpoints DEF modes
<1>2. JourneyPaths(ep) = {PathOf(modes, c) : c \in {d \in Chains(modes, ep.entry) :
                            \A s \in Services \ Range(d) : Between(modes, d[Len(d)], s) = {}}}
  BY DEF JourneyPaths, modes
<1>3. LeafReached(ep) <=> \E s \in Reached(Selected(modes), ep.entry) :
                            \A e \in Selected(modes) : plan.edges[e].from # s
  BY DEF LeafReached, modes
<1>4. ASSUME NEW path \in JourneyPaths(ep), PathSucceeds(path, sampled) PROVE LeafReached(ep)
  <2>1. PICK c \in Chains(modes, ep.entry) :
          /\ path = PathOf(modes, c)
          /\ \A s \in Services \ Range(c) : Between(modes, c[Len(c)], s) = {}
    BY <1>2
  <2>2. LiveChain(c, modes, ep.entry)
    BY <1>1, <1>4, <2>1, SucceedsIfLive
  <2>3. c[Len(c)] \in Reached(Selected(modes), ep.entry)
    BY <1>1, <2>2, ReachedByChain
  <2>4. ASSUME NEW e \in Selected(modes), plan.edges[e].from = c[Len(c)] PROVE FALSE
    <3>1. e \in EdgeIDs /\ plan.edges[e].to \in Services /\ e \in Between(modes, c[Len(c)], plan.edges[e].to)
      BY <2>4, Model, AllowedSelected DEF Selected, Between
    <3>2. PICK k \in 1 .. Len(c) : c[k] = plan.edges[e].to
      <4>1. plan.edges[e].to \in Range(c) /\ DOMAIN c = 1 .. Len(c)
        BY <2>1, <3>1, ChainIs
      <4>. QED
        BY <4>1 DEF Range
    <3>3. plan.edges[e].to <= plan.edges[e].from
      BY <1>1, <2>4, <3>2, ChainAscends
    <3>4. plan.edges[e].from < plan.edges[e].to /\ plan.edges[e].from \in Nat /\ plan.edges[e].to \in Nat
      BY <1>1, <3>1, Model DEF Acyclic, Services
    <3>. QED
      BY <3>3, <3>4
  <2>. QED
    BY <1>3, <2>3, <2>4
<1>5. ASSUME NEW s \in Reached(Selected(modes), ep.entry), \A e \in Selected(modes) : plan.edges[e].from # s
      PROVE  \E path \in JourneyPaths(ep) : PathSucceeds(path, sampled)
  <2>1. PICK c : LiveChain(c, modes, ep.entry) /\ c[Len(c)] = s
    BY <1>1, ReachedByChain
  <2>2. c \in Chains(modes, ep.entry)
    BY <2>1 DEF LiveChain
  <2>3. \A t : Between(modes, c[Len(c)], t) = {}
    BY <1>5, <2>1, AllowedSelected DEF Between
  <2>4. PathOf(modes, c) \in JourneyPaths(ep)
    BY <1>2, <2>2, <2>3
  <2>. QED
    BY <1>1, <2>1, <2>2, <2>4, SucceedsIfLive
<1>. QED
  BY <1>3, <1>4, <1>5

\* Enumerating simple paths and deciding each decides what reachability decides,
\* whatever the model: of all targets and required edges of an edge_aware
\* predicate, or of some last service of a journey.  Edges that are followed must
\* not be parallel, and journeys must not end in a cycle.
THEOREM PathsDecideReachability == FaultSpec => []PathsMeanReachability
<1>1. EndpointInv => PathsMeanReachability
  <2> SUFFICES ASSUME EndpointInv, NEW i \in EndpointIDs, Judged(i),
                      NoParallel(Selected(Follows(plan.endpoints[i]))),
                      \/ plan.endpoints[i].mode = "edge_aware"
                      \/ plan.endpoints[i].mode = "journey" /\ Acyclic(Selected({"sync"}))
               PROVE  i \in success <=> IF plan.endpoints[i].mode = "journey"
                                        THEN LeafReached(plan.endpoints[i]) ELSE Reachable(plan.endpoints[i])
    BY DEF PathsMeanReachability
  <2> DEFINE ep == plan.endpoints[i]
  <2>1. /\ plan \in Plans /\ EdgesResolve(ep)
        /\ groups[i] = GroupsOf(ep) /\ diagnostic[i] = DiagnosticPaths(ep)
        /\ viable = UNION {diagnostic[j] : j \in EndpointIDs}
        /\ success = Succeeding(sampled)
    BY DEF EndpointInv, PlanInv, ContextInv, TrialInv, Judged
  <2>2. ep \in Endpoint
    BY <2>1, Model
  <2>3. DiagnosticPaths(ep) \subseteq viable
    BY <2>1
  <2>4. ep.mode # "predicate" /\ (i \in success <=> \A g \in GroupsOf(ep) : \E path \in g : PathSucceeds(path, sampled))
    BY <2>1 DEF Succeeding, EndpointSucceeds
  <2>5. NoParallel(Selected(Follows(ep))) /\ (ep.mode = "edge_aware" \/ (ep.mode = "journey" /\ Acyclic(Selected({"sync"}))))
    OBVIOUS
  <2>6. SUFFICES i \in success <=> IF ep.mode = "journey" THEN LeafReached(ep) ELSE Reachable(ep)
    OBVIOUS
  <2> HIDE DEF ep
  <2>7. CASE ep.mode = "edge_aware"
    <3>1. GroupsOf(ep) = TargetPaths(ep) /\ DiagnosticPaths(ep) = UNION TargetPaths(ep) /\ Follows(ep) = ep.modes
      BY <2>7 DEF GroupsOf, DiagnosticPaths, Follows
    <3>. QED
      BY <2>1, <2>2, <2>3, <2>4, <2>5, <2>7, <3>1, TargetsMeanReachability
  <2>8. CASE ep.mode = "journey" /\ Acyclic(Selected({"sync"}))
    <3>1. GroupsOf(ep) = {JourneyPaths(ep)} /\ DiagnosticPaths(ep) = JourneyPaths(ep) /\ Follows(ep) = {"sync"}
      BY <2>8 DEF GroupsOf, DiagnosticPaths, Follows
    <3>. QED
      BY <2>1, <2>2, <2>3, <2>4, <2>5, <2>8, <3>1, JourneysMeanReachability
  <2>. QED
    BY <2>5, <2>7, <2>8
<1>. QED
  BY <1>1, EndpointInvariant, PTL
=============================================================================
