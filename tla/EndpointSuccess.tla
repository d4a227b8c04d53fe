--------------------------- MODULE EndpointSuccess ---------------------------
(***************************************************************************)
(* What an endpoint needs of the services and edges that a trial left up,  *)
(* and Birnbaum analysis, which asks again with one component toggled:     *)
(* buildAdvancedContext and runAdvancedProfile of                          *)
(* internal/simulation/advanced.go, runBirnbaum of importance.go and       *)
(* Evaluate of internal/predicates.  Services and edges are numbers, in    *)
(* the order of their IDs.                                                 *)
(*                                                                         *)
(* executePath is abstracted by what PathExecution shows of it: a path     *)
(* succeeds if it is viable, that is if it succeeds with everything up,    *)
(* and its components are up.                                              *)
(***************************************************************************)
EXTENDS Integers, Sequences, FiniteSets, SequencesExt

CONSTANTS
  NumServices,
  Plans     \* [edges, endpoints, brownouts]: the models considered, see Plan

Services == 1 .. NumServices

EdgeOf == [from : Services, to : Services, kind : {"sync", "async"}, blocking : BOOLEAN]

\* Predicates nest; two levels are modelled.
Leaf      == [type : {"all_of", "any_of", "k_of_n", "edge_aware"}, services : SUBSET Services, k : Nat]
Predicate == [type : {"all_of", "any_of", "k_of_n"}, services : SUBSET Services,
              children : SUBSET Leaf, k : Nat]

\* required: IDs, that the model may not have.  A nested edge_aware predicate
\* has the entry, targets and modes of its endpoint and no required edges.
Endpoint == [mode : {"predicate", "journey", "edge_aware"}, entry : Services,
             targets : SUBSET Services, modes : SUBSET {"sync", "async"},
             required : SUBSET Nat, predicate : Predicate]

ASSUME PlanAssumption ==
  /\ NumServices \in Nat \ {0}
  /\ \A p \in Plans : /\ p.edges \in Seq(EdgeOf) /\ p.endpoints \in Seq(Endpoint)
                   /\ p.brownouts \in BOOLEAN
                   /\ \A i \in DOMAIN p.endpoints :
                        /\ IsFiniteSet(p.endpoints[i].predicate.children)
                        /\ p.endpoints[i].mode = "edge_aware" =>
                             p.endpoints[i].targets # {} /\ p.endpoints[i].modes # {}

VARIABLES
  plan,
  pc,           \* "context", "trial", "importance", "up", "down", "error" or "nonmonotonic"
  groups,       \* per endpoint, the sets of alternative paths it needs one each of
  diagnostic,   \* per endpoint, the paths that are executed for the report
  viable,       \* paths that succeed with everything up, in the trial
  sampled,      \* the services and edges that are up in the trial
  world,        \* the same maps, which Birnbaum analysis toggles in place
  success,      \* endpoints that succeeded in the trial
  pathSuccess,  \* per path ID, what the trial added to its successes
  component,    \* the next component to toggle
  original,     \* whether that component was up before it was toggled
  turn,         \* the endpoint that is asked
  paired        \* per component, the endpoints that succeed with it up and down

toggling == <<world, component, original, turn, paired>>
context  == <<plan, groups, diagnostic, viable>>
results  == <<sampled, success, pathSuccess>>

vars == <<pc, context, results, toggling>>

-----------------------------------------------------------------------------
(* buildAdvancedContext: the paths of an endpoint.                         *)

EdgeIDs     == DOMAIN plan.edges
EndpointIDs == DOMAIN plan.endpoints

\* Mutant: an edge of a listed kind need not block.
edgeAllowedByKind(edge, modes) == edge.kind \in modes

edgeAllowedByModes(edge, modes) ==
  \/ "sync" \in modes /\ edge.kind = "sync" /\ edge.blocking
  \/ "async" \in modes /\ edge.kind = "async"

Between(modes, a, b) ==
  {e \in EdgeIDs : /\ edgeAllowedByModes(plan.edges[e], modes)
                   /\ plan.edges[e].from = a /\ plan.edges[e].to = b}

\* Both searches visit a service once.
Chains(modes, entry) ==
  {c \in SeqOf(Services, Cardinality(Services)) :
     /\ Len(c) > 0 /\ IsInjective(c) /\ c[1] = entry
     /\ \A i \in 1 .. Len(c) - 1 : Between(modes, c[i], c[i + 1]) # {}}

\* One path per chain of services, with the first of parallel edges.
PathOf(modes, c) ==
  [required |-> FALSE, services |-> c,
   edges |-> [i \in 1 .. Len(c) - 1 |-> Min(Between(modes, c[i], c[i + 1]))]]

\* discoverJourneys: chains that cannot go on.
JourneyPaths(ep) ==
  {PathOf({"sync"}, c) : c \in {d \in Chains({"sync"}, ep.entry) :
     \A s \in Services \ Range(d) : Between({"sync"}, d[Len(d)], s) = {}}}

\* discoverJourneyPathsToTarget.
PathsTo(ep, target) ==
  {PathOf(ep.modes, c) : c \in {d \in Chains(ep.modes, ep.entry) : d[Len(d)] = target}}

RequiredPath(e) ==
  [required |-> TRUE, services |-> <<plan.edges[e].from, plan.edges[e].to>>, edges |-> <<e>>]

\* Required edges must be known, of the modes, and below the entry service.
RequirableEdges(ep) ==
  {e \in EdgeIDs : /\ edgeAllowedByModes(plan.edges[e], ep.modes)
                   /\ plan.edges[e].from # ep.entry => PathsTo(ep, plan.edges[e].from) # {}}

EdgesResolve(ep) == ep.mode = "edge_aware" => ep.required \subseteq RequirableEdges(ep)

\* buildEdgeAwarePaths: targets, callers of required edges, required edges.
TargetPaths(ep) ==
  {PathsTo(ep, t) : t \in ep.targets}
    \cup {PathsTo(ep, plan.edges[e].from) : e \in {f \in ep.required : plan.edges[f].from # ep.entry}}
    \cup {{RequiredPath(e)} : e \in ep.required}

GroupsOf(ep) ==
  CASE ep.mode = "edge_aware" -> TargetPaths(ep)
    [] ep.mode = "journey"    -> {JourneyPaths(ep)}
    [] ep.mode = "predicate"  -> {}

DiagnosticPaths(ep) ==
  IF ep.mode = "edge_aware" THEN UNION TargetPaths(ep) ELSE JourneyPaths(ep)

-----------------------------------------------------------------------------
(* Predicates and endpoints, given what is up.                             *)

\* Mutant: exactly k operands.
ExactCombine(def, n, of) ==
  CASE def.type = "all_of" -> n = of
    [] def.type = "any_of" -> n > 0
    [] def.type = "k_of_n" -> n = def.k
    [] OTHER               -> FALSE

\* n of the operands succeed.  Evaluate knows no edge_aware predicate.
Combine(def, n, of) ==
  CASE def.type = "all_of" -> n = of
    [] def.type = "any_of" -> n > 0
    [] def.type = "k_of_n" -> n >= def.k
    [] OTHER               -> FALSE

EvaluateLeaf(def, up) ==
  Combine(def, Cardinality(def.services \cap up), Cardinality(def.services))

Evaluate(def, up) ==
  Combine(def,
    Cardinality(def.services \cap up) + Cardinality({c \in def.children : EvaluateLeaf(c, up)}),
    Cardinality(def.services) + Cardinality(def.children))

PathSucceeds(path, state) ==
  path \in viable /\ Range(path.services) \subseteq state.services /\ Range(path.edges) \subseteq state.edges

\* Mutant: one target is enough.
AnyTargetReached(i, state) ==
  IF plan.endpoints[i].mode = "predicate"
  THEN Evaluate(plan.endpoints[i].predicate, state.services)
  ELSE \E g \in groups[i] : \E path \in g : PathSucceeds(path, state)

EndpointSucceeds(i, state) ==
  IF plan.endpoints[i].mode = "predicate"
  THEN Evaluate(plan.endpoints[i].predicate, state.services)
  ELSE \A g \in groups[i] : \E path \in g : PathSucceeds(path, state)

Succeeding(state) == {i \in EndpointIDs : EndpointSucceeds(i, state)}

-----------------------------------------------------------------------------
Components == [kind : {"service"}, id : Services] \cup [kind : {"edge"}, id : EdgeIDs]
ComponentSeq ==
  [i \in Services |-> [kind |-> "service", id |-> i]] \o [e \in EdgeIDs |-> [kind |-> "edge", id |-> e]]

IsUp(state, c) == c.id \in IF c.kind = "service" THEN state.services ELSE state.edges

With(state, c, up) ==
  LET In(set, kind) == IF c.kind # kind THEN set ELSE IF up THEN set \cup {c.id} ELSE set \ {c.id}
  IN [services |-> In(state.services, "service"), edges |-> In(state.edges, "edge")]

Init ==
  /\ plan \in Plans
  /\ pc = "context" /\ groups = << >> /\ diagnostic = << >> /\ viable = {}
  /\ sampled = [services |-> {}, edges |-> {}] /\ world = sampled
  /\ success = {} /\ pathSuccess = << >>
  /\ component = 1 /\ original = FALSE /\ turn = 1 /\ paired = << >>

ContextFails ==
  /\ pc = "context"
  /\ \E i \in EndpointIDs : ~EdgesResolve(plan.endpoints[i])
  /\ pc' = "error"
  /\ UNCHANGED <<context, results, toggling>>

\* Brownouts, retries and timeouts decide which paths are viable.
BuildContext ==
  /\ pc = "context"
  /\ \A i \in EndpointIDs : EdgesResolve(plan.endpoints[i])
  /\ groups' = [i \in EndpointIDs |-> GroupsOf(plan.endpoints[i])]
  /\ diagnostic' = [i \in EndpointIDs |-> DiagnosticPaths(plan.endpoints[i])]
  /\ LET paths == UNION {diagnostic'[i] : i \in EndpointIDs}
     IN viable' \in IF plan.brownouts THEN SUBSET paths ELSE {paths}
  /\ pc' = "trial"
  /\ UNCHANGED <<plan, results, toggling>>

\* A path is known by its services, unless it is a required edge.
ID(path) == <<path.required, IF path.required THEN path.edges ELSE path.services>>

\* runAdvancedProfile: what is up is sampled, then every endpoint executes its
\* paths and counts them.  runBirnbaum has trials of its own; one trial stands
\* for one of each.
RunTrial ==
  /\ pc = "trial"
  /\ sampled' \in [services : SUBSET Services, edges : SUBSET EdgeIDs]
  /\ world' = sampled'
  /\ success' = Succeeding(sampled')
  /\ pathSuccess' =
       [id \in {ID(path) : path \in UNION {diagnostic[i] : i \in EndpointIDs}} |->
          Cardinality({i \in EndpointIDs :
            \E path \in diagnostic[i] : ID(path) = id /\ PathSucceeds(path, sampled')})]
  /\ pc' = "importance"
  /\ UNCHANGED <<context, component, original, turn, paired>>

\* runBirnbaum, for each component in turn: remember its value, ask every
\* endpoint with the component up and down, and put the value back.
Toggled == ComponentSeq[component]

TakeComponent ==
  /\ pc = "importance" /\ component <= Len(ComponentSeq)
  /\ original' = IsUp(world, Toggled)
  /\ turn' = 1
  /\ paired' = Append(paired, [component |-> Toggled, up |-> {}, down |-> {}])
  /\ pc' = "up"
  /\ UNCHANGED <<context, results, world, component>>

Counted(set, state) == IF EndpointSucceeds(turn, state) THEN set \cup {turn} ELSE set

ToggleUp ==
  /\ pc = "up" /\ turn \in EndpointIDs
  /\ world' = With(world, Toggled, TRUE)
  /\ paired' = [paired EXCEPT ![component].up = Counted(@, world')]
  /\ pc' = "down"
  /\ UNCHANGED <<context, results, component, original, turn>>

\* An endpoint that is helped by a component that is down fails the analysis.
ToggleDown ==
  /\ pc = "down"
  /\ world' = With(world, Toggled, FALSE)
  /\ paired' = [paired EXCEPT ![component].down = Counted(@, world')]
  /\ IF turn \in paired'[component].down \ paired'[component].up
     THEN pc' = "nonmonotonic" /\ UNCHANGED turn
     ELSE pc' = "up" /\ turn' = turn + 1
  /\ UNCHANGED <<context, results, component, original>>

\* Mutant: the component keeps the value it was toggled to last.
LeftDown(state, c, value) == state

Restored(state, c, value) == With(state, c, value)

RestoreComponent ==
  /\ pc = "up" /\ turn \notin EndpointIDs
  /\ world' = Restored(world, Toggled, original)
  /\ component' = component + 1
  /\ pc' = "importance"
  /\ UNCHANGED <<context, results, original, turn, paired>>

Importance == TakeComponent \/ ToggleUp \/ ToggleDown \/ RestoreComponent

Next == ContextFails \/ BuildContext \/ RunTrial \/ Importance

Spec == Init /\ [][Next]_vars

-----------------------------------------------------------------------------
(* Properties.                                                             *)

\* Services that a request from entry reaches over live edges: n hops at most.
Reached(edges, entry) ==
  LET hops[n \in 0 .. Cardinality(Services)] ==
        IF n = 0 THEN {entry} \cap sampled.services
        ELSE hops[n - 1] \cup {plan.edges[e].to : e \in {f \in edges \cap sampled.edges :
               plan.edges[f].from \in hops[n - 1] /\ plan.edges[f].to \in sampled.services}}
  IN hops[Cardinality(Services)]

\* "sync means blocking synchronous edges, and async is included only when
\* listed explicitly" (docs/methodology.md).
Selected(modes) ==
  {e \in EdgeIDs : plan.edges[e].kind \in modes /\ (plan.edges[e].kind = "sync" => plan.edges[e].blocking)}

NoParallel(edges) ==
  \A e, f \in edges : plan.edges[e].from = plan.edges[f].from /\ plan.edges[e].to = plan.edges[f].to => e = f

\* docs/methodology.md and docs/required-calls.md of an edge_aware predicate.
Reachable(ep) ==
  LET reached == Reached(Selected(ep.modes), ep.entry)
  IN /\ ep.targets \subseteq reached
     /\ \A e \in ep.required : /\ e \in sampled.edges
                               /\ {plan.edges[e].from, plan.edges[e].to} \subseteq reached

\* Of an endpoint without predicate: a service that calls no other is reached.
LeafReached(ep) ==
  \E s \in Reached(Selected({"sync"}), ep.entry) :
    \A e \in Selected({"sync"}) : plan.edges[e].from # s

Judged(i) == pc = "importance" /\ paired = << >> /\ ~plan.brownouts

Follows(ep) == IF ep.mode = "journey" THEN {"sync"} ELSE ep.modes

Acyclic(edges) == \A e \in edges : plan.edges[e].from < plan.edges[e].to

\* The enumeration of simple paths decides what reachability decides: of targets
\* and required edges, or, without a predicate, of some leaf.  Edges must not be
\* parallel, of which only the first is part of a path, and journeys must not
\* end in a cycle.
PathsMeanReachability ==
  \A i \in EndpointIDs :
    LET ep == plan.endpoints[i] IN
    /\ Judged(i) /\ NoParallel(Selected(Follows(ep)))
    /\ ep.mode = "edge_aware" \/ (ep.mode = "journey" /\ Acyclic(Selected({"sync"})))
    => (i \in success <=> IF ep.mode = "journey" THEN LeafReached(ep) ELSE Reachable(ep))

\* The error of runBirnbaum, "non-monotonic component", cannot occur: whatever
\* combination of predicates and paths, repairing a component fails no endpoint.
NeverNonMonotonic == pc # "nonmonotonic"

\* docs/component-criticality.md: all other components keep their sampled state.
\* runBirnbaum writes into the maps that every evaluation reads, and nothing is
\* left behind there: while a component is toggled it alone may differ from the
\* sample, between components nothing does, and one side of each comparison is
\* what the endpoints did in the trial before anything was toggled.
OthersStaySampled ==
  /\ pc \in {"up", "down"} => With(world, Toggled, TRUE) = With(sampled, Toggled, TRUE)
  /\ pc = "importance" => world = sampled
  /\ \A p \in 1 .. component - 1 :
       success = IF IsUp(sampled, paired[p].component) THEN paired[p].up ELSE paired[p].down

\* docs/component-criticality.md: "Immediate-response endpoints ignore async
\* edges", service-only predicates all edges, and no endpoint waits for an edge
\* that does not block: toggling them never makes a difference.
IgnoredEdges(ep) ==
  CASE ep.mode = "predicate"  -> EdgeIDs
    [] ep.mode = "journey"    -> EdgeIDs \ Selected({"sync"})
    [] ep.mode = "edge_aware" -> EdgeIDs \ Selected(ep.modes)

IgnoredEdgesNeverPivotal ==
  \A p \in 1 .. component - 1 : \A i \in EndpointIDs :
    paired[p].component.kind = "edge" /\ paired[p].component.id \in IgnoredEdges(plan.endpoints[i])
      => (i \in paired[p].up <=> i \in paired[p].down)
=============================================================================
