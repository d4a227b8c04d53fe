---------------------------- MODULE MCFaultProfile ----------------------------
(* The models of MCEndpointSuccess without faults, and some of them under    *)
(* fault profiles: zones, a shared resource, edges, degradations.            *)
EXTENDS FaultProfile, MCEndpointSuccess

MCServices == <<
  [labels |-> {}, refs |-> {}, eligible |-> FALSE, buckets |-> << {} >>],
  [labels |-> {"red"}, refs |-> {"db"}, eligible |-> TRUE, buckets |-> << {"a"}, {"b"} >>],
  [labels |-> {"red"}, refs |-> {"db"}, eligible |-> TRUE, buckets |-> << {"a"} >>],
  [labels |-> {}, refs |-> {}, eligible |-> TRUE, buckets |-> << {"b"} >>] >>

Nothing == [type |-> "", ids |-> {}, labels |-> {}, placement |-> {}, refs |-> {}, edges |-> {},
            onlyEligible |-> FALSE, works |-> Always, latency |-> 0]
Kill == [Nothing EXCEPT !.type = "correlated_failure_domain"]
Zone(z)   == [Kill EXCEPT !.placement = {z}]
Database  == [Kill EXCEPT !.refs = {"db"}]
Eligible  == [Kill EXCEPT !.ids = {1, 4}, !.onlyEligible = TRUE]
Cut(edges) == [Nothing EXCEPT !.type = "edge_fail_stop", !.edges = edges]
Slow(edges, works) ==
  [Nothing EXCEPT !.type = "edge_partial_degradation", !.edges = edges, !.works = works, !.latency = 2]
Red(works) ==
  [Nothing EXCEPT !.type = "service_partial_degradation", !.labels = {"red"}, !.works = works, !.latency = 1]

Profiles == {
  << Zone("a") >>, << Zone("a"), Zone("b") >>, << Database, Cut({1, 9}) >>, << Eligible >>,
  << Cut({3}) >>, << Slow({3}, Sometimes), Slow({3, 4}, Always) >>, << Red(Never) >>,
  << Red(Sometimes), Slow({1}, Always) >> }

With4(p, faults, attempts, timeout) ==
  p @@ [services |-> MCServices, faults |-> faults,
        works |-> [e \in DOMAIN p.edges |-> IF faults = << >> /\ p.brownouts THEN Sometimes ELSE Always],
        attempts |-> [e \in DOMAIN p.edges |-> IF e = 2 THEN attempts ELSE 2],
        timeout |-> [e \in DOMAIN p.edges |-> timeout], latency |-> [e \in DOMAIN p.edges |-> 1]]

Degraded(edges, endpoints) == PlanOf(edges, endpoints, TRUE)

MCFaultPlans ==
  {With4(p, << >>, 2, 0) : p \in MCPlans} \cup
  {With4(p, faults, hop[1], hop[2]) :
     p \in { Degraded(Diamond, << Journey, EdgeAware({2, 4}, {"sync"}, {}) >>),
             Degraded(Diamond, << EdgeAware({4}, {"sync"}, {4}), Voting >>),
             Degraded(Loop, << EdgeAware({3, 4}, {"sync", "async"}, {3}), Both >>),
             Degraded(Parallel, << EdgeAware({2}, {"async"}, {}), Journey >>) },
     faults \in Profiles, hop \in {<<0, 0>>, <<3, 3>>}} \cup
  {With4(Degraded(Diamond, << Journey, EdgeAware({2, 4}, {"sync"}, {}) >>), faults, 3, 1) :
     faults \in {<< Zone("a") >>, << Cut({9}) >>}}

\* One endpoint waits for the event, the other for the answer of a service: the
\* synchronous edge has no retry metadata, the asynchronous one has.
MCSharedPlans ==
  {[With4(PlanOf(Parallel, << EdgeAware({2}, {"async"}, {}), EdgeAware({2}, {"sync"}, {}) >>, FALSE),
          << >>, 3, 2) EXCEPT !.attempts[1] = 0]}
=============================================================================
