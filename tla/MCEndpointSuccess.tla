-------------------------- MODULE MCEndpointSuccess --------------------------
(* Four services in a diamond, with and without a cycle, parallel edges and  *)
(* edges that nobody waits for.                                              *)
EXTENDS EndpointSuccess

Edge(a, b, k, wait) == [from |-> a, to |-> b, kind |-> k, blocking |-> wait]
Sync(a, b)  == Edge(a, b, "sync", TRUE)
Async(a, b) == Edge(a, b, "async", FALSE)

Diamond  == << Sync(1, 2), Sync(1, 3), Sync(2, 4), Sync(3, 4) >>
Loop     == << Sync(1, 2), Sync(2, 3), Sync(3, 2), Async(3, 4), Edge(1, 4, "sync", FALSE) >>
Parallel == << Sync(1, 2), Async(1, 2), Sync(2, 3), Sync(2, 3) >>

None == [type |-> "any_of", services |-> {}, children |-> {}, k |-> 0]
LeafOf(type, services, k) == [type |-> type, services |-> services, k |-> k]
Nested(type, services, children, k) ==
  [type |-> type, services |-> services, children |-> children, k |-> k]

EndpointOf(mode, targets, modes, required, predicate) ==
  [mode |-> mode, entry |-> 1, targets |-> targets, modes |-> modes, required |-> required,
   predicate |-> predicate]
Journey == EndpointOf("journey", {}, {}, {}, None)
EdgeAware(targets, modes, required) == EndpointOf("edge_aware", targets, modes, required, None)
Voting  == EndpointOf("predicate", {}, {}, {},
             Nested("k_of_n", {1, 2}, {LeafOf("any_of", {3, 4}, 0), LeafOf("all_of", {2, 3}, 0)}, 2))
Both    == EndpointOf("predicate", {}, {}, {}, Nested("all_of", {1}, {LeafOf("k_of_n", {2, 3, 4}, 2)}, 0))
Mixed   == EndpointOf("predicate", {2}, {"sync"}, {}, Nested("all_of", {1}, {LeafOf("edge_aware", {}, 0)}, 0))

PlanOf(edges, endpoints, brownouts) == [edges |-> edges, endpoints |-> endpoints, brownouts |-> brownouts]

MCPlans == {
  PlanOf(Diamond, << Journey, EdgeAware({2, 4}, {"sync"}, {}) >>, FALSE),
  PlanOf(Diamond, << EdgeAware({4}, {"sync"}, {4}), Voting >>, TRUE),
  PlanOf(Diamond, << EdgeAware({4}, {"sync"}, {1, 4}), Both >>, FALSE),
  PlanOf(Loop, << Journey, EdgeAware({3}, {"sync"}, {}), EdgeAware({3, 4}, {"sync", "async"}, {3}) >>, FALSE),
  PlanOf(Parallel, << EdgeAware({3}, {"sync", "async"}, {}), Mixed >>, FALSE),
  PlanOf(Diamond, << EdgeAware({2}, {"sync"}, {5}) >>, FALSE),
  PlanOf(Loop, << EdgeAware({2}, {"sync"}, {4}) >>, FALSE),
  PlanOf(Loop, << EdgeAware({4}, {"async"}, {4}) >>, FALSE) }
=============================================================================
