--------------------------- MODULE MCTrialSampling ---------------------------
(* Three services: the first has two placements, the last cannot fail.       *)
EXTENDS TrialSampling

MCBuckets == << [service |-> 1, replicas |-> 2], [service |-> 1, replicas |-> 1],
                [service |-> 2, replicas |-> 1], [service |-> 3, replicas |-> 1] >>
MCEligible == {1, 2}

Stresses(mode) ==
  CASE mode = "independent_replica" ->
         {<< [fixedK |-> 0, failure |-> lo], [fixedK |-> 0, failure |-> hi] >> : lo \in 0 .. 1, hi \in 1 .. 2}
    [] mode = "fixed_k_replica_slots" ->
         {<< [fixedK |-> lo, failure |-> 0], [fixedK |-> hi, failure |-> 0] >> : lo \in 0 .. 3, hi \in 1 .. 5}
           \cup {<< [fixedK |-> 0, failure |-> f] >> : f \in {1}}
    [] mode = "fixed_k_service_set" -> {<< [fixedK |-> k, failure |-> 0] >> : k \in 0 .. 3}
    [] OTHER -> {<< [fixedK |-> 0, failure |-> 1] >>}

\* The axis of a sweep ascends.
Ascending(points) ==
  Len(points) = 2 => points[1].fixedK < points[2].fixedK \/ points[1].failure < points[2].failure

MCScenarios ==
  UNION {{s \in [mode : {m}, edgeLive : {<<1, 2>>, <<1, 1>>},
                 bucketKill : {{}, {1}, {2, 4}}, edgeKill : {{}, {1}}, points : Stresses(m)] :
            Ascending(s.points)} : m \in Modes}
=============================================================================
