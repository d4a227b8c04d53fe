--------------------------- MODULE MCPathExecution ---------------------------
(* Paths of three services.  A draw is 0 or 1, so that a rate of 0 never     *)
(* errs, a rate of 1 may and a rate of 2 always does.                        *)
EXTENDS PathDiagnostics

Once   == [perTryTimeout |-> 0, requestTimeout |-> 0, maxAttempts |-> 0, maxRequests |-> 0]
Twice  == [perTryTimeout |-> 0, requestTimeout |-> 2, maxAttempts |-> 2, maxRequests |-> 2]
Broken == [perTryTimeout |-> 1, requestTimeout |-> 9, maxAttempts |-> 3, maxRequests |-> 1]

MCPlans ==
  [serviceRate : {<<0, 0, 0>>, <<0, 1, 0>>, <<0, 0, 2>>},
   edgeRate : {<<0, 0>>, <<1, 0>>, <<0, 1>>},
   policy : [Hops -> {Once, Twice, Broken}],
   edgeLatency : {<<0, 1>>, <<1, 1>>}, serviceLatency : {<<0, 0, 0>>, <<0, 0, 1>>}]
=============================================================================
