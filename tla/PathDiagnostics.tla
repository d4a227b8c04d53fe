--------------------------- MODULE PathDiagnostics ---------------------------
(* The static metrics of a path against its execution: a fault profile that  *)
(* kills exactly what is down in an execution predicts that execution.       *)
EXTENDS PathExecution, PathStatics

ChanceOf(rate) == IF rate = 0 THEN Always ELSE IF rate = Draws THEN Never ELSE Sometimes

TimeoutOf(h) ==
  IF resolveTimeout(h) = 0 \/ ~LatencyKnown(h) THEN "unknown"
  ELSE IF TimeoutMismatch(h) THEN "mismatch" ELSE "fits"

analyzePathStatic(state) ==
  [services |-> [i \in Nodes |-> IF i \in state.services THEN ChanceOf(plan.serviceRate[i]) ELSE Never],
   hops |-> [h \in Hops |->
     [works |-> ChanceOf(plan.edgeRate[h]), dead |-> h \notin state.edges,
      attempts |-> effectiveAttempts(h), retry |-> plan.policy[h].maxAttempts > 0,
      timeout |-> TimeoutOf(h)]]]

-----------------------------------------------------------------------------
(* Properties.                                                             *)

\* The expected success of a path (staticPathSuccess) and executePath are two
\* recursions over the same data.  Whatever is drawn, a path that is expected to
\* fail fails and one that is sure to succeed succeeds; and a path without
\* brownouts whose timeouts are all known succeeds exactly if no timeout is
\* counted and nothing on it is down.
StaticPredictsExecution ==
  pc = "done" => \A p \in Passes :
    LET path == analyzePathStatic(alive[p])
        expected == staticPathSuccess(path)[1]
        timeouts == timeoutMismatchForPath(path)
        calm == /\ \A i \in Nodes : plan.serviceRate[i] = 0
                /\ \A h \in Hops : plan.edgeRate[h] = 0
    IN /\ expected = Never => ~outcome[p]
       /\ expected = Always => outcome[p]
       /\ calm /\ timeouts.available => (outcome[p] <=> timeouts.value = 0 /\ PathLive(alive[p]))

\* max_amplification_factor is an expectation (pathAmplification), which a single
\* execution exceeds when it is unlucky.  Where chance has no part in it, because
\* every attempt below a service is sure to succeed, sure to fail or the only one,
\* it is known exactly and bounds the retry storm: a call of the service leads to
\* no more calls of the last one than it says, although attempts that time out or
\* meet a dead component are repeated as well.
AmplificationBoundsCalls ==
  pc = "return" /\ at = 1 =>
    LET Factor(bound) == pathAmplification(analyzePathStatic(alive[pass]), bound)
    IN \A i \in Nodes :
         Factor("least")[i] = Factor("most")[i] /\ Factor("most")[i] > 0
           => calls[N] <= calls[i] * Factor("least")[i]
=============================================================================
