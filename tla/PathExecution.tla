---------------------------- MODULE PathExecution ----------------------------
(***************************************************************************)
(* One journey path in one trial: executePath of                           *)
(* internal/simulation/advanced.go.  executeServiceAt and executeEdgeAt    *)
(* call each other down the path; a hop retries everything below it.       *)
(*                                                                         *)
(* The path is executed twice over one random stream, which is keyed by    *)
(* trial and path: the points of a sweep do so, the second under more      *)
(* stress, and so does Birnbaum analysis, the first time with every        *)
(* component up.  A draw of rng.Float64 is abstracted to a level that      *)
(* error rates, on the same scale, are compared with.                      *)
(***************************************************************************)
EXTENDS Integers, Sequences, FiniteSetsExt

CONSTANTS
  N,      \* services of the path, 1 .. N; hop i is the edge from service i to i + 1
  Draws,  \* rng.Float64 takes the levels 0 .. Draws - 1, an error rate 0 .. Draws
  Plans   \* the paths considered

Nodes == 1 .. N
Hops  == 1 .. N - 1
Levels == 0 .. Draws - 1
Passes == 1 .. 2

\* A hop's resilience policy.  Numbers that are not set are 0, and a circuit
\* breaker that is missing or disabled allows 0 requests.
Policy == [perTryTimeout : Nat, requestTimeout : Nat, maxAttempts : Nat, maxRequests : Nat]

\* Error rates are observed and injected rates combined; latencies likewise.
Plan == [serviceRate : [Nodes -> 0 .. Draws], edgeRate : [Hops -> 0 .. Draws],
         policy : [Hops -> Policy], edgeLatency : [Hops -> Nat], serviceLatency : [Nodes -> Nat]]

ASSUME PathAssumption ==
  /\ N \in Nat \ {0} /\ Draws \in Nat \ {0}
  /\ Plans \subseteq Plan

VARIABLES
  plan,
  alive,    \* per execution: the live services and edges of the sampled state
  pass,     \* the execution in progress
  pc,       \* "service", "edge", "attempt", "return" or "done"
  at,       \* the index both functions recurse on
  attempt,  \* attempts made at each hop by its running call
  ok,       \* the value being returned
  stream, pos,  \* the random stream as far as it was drawn, and the next draw
  calls,    \* executions of each service in this pass
  outcome   \* results of the finished executions

vars == <<plan, alive, pass, pc, at, attempt, ok, stream, pos, calls, outcome>>

-----------------------------------------------------------------------------
(* What a hop's metadata means.                                            *)

\* Mutant: the circuit breaker does not limit the attempts.
AttemptsUncapped(h) == IF plan.policy[h].maxAttempts > 1 THEN plan.policy[h].maxAttempts ELSE 1

effectiveAttempts(h) ==
  LET retried == IF plan.policy[h].maxAttempts > 1 THEN plan.policy[h].maxAttempts ELSE 1
      limit   == plan.policy[h].maxRequests
  IN IF limit \in 1 .. retried - 1 THEN limit ELSE retried

\* Per-try before request timeout; 0 if neither is set.
resolveTimeout(h) ==
  IF plan.policy[h].perTryTimeout > 0 THEN plan.policy[h].perTryTimeout ELSE plan.policy[h].requestTimeout

\* Every edge below must have a latency; services add theirs if they have one.
LatencyKnown(h) == \A i \in h .. N - 1 : plan.edgeLatency[i] > 0
LatencyOf(edges, services, hops) == MapThenSumSet(LAMBDA i : edges[i] + services[i + 1], hops)
downstreamLatency(h) == LatencyOf(plan.edgeLatency, plan.serviceLatency, h .. N - 1)

TimeoutMismatch(h) ==
  resolveTimeout(h) > 0 /\ LatencyKnown(h) /\ resolveTimeout(h) < downstreamLatency(h)

-----------------------------------------------------------------------------
(* The random stream.                                                      *)

Draw(u) ==
  /\ pos <= Len(stream) => u = stream[pos]
  /\ stream' = IF pos <= Len(stream) THEN stream ELSE Append(stream, u)
  /\ pos' = pos + 1

\* rate > 0 && rng.Float64() < rate; nothing is drawn for a rate of 0.
Errs(rate) == rate > 0 /\ \E u \in Levels : u < rate /\ Draw(u)
Works(rate) ==
  \/ rate = 0 /\ UNCHANGED <<stream, pos>>
  \/ rate > 0 /\ \E u \in Levels : u >= rate /\ Draw(u)

-----------------------------------------------------------------------------
Everything == [services |-> Nodes, edges |-> Hops]
PathLive(state) == state = Everything

Fresh == [h \in Hops |-> 0]
NoCalls == [i \in Nodes |-> IF i = 1 THEN 1 ELSE 0]

Init ==
  /\ plan \in Plans
  /\ alive \in [Passes -> [services : SUBSET Nodes, edges : SUBSET Hops]]
  /\ alive[2].services \subseteq alive[1].services /\ alive[2].edges \subseteq alive[1].edges
  /\ pass = 1 /\ pc = "service" /\ at = 1
  /\ attempt = Fresh /\ ok = FALSE /\ stream = << >> /\ pos = 1
  /\ calls = NoCalls /\ outcome = << >>

Return(value) == pc' = "return" /\ ok' = value

inputs == <<plan, alive>>
local  == <<at, attempt, calls>>
random == <<stream, pos>>

\* executeServiceAt: a dead service, an error, the end of the path or its edge.
ServiceDead ==
  /\ pc = "service" /\ at \notin alive[pass].services
  /\ Return(FALSE)
  /\ UNCHANGED <<inputs, local, random, pass, outcome>>

ServiceErrs ==
  /\ pc = "service" /\ at \in alive[pass].services
  /\ Errs(plan.serviceRate[at])
  /\ Return(FALSE)
  /\ UNCHANGED <<inputs, local, pass, outcome>>

ServiceWorks ==
  /\ pc = "service" /\ at \in alive[pass].services
  /\ Works(plan.serviceRate[at])
  /\ IF at = N THEN Return(TRUE) ELSE pc' = "edge" /\ UNCHANGED ok
  /\ UNCHANGED <<inputs, local, pass, outcome>>

\* executeEdgeAt: the edge is looked at once, before its attempts.
EnterEdge ==
  /\ pc = "edge"
  /\ IF at \in alive[pass].edges
     THEN pc' = "attempt" /\ attempt' = [attempt EXCEPT ![at] = 0] /\ UNCHANGED ok
     ELSE Return(FALSE) /\ UNCHANGED attempt
  /\ UNCHANGED <<inputs, random, at, calls, pass, outcome>>

\* Mutant: one attempt too many.
OneMoreAttempt == attempt[at] <= effectiveAttempts(at)

MoreAttempts == attempt[at] < effectiveAttempts(at)

\* Mutant: a timeout does not consume the attempt.
AttemptFailsForever ==
  /\ pc = "attempt" /\ MoreAttempts
  /\ \/ Errs(plan.edgeRate[at]) /\ attempt' = [attempt EXCEPT ![at] = @ + 1]
     \/ TimeoutMismatch(at) /\ Works(plan.edgeRate[at]) /\ UNCHANGED attempt
  /\ UNCHANGED <<inputs, pass, pc, at, ok, calls, outcome>>

\* One iteration of the loop: a brownout error or a timeout consumes the
\* attempt, else the service below is executed.
AttemptFails ==
  /\ pc = "attempt" /\ MoreAttempts
  /\ \/ Errs(plan.edgeRate[at])
     \/ TimeoutMismatch(at) /\ Works(plan.edgeRate[at])
  /\ attempt' = [attempt EXCEPT ![at] = @ + 1]
  /\ UNCHANGED <<inputs, pass, pc, at, ok, calls, outcome>>

\* Mutant: a hop that timed out lets the call through.
AttemptCallsAnyway ==
  /\ pc = "attempt" /\ MoreAttempts
  /\ Works(plan.edgeRate[at])
  /\ attempt' = [attempt EXCEPT ![at] = @ + 1]
  /\ pc' = "service" /\ at' = at + 1
  /\ calls' = [calls EXCEPT ![at + 1] = @ + 1]
  /\ UNCHANGED <<inputs, pass, ok, outcome>>

AttemptCalls ==
  /\ pc = "attempt" /\ MoreAttempts
  /\ ~TimeoutMismatch(at) /\ Works(plan.edgeRate[at])
  /\ attempt' = [attempt EXCEPT ![at] = @ + 1]
  /\ pc' = "service" /\ at' = at + 1
  /\ calls' = [calls EXCEPT ![at + 1] = @ + 1]
  /\ UNCHANGED <<inputs, pass, ok, outcome>>

AttemptsExhausted ==
  /\ pc = "attempt" /\ ~MoreAttempts
  /\ Return(FALSE)
  /\ UNCHANGED <<inputs, local, random, pass, outcome>>

\* The caller of a service that failed tries again.
AfterCall(value) == IF value THEN Return(TRUE) ELSE pc' = "attempt" /\ UNCHANGED ok

ReturnToHop ==
  /\ pc = "return" /\ at > 1
  /\ at' = at - 1
  /\ AfterCall(ok)
  /\ UNCHANGED <<inputs, random, attempt, calls, pass, outcome>>

\* Mutant: the second execution goes on in the stream of the first.
SharedGenerator == pos

\* A generator is seeded from trial and path id for every execution.
FreshGenerator == 1

PassEnds ==
  /\ pc = "return" /\ at = 1
  /\ outcome' = Append(outcome, ok)
  /\ IF pass = 1
     THEN /\ pass' = 2 /\ pc' = "service" /\ pos' = FreshGenerator
          /\ attempt' = Fresh /\ calls' = NoCalls
     ELSE pc' = "done" /\ UNCHANGED <<pass, pos, attempt, calls>>
  /\ UNCHANGED <<inputs, at, ok, stream>>

Next ==
  \/ ServiceDead \/ ServiceErrs \/ ServiceWorks
  \/ EnterEdge \/ AttemptFails \/ AttemptCalls \/ AttemptsExhausted
  \/ ReturnToHop \/ PassEnds

Spec == Init /\ [][Next]_vars

\* The recursion runs in one goroutine that nothing blocks.
FairSpec == Spec /\ WF_vars(Next)

-----------------------------------------------------------------------------
(* Properties.                                                             *)

TypeOK ==
  /\ plan \in Plans
  /\ alive \in [Passes -> [services : SUBSET Nodes, edges : SUBSET Hops]]
  /\ pass \in Passes /\ pc \in {"service", "edge", "attempt", "return", "done"}
  /\ at \in Nodes /\ (pc \in {"edge", "attempt"} => at \in Hops)
  /\ attempt \in [Hops -> Nat] /\ \A h \in Hops : attempt[h] <= effectiveAttempts(h)
  /\ ok \in BOOLEAN /\ stream \in Seq(Levels) /\ pos \in 1 .. Len(stream) + 1
  /\ calls \in [Nodes -> Nat]
  /\ outcome \in Seq(BOOLEAN) /\ Len(outcome) = (IF pc = "done" THEN 2 ELSE pass - 1)

\* internal/simulation/importance.go: "A hard-down service/edge makes its path
\* fail regardless of retries."  More than that: what the second execution
\* returns is what the first returned if everything on the path is live, and
\* failure otherwise, although a dead component makes it draw another sequence.
CoupledOutcome == pc = "done" => (outcome[2] <=> outcome[1] /\ PathLive(alive[2]))

\* The attempts a policy allows: retries, but no more requests than the
\* circuit breaker admits if it has a limit.
AllowedAttempts(policy) == Min({Max({1, policy.maxAttempts})} \cup ({policy.maxRequests} \ {0}))

\* The calls a service can receive: nested retries multiply.
MostCalls[i \in Nodes] == IF i = 1 THEN 1 ELSE MostCalls[i - 1] * AllowedAttempts(plan.policy[i - 1])

\* executeEdgeAt below another executeEdgeAt: retries of a hop start anew for
\* every call of the hop above, and no service is called more than that.
CallsBounded == \A i \in Nodes : calls[i] <= MostCalls[i]

\* The recursion ends.
Terminates == <>(pc = "done")
=============================================================================
