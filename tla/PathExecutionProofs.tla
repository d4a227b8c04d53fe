------------------------ MODULE PathExecutionProofs ------------------------
(***************************************************************************)
(* Proofs about executing a path, for all paths, plans, sampled states and *)
(* random streams.                                                         *)
(***************************************************************************)
EXTENDS PathDiagnostics, Induction

-----------------------------------------------------------------------------
(* The plan and its numbers.                                               *)

LEMMA Sizes == N \in Nat /\ 1 <= N /\ Draws \in Nat /\ 1 <= Draws
  BY PathAssumption

LEMMA Plans1 ==
  ASSUME TypeOK
  PROVE  /\ plan \in Plan
         /\ \A i \in Nodes : plan.serviceRate[i] \in 0 .. Draws
         /\ \A h \in Hops : plan.edgeRate[h] \in 0 .. Draws /\ plan.policy[h] \in Policy
  BY PathAssumption DEF TypeOK, Plan

\* A hop is attempted at least once.
LEMMA Attempts ==
  ASSUME TypeOK, NEW h \in Hops
  PROVE  effectiveAttempts(h) \in Nat /\ 1 <= effectiveAttempts(h)
<1>1. plan.policy[h].maxAttempts \in Nat /\ plan.policy[h].maxRequests \in Nat
  BY Plans1 DEF Policy
<1>. QED
  BY <1>1 DEF effectiveAttempts

\* A plan is not changed, and so nothing read off it is.
LEMMA SamePlan ==
  ASSUME UNCHANGED plan
  PROVE  /\ \A h : effectiveAttempts(h)' = effectiveAttempts(h)
         /\ \A h : TimeoutMismatch(h)' <=> TimeoutMismatch(h)
<1>1. \A h : effectiveAttempts(h)' = effectiveAttempts(h)
  BY DEF effectiveAttempts
<1>2. \A h : resolveTimeout(h)' = resolveTimeout(h)
  BY DEF resolveTimeout
<1>3. \A h : LatencyKnown(h)' <=> LatencyKnown(h)
  BY DEF LatencyKnown
<1>4. \A h : downstreamLatency(h)' = downstreamLatency(h)
  BY DEF downstreamLatency
<1>. QED
  BY <1>1, <1>2, <1>3, <1>4 DEF TimeoutMismatch

\* What a rate's draw does: nothing for 0; else the next draw is read, at the
\* end of the stream a new one.
LEMMA Drawn ==
  ASSUME TypeOK, NEW rate \in 0 .. Draws, Errs(rate) \/ Works(rate)
  PROVE  /\ stream' \in Seq(Levels) /\ pos' \in 1 .. Len(stream') + 1
         /\ Len(stream) <= Len(stream') /\ \A i \in 1 .. Len(stream) : stream'[i] = stream[i]
         /\ pos <= Len(stream) => stream' = stream
         /\ pos' = IF rate = 0 THEN pos ELSE pos + 1
         /\ rate = 0 => stream' = stream /\ Works(rate)
         /\ rate > 0 => pos \in 1 .. Len(stream') /\ stream'[pos] \in Levels
         /\ rate > 0 /\ Errs(rate) => stream'[pos] < rate
         /\ rate > 0 /\ Works(rate) => stream'[pos] >= rate /\ rate < Draws
<1>1. stream \in Seq(Levels) /\ pos \in 1 .. Len(stream) + 1 /\ Len(stream) \in Nat /\ pos \in Nat /\ 1 <= pos
  BY DEF TypeOK
<1>2. Levels \subseteq Int /\ rate \in Int
  BY Sizes DEF Levels
<1>3. CASE rate = 0
  <2>1. UNCHANGED <<stream, pos>> /\ ~(rate > 0) /\ Works(rate)
    BY <1>3 DEF Errs, Works
  <2>. QED
    BY <1>1, <1>3, <2>1
<1>4. CASE rate > 0
  <2>1. PICK u \in Levels : Draw(u) /\ (Errs(rate) => u < rate) /\ (Works(rate) => u >= rate)
    <3>1. CASE Errs(rate)
      <4>1. PICK u \in Levels : u < rate /\ Draw(u)
        BY <3>1 DEF Errs
      <4>2. stream'[pos] = u
        BY <1>1, <4>1 DEF Draw
      <4>3. CASE Works(rate)
        <5>1. PICK v \in Levels : v >= rate /\ Draw(v)
          BY <1>4, <4>3 DEF Works
        <5>2. stream'[pos] = v
          BY <1>1, <5>1 DEF Draw
        <5>. QED
          BY <1>2, <4>1, <4>2, <5>1, <5>2
      <4>. QED
        BY <4>1, <4>3
    <3>2. CASE ~Errs(rate)
      BY <1>4, <3>2 DEF Works
    <3>. QED
      BY <3>1, <3>2
  <2>2. CASE pos <= Len(stream)
    <3>1. u = stream[pos] /\ stream' = stream /\ pos' = pos + 1
      BY <2>1, <2>2 DEF Draw
    <3>. QED
      BY <1>1, <1>2, <1>4, <2>1, <2>2, <3>1, Sizes DEF Levels
  <2>3. CASE ~(pos <= Len(stream))
    <3>1. stream' = Append(stream, u) /\ pos' = pos + 1 /\ pos = Len(stream) + 1
      BY <1>1, <2>1, <2>3 DEF Draw
    <3>2. /\ stream' \in Seq(Levels) /\ Len(stream') = Len(stream) + 1 /\ stream'[pos] = u
          /\ \A i \in 1 .. Len(stream) : stream'[i] = stream[i]
      BY <1>1, <2>1, <3>1
    <3>. QED
      BY <1>1, <1>2, <1>4, <2>1, <2>3, <3>1, <3>2, Sizes DEF Levels
  <2>. QED
    BY <2>2, <2>3
<1>. QED
  BY <1>2, <1>3, <1>4

-----------------------------------------------------------------------------
(* The steps, and the types.                                               *)

LEMMA Inputs == ASSUME Next PROVE UNCHANGED <<plan, alive>>
  BY DEF Next, ServiceDead, ServiceErrs, ServiceWorks, EnterEdge, AttemptFails, AttemptCalls,
         AttemptsExhausted, ReturnToHop, PassEnds, inputs

LEMMA TypeInit == Init => TypeOK
<1> SUFFICES ASSUME Init PROVE TypeOK
  OBVIOUS
<1>1. 1 \in Nodes /\ 1 \in Passes /\ Len(<< >>) = 0
  BY Sizes DEF Nodes, Passes
<1>2. /\ plan \in Plan /\ plan \in Plans
      /\ alive \in [Passes -> [services : SUBSET Nodes, edges : SUBSET Hops]]
      /\ pass = 1 /\ pc = "service" /\ at = 1 /\ attempt = Fresh /\ ok = FALSE
      /\ stream = << >> /\ pos = 1 /\ calls = NoCalls /\ outcome = << >>
  BY PathAssumption DEF Init
<1>3. ASSUME NEW h \in Hops PROVE effectiveAttempts(h) \in Nat
  <2>1. plan.policy[h].maxAttempts \in Nat /\ plan.policy[h].maxRequests \in Nat
    BY <1>2 DEF Plan, Policy
  <2>. QED
    BY <2>1 DEF effectiveAttempts
<1>4. attempt \in [Hops -> Nat] /\ \A h \in Hops : attempt[h] <= effectiveAttempts(h)
  BY <1>2, <1>3 DEF Fresh
<1>5. calls \in [Nodes -> Nat]
  BY <1>2 DEF NoCalls
<1>6. stream \in Seq(Levels) /\ pos \in 1 .. Len(stream) + 1 /\ outcome \in Seq(BOOLEAN) /\ Len(outcome) = pass - 1
  BY <1>1, <1>2
<1>7. /\ at \in Nodes /\ pc \notin {"edge", "attempt", "done"} /\ pass \in Passes
      /\ pc \in {"service", "edge", "attempt", "return", "done"} /\ ok \in BOOLEAN
  BY <1>1, <1>2
<1>. QED
  BY <1>2, <1>4, <1>5, <1>6, <1>7 DEF TypeOK

LEMMA TypeNext == ASSUME TypeOK, Next PROVE TypeOK'
<1>1. /\ UNCHANGED <<plan, alive>> /\ \A h : effectiveAttempts(h)' = effectiveAttempts(h)
  BY Inputs, SamePlan
<1>2. /\ at \in Nodes /\ at \in Nat /\ 1 <= at /\ at <= N
      /\ pc \in {"edge", "attempt"} => at \in Hops
      /\ Len(outcome) = (IF pc = "done" THEN 2 ELSE pass - 1)
  BY Sizes DEF TypeOK, Nodes
<1>3. \A i \in Nodes : plan.serviceRate[i] \in 0 .. Draws
  BY Plans1
<1>4. \A h \in Hops : plan.edgeRate[h] \in 0 .. Draws
  BY Plans1
<1>5. CASE ServiceDead
  BY <1>1, <1>2, <1>5 DEF ServiceDead, Return, TypeOK, local, random
<1>6. CASE ServiceErrs
  BY <1>1, <1>2, <1>3, <1>6, Drawn DEF ServiceErrs, Return, TypeOK, local
<1>7. CASE ServiceWorks
  <2>1. at # N => at \in Hops
    BY <1>2, Sizes DEF Hops
  <2>2. stream' \in Seq(Levels) /\ pos' \in 1 .. Len(stream') + 1
    BY <1>2, <1>3, <1>7, Drawn DEF ServiceWorks
  <2>. QED
    BY <1>1, <1>2, <1>7, <2>1, <2>2 DEF ServiceWorks, Return, TypeOK, local
<1>8. CASE EnterEdge
  <2>1. attempt' = attempt \/ attempt' = [attempt EXCEPT ![at] = 0]
    BY <1>8 DEF EnterEdge
  <2>2. attempt' \in [Hops -> Nat] /\ \A h \in Hops : attempt'[h] <= effectiveAttempts(h)
    BY <2>1, Attempts DEF TypeOK
  <2>. QED
    BY <1>1, <1>2, <1>8, <2>2 DEF EnterEdge, Return, TypeOK, random
<1>9. CASE AttemptFails
  <2>1. stream' \in Seq(Levels) /\ pos' \in 1 .. Len(stream') + 1
    BY <1>2, <1>4, <1>9, Drawn DEF AttemptFails
  <2>2. attempt' \in [Hops -> Nat] /\ \A h \in Hops : attempt'[h] <= effectiveAttempts(h)
    BY <1>2, <1>9, Attempts DEF AttemptFails, MoreAttempts, TypeOK
  <2>. QED
    BY <1>1, <1>2, <1>9, <2>1, <2>2 DEF AttemptFails, TypeOK
<1>10. CASE AttemptCalls
  <2>1. stream' \in Seq(Levels) /\ pos' \in 1 .. Len(stream') + 1
    BY <1>2, <1>4, <1>10, Drawn DEF AttemptCalls
  <2>2. attempt' \in [Hops -> Nat] /\ \A h \in Hops : attempt'[h] <= effectiveAttempts(h)
    BY <1>2, <1>10, Attempts DEF AttemptCalls, MoreAttempts, TypeOK
  <2>3. at' = at + 1 /\ at + 1 \in Nodes
    BY <1>2, <1>10, Sizes DEF AttemptCalls, Hops, Nodes
  <2>4. calls' \in [Nodes -> Nat]
    BY <1>10, <2>3 DEF AttemptCalls, TypeOK
  <2>. QED
    BY <1>1, <1>2, <1>10, <2>1, <2>2, <2>3, <2>4 DEF AttemptCalls, TypeOK
<1>11. CASE AttemptsExhausted
  BY <1>1, <1>2, <1>11 DEF AttemptsExhausted, Return, TypeOK, local, random
<1>12. CASE ReturnToHop
  <2>1. at' \in Nodes /\ at' \in Hops
    BY <1>2, <1>12, Sizes DEF ReturnToHop, Nodes, Hops
  <2>. QED
    BY <1>1, <1>2, <1>12, <2>1 DEF ReturnToHop, AfterCall, Return, TypeOK, random
<1>13. CASE PassEnds
  <2>1. /\ outcome' = Append(outcome, ok) /\ outcome \in Seq(BOOLEAN) /\ ok \in BOOLEAN
        /\ pass \in Passes /\ Len(outcome) = pass - 1
    BY <1>2, <1>13 DEF PassEnds, TypeOK
  <2>2. outcome' \in Seq(BOOLEAN) /\ Len(outcome') = pass /\ pass \in {1, 2}
    BY <2>1 DEF Passes
  <2>3. CASE pass = 1
    <3>1. /\ pass' = 2 /\ pc' = "service" /\ pos' = 1 /\ attempt' = Fresh /\ calls' = NoCalls
          /\ UNCHANGED <<at, ok, stream>>
      BY <1>13, <2>3 DEF PassEnds, FreshGenerator
    <3>2. attempt' \in [Hops -> Nat] /\ calls' \in [Nodes -> Nat]
          /\ \A h \in Hops : attempt'[h] <= effectiveAttempts(h)
      BY <3>1, Attempts DEF Fresh, NoCalls
    <3>3. pos' \in 1 .. Len(stream) + 1
      BY <3>1 DEF TypeOK
    <3>4. pass' \in Passes /\ Len(outcome') = pass' - 1
      BY <2>2, <2>3, <3>1 DEF Passes
    <3>. QED
      BY <1>1, <2>2, <3>1, <3>2, <3>3, <3>4 DEF TypeOK
  <2>4. CASE pass = 2
    BY <1>1, <1>13, <2>2, <2>4 DEF PassEnds, TypeOK
  <2>. QED
    BY <2>2, <2>3, <2>4
<1>. QED
  BY <1>5, <1>6, <1>7, <1>8, <1>9, <1>10, <1>11, <1>12, <1>13 DEF Next

-----------------------------------------------------------------------------
(* What a result says of the path.                                         *)

\* A service and a hop that can be passed in execution p.
ServiceUp(p, i) == i \in alive[p].services /\ plan.serviceRate[i] < Draws
HopUp(p, h) == h \in alive[p].edges /\ plan.edgeRate[h] < Draws /\ ~TimeoutMismatch(h)
PathUp(p, i) == (\A j \in Nodes : j >= i => ServiceUp(p, j)) /\ \A h \in Hops : h >= i => HopUp(p, h)

\* A service that cannot fail, with everything below it, and a hop that calls one.
Sure(p, i) ==
  /\ \A j \in Nodes : j >= i => j \in alive[p].services /\ plan.serviceRate[j] = 0
  /\ \A h \in Hops : h >= i => h \in alive[p].edges /\ plan.edgeRate[h] = 0 /\ ~TimeoutMismatch(h)
SureBelow(p, h) == plan.edgeRate[h] = 0 /\ ~TimeoutMismatch(h) /\ Sure(p, h + 1)

\* All above the current index was passed; a success passed all below it too.
CrossedInv ==
  /\ pc # "done" => \A i \in Hops : i < at => ServiceUp(pass, i) /\ HopUp(pass, i)
  /\ pc \in {"edge", "attempt"} => ServiceUp(pass, at)
  /\ pc = "attempt" => at \in alive[pass].edges
  /\ pc = "return" /\ ok => PathUp(pass, at)

\* What cannot fail does not, and is called once.
SureInv ==
  /\ pc = "return" /\ Sure(pass, at) => ok
  /\ pc = "attempt" /\ SureBelow(pass, at) => attempt[at] = 0
  /\ pc # "done" => \A h \in Hops : h < at /\ SureBelow(pass, h) => attempt[h] = 1

OutcomesInv == \A p \in 1 .. Len(outcome) : (outcome[p] => PathUp(p, 1)) /\ (Sure(p, 1) => outcome[p])

LEMMA SameUp ==
  ASSUME UNCHANGED <<plan, alive>>
  PROVE  /\ \A p, i : ServiceUp(p, i)' <=> ServiceUp(p, i)
         /\ \A p, h : HopUp(p, h)' <=> HopUp(p, h)
         /\ \A p, i : PathUp(p, i)' <=> PathUp(p, i)
         /\ \A p, i : Sure(p, i)' <=> Sure(p, i)
         /\ \A p, h : SureBelow(p, h)' <=> SureBelow(p, h)
<1>1. \A h : TimeoutMismatch(h)' <=> TimeoutMismatch(h)
  BY SamePlan
<1>2. /\ \A p, i : ServiceUp(p, i)' <=> ServiceUp(p, i)
      /\ \A p, h : HopUp(p, h)' <=> HopUp(p, h)
  BY <1>1 DEF ServiceUp, HopUp
<1>3. \A p, i : PathUp(p, i)' <=> PathUp(p, i)
  BY <1>2 DEF PathUp
<1>4. \A p, i : Sure(p, i)' <=> Sure(p, i)
  BY <1>1 DEF Sure
<1>5. \A p, h : SureBelow(p, h)' <=> SureBelow(p, h)
  BY <1>1, <1>4 DEF SureBelow
<1>. QED
  BY <1>2, <1>3, <1>4, <1>5

\* A service or a hop that does not err can be passed; one that errs is not sure.
LEMMA RateUp ==
  ASSUME TypeOK, NEW rate \in 0 .. Draws
  PROVE  /\ Works(rate) => rate < Draws
         /\ Errs(rate) => rate # 0
<1>1. rate = 0 => rate < Draws /\ ~(rate > 0)
  BY Sizes
<1>2. rate # 0 => rate > 0
  OBVIOUS
<1>3. ASSUME Works(rate), rate # 0 PROVE rate < Draws
  BY <1>2, <1>3, Drawn
<1>4. ASSUME rate = 0 PROVE ~Errs(rate)
  BY <1>1, <1>4 DEF Errs
<1>. QED
  BY <1>1, <1>3, <1>4

LEMMA CrossedNext == ASSUME TypeOK, CrossedInv, Next PROVE CrossedInv'
<1>1. /\ UNCHANGED <<plan, alive>>
      /\ \A p, i : ServiceUp(p, i)' <=> ServiceUp(p, i)
      /\ \A p, h : HopUp(p, h)' <=> HopUp(p, h)
      /\ \A p, i : PathUp(p, i)' <=> PathUp(p, i)
  BY Inputs, SameUp
<1>2. /\ at \in Int /\ at \in Nodes /\ (pc \in {"edge", "attempt"} => at \in Hops)
      /\ Hops \subseteq Int /\ Nodes \subseteq Int
  BY Sizes DEF TypeOK, Nodes, Hops
<1>3. \A i \in Nodes : plan.serviceRate[i] \in 0 .. Draws
  BY Plans1
<1>4. \A h \in Hops : plan.edgeRate[h] \in 0 .. Draws
  BY Plans1
<1>5. CASE ServiceDead
  BY <1>1, <1>5 DEF ServiceDead, Return, CrossedInv, local, random
<1>6. CASE ServiceErrs
  BY <1>1, <1>6 DEF ServiceErrs, Return, CrossedInv, local
<1>7. CASE ServiceWorks
  <2>1. ServiceUp(pass, at)
    BY <1>2, <1>3, <1>7, RateUp DEF ServiceWorks, ServiceUp
  <2>2. at = N => PathUp(pass, at)
    <3>1. ASSUME at = N PROVE (\A j \in Nodes : j >= at => j = at) /\ (\A h \in Hops : ~(h >= at))
      BY <3>1, Sizes DEF Nodes, Hops
    <3>. QED
      BY <2>1, <3>1 DEF PathUp
  <2>. QED
    BY <1>1, <1>7, <2>1, <2>2 DEF ServiceWorks, Return, CrossedInv, local
<1>8. CASE EnterEdge
  BY <1>1, <1>8 DEF EnterEdge, Return, CrossedInv, random
<1>9. CASE AttemptFails
  BY <1>1, <1>9 DEF AttemptFails, CrossedInv
<1>10. CASE AttemptCalls
  <2>1. HopUp(pass, at)
    BY <1>2, <1>4, <1>10, RateUp DEF AttemptCalls, HopUp, CrossedInv
  <2>2. \A i \in Hops : i < at + 1 => i < at \/ i = at
    BY <1>2
  <2>. QED
    BY <1>1, <1>10, <2>1, <2>2 DEF AttemptCalls, CrossedInv
<1>11. CASE AttemptsExhausted
  BY <1>1, <1>11 DEF AttemptsExhausted, Return, CrossedInv, local, random
<1>12. CASE ReturnToHop
  <2>1. at - 1 \in Hops /\ at' = at - 1 /\ pc = "return" /\ pass' = pass
    BY <1>2, <1>12, Sizes DEF ReturnToHop, Nodes, Hops
  <2>2. ServiceUp(pass, at - 1) /\ HopUp(pass, at - 1)
    BY <1>2, <2>1 DEF CrossedInv
  <2>3. \A j \in Int : j >= at - 1 => j >= at \/ j = at - 1
    BY <1>2
  <2>4. ok => PathUp(pass, at - 1)
    BY <1>2, <2>1, <2>2, <2>3 DEF CrossedInv, PathUp
  <2>5. \A i \in Hops : i < at - 1 => i < at
    BY <1>2
  <2>. QED
    BY <1>1, <1>12, <2>1, <2>2, <2>4, <2>5 DEF ReturnToHop, AfterCall, Return, CrossedInv, HopUp
<1>13. CASE PassEnds
  <2>1. at' = 1 /\ pc' \in {"service", "done"} /\ \A i \in Hops : ~(i < 1)
    BY <1>13, Sizes DEF PassEnds, Hops
  <2>. QED
    BY <2>1 DEF CrossedInv
<1>. QED
  BY <1>5, <1>6, <1>7, <1>8, <1>9, <1>10, <1>11, <1>12, <1>13 DEF Next

LEMMA SureNext == ASSUME TypeOK, CrossedInv, SureInv, Next PROVE SureInv'
<1>1. /\ UNCHANGED <<plan, alive>>
      /\ \A p, i : Sure(p, i)' <=> Sure(p, i)
      /\ \A p, h : SureBelow(p, h)' <=> SureBelow(p, h)
  BY Inputs, SameUp
<1>2. /\ at \in Int /\ at \in Nodes /\ (pc \in {"edge", "attempt"} => at \in Hops)
      /\ Hops \subseteq Int /\ Nodes \subseteq Int /\ attempt \in [Hops -> Nat]
  BY Sizes DEF TypeOK, Nodes, Hops
<1>3. \A i \in Nodes : plan.serviceRate[i] \in 0 .. Draws
  BY Plans1
<1>4. \A h \in Hops : plan.edgeRate[h] \in 0 .. Draws
  BY Plans1
<1>5. CASE ServiceDead
  <2>1. ~Sure(pass, at)
    BY <1>2, <1>5 DEF ServiceDead, Sure
  <2>. QED
    BY <1>1, <1>5, <2>1 DEF ServiceDead, Return, SureInv, local, random
<1>6. CASE ServiceErrs
  <2>1. ~Sure(pass, at)
    BY <1>2, <1>3, <1>6, RateUp DEF ServiceErrs, Sure
  <2>. QED
    BY <1>1, <1>6, <2>1 DEF ServiceErrs, Return, SureInv, local
<1>7. CASE ServiceWorks
  BY <1>1, <1>7 DEF ServiceWorks, Return, SureInv, local
<1>8. CASE EnterEdge
  <2>1. CASE at \in alive[pass].edges
    <3>1. /\ pc' = "attempt" /\ attempt' = [attempt EXCEPT ![at] = 0] /\ at \in Hops
          /\ UNCHANGED <<at, pass, ok>> /\ pc = "edge"
      BY <1>2, <1>8, <2>1 DEF EnterEdge
    <3>2. attempt'[at] = 0 /\ \A h \in Hops : h < at => attempt'[h] = attempt[h]
      BY <1>2, <3>1
    <3>. QED
      BY <1>1, <3>1, <3>2 DEF SureInv
  <2>2. CASE at \notin alive[pass].edges
    <3>1. ~Sure(pass, at)
      BY <1>2, <1>8, <2>2 DEF EnterEdge, Sure
    <3>. QED
      BY <1>1, <1>8, <2>2, <3>1 DEF EnterEdge, Return, SureInv, random
  <2>. QED
    BY <2>1, <2>2
<1>9. CASE AttemptFails
  <2>1. ~SureBelow(pass, at)
    BY <1>2, <1>4, <1>9, RateUp DEF AttemptFails, SureBelow
  <2>2. \A h \in Hops : h < at => attempt'[h] = attempt[h]
    BY <1>2, <1>9 DEF AttemptFails
  <2>. QED
    BY <1>1, <1>9, <2>1, <2>2 DEF AttemptFails, SureInv
<1>10. CASE AttemptCalls
  <2>1. attempt'[at] = attempt[at] + 1 /\ \A h \in Hops : h # at => attempt'[h] = attempt[h]
    BY <1>2, <1>10 DEF AttemptCalls
  <2>2. \A h \in Hops : h < at + 1 => h < at \/ h = at
    BY <1>2
  <2>3. ASSUME NEW h \in Hops, h < at + 1, SureBelow(pass, h) PROVE attempt'[h] = 1
    <3>1. CASE h = at
      BY <1>10, <2>1, <2>3, <3>1 DEF AttemptCalls, SureInv
    <3>2. CASE h # at
      BY <1>10, <2>1, <2>2, <2>3, <3>2 DEF AttemptCalls, SureInv
    <3>. QED
      BY <3>1, <3>2
  <2>. QED
    BY <1>1, <1>10, <2>3 DEF AttemptCalls, SureInv
<1>11. CASE AttemptsExhausted
  <2>1. 1 <= attempt[at]
    BY <1>2, <1>11, Attempts DEF AttemptsExhausted, MoreAttempts
  <2>2. ~Sure(pass, at)
    <3>1. SUFFICES ASSUME Sure(pass, at) PROVE FALSE
      OBVIOUS
    <3>2. at \in Hops /\ at >= at /\ \A j \in Int : j >= at + 1 => j >= at
      BY <1>2, <1>11 DEF AttemptsExhausted
    <3>5. Sure(pass, at + 1)
      BY <1>2, <3>1, <3>2 DEF Sure
    <3>3. SureBelow(pass, at)
      BY <3>1, <3>2, <3>5 DEF Sure, SureBelow
    <3>4. attempt[at] = 0
      BY <1>11, <3>3 DEF AttemptsExhausted, SureInv
    <3>. QED
      BY <2>1, <3>4
  <2>. QED
    BY <1>1, <1>11, <2>2 DEF AttemptsExhausted, Return, SureInv, local, random
<1>12. CASE ReturnToHop
  <2>1. at - 1 \in Hops /\ at' = at - 1 /\ pc = "return" /\ pass' = pass /\ attempt' = attempt
    BY <1>2, <1>12, Sizes DEF ReturnToHop, Nodes, Hops
  <2>2. \A h \in Hops : h < at - 1 => h < at
    BY <1>2
  <2>3. CASE ok
    BY <1>1, <1>12, <2>1, <2>2, <2>3 DEF ReturnToHop, AfterCall, Return, SureInv
  <2>4. CASE ~ok
    <3>1. ~Sure(pass, at)
      BY <2>1, <2>4 DEF SureInv
    <3>2. ~SureBelow(pass, at - 1)
      BY <1>2, <3>1 DEF SureBelow
    <3>. QED
      BY <1>1, <1>12, <2>1, <2>2, <2>4, <3>2 DEF ReturnToHop, AfterCall, SureInv
  <2>. QED
    BY <2>3, <2>4
<1>13. CASE PassEnds
  <2>1. at' = 1 /\ pc' \in {"service", "done"} /\ \A i \in Hops : ~(i < 1)
    BY <1>13, Sizes DEF PassEnds, Hops
  <2>. QED
    BY <2>1 DEF SureInv
<1>. QED
  BY <1>5, <1>6, <1>7, <1>8, <1>9, <1>10, <1>11, <1>12, <1>13 DEF Next

LEMMA OutcomesNext == ASSUME TypeOK, CrossedInv, SureInv, OutcomesInv, Next PROVE OutcomesInv'
<1>1. /\ \A p, i : PathUp(p, i)' <=> PathUp(p, i)
      /\ \A p, i : Sure(p, i)' <=> Sure(p, i)
  BY Inputs, SameUp
<1>2. CASE PassEnds
  <2>1. /\ outcome' = Append(outcome, ok) /\ outcome \in Seq(BOOLEAN) /\ Len(outcome) = pass - 1
        /\ ok \in BOOLEAN /\ pc = "return" /\ at = 1
    BY <1>2 DEF PassEnds, TypeOK
  <2>2. (ok => PathUp(pass, 1)) /\ (Sure(pass, 1) => ok)
    BY <2>1 DEF CrossedInv, SureInv
  <2>3. Len(outcome') = pass /\ outcome'[pass] = ok /\ pass \in {1, 2}
    BY <2>1 DEF TypeOK, Passes
  <2>4. ASSUME NEW p \in 1 .. Len(outcome') PROVE p = pass \/ (p \in 1 .. Len(outcome) /\ outcome'[p] = outcome[p])
    BY <2>1, <2>3, <2>4
  <2>. QED
    BY <1>1, <2>2, <2>3, <2>4 DEF OutcomesInv
<1>3. CASE UNCHANGED outcome
  BY <1>1, <1>3 DEF OutcomesInv
<1>. QED
  BY <1>2, <1>3 DEF Next, ServiceDead, ServiceErrs, ServiceWorks, EnterEdge, AttemptFails, AttemptCalls,
                    AttemptsExhausted, ReturnToHop

-----------------------------------------------------------------------------
(* How often services are called.                                          *)

\* Calls of hop h's service per call of the service above it.
PerCall(p, h) ==
  IF TimeoutMismatch(h) THEN 0 ELSE IF SureBelow(p, h) THEN 1 ELSE effectiveAttempts(h)

\* The hops whose running call is not over, and the calls it made.
Open(h) == pc # "done" /\ (h < at \/ (h = at /\ pc \in {"service", "edge", "attempt"}))
Made(h) == IF TimeoutMismatch(h) \/ (h = at /\ pc \in {"service", "edge"}) THEN 0 ELSE attempt[h]

CallsInv ==
  /\ calls[1] = 1
  /\ \A h \in Hops :
       calls[h + 1] <= IF Open(h) THEN (calls[h] - 1) * PerCall(pass, h) + Made(h)
                      ELSE calls[h] * PerCall(pass, h)

LEMMA Product ==
  ASSUME NEW c \in Nat, NEW b \in Nat
  PROVE  c * b \in Nat /\ (c - 1) * b \in Int /\ (c - 1) * b + b = c * b /\ ((c + 1) - 1) * b = c * b
  OBVIOUS

LEMMA ProductGrows ==
  ASSUME NEW b \in Nat, NEW c \in Nat, NEW d \in Nat, NEW e \in Nat, b <= d, c <= e
  PROVE  b * c <= d * e
<1>1. PICK x \in Nat : d = b + x
  <2>1. d - b \in Nat /\ d = b + (d - b)
    OBVIOUS
  <2>. QED
    BY <2>1
<1>2. PICK y \in Nat : e = c + y
  <2>1. e - c \in Nat /\ e = c + (e - c)
    OBVIOUS
  <2>. QED
    BY <2>1
<1>3. d * e = b * c + b * y + x * c + x * y
  BY <1>1, <1>2
<1>4. b * y \in Nat /\ x * c \in Nat /\ x * y \in Nat /\ b * c \in Nat
  OBVIOUS
<1>. QED
  BY <1>3, <1>4

LEMMA PerCallType ==
  ASSUME TypeOK, NEW h \in Hops, NEW p
  PROVE  PerCall(p, h) \in Nat /\ PerCall(p, h) <= effectiveAttempts(h)
  BY Attempts DEF PerCall

\* A call in progress has not used up what it may.
LEMMA MadeBound ==
  ASSUME TypeOK, SureInv, NEW h \in Hops, Open(h)
  PROVE  Made(h) \in Nat /\ Made(h) <= PerCall(pass, h)
<1>1. attempt[h] \in Nat /\ attempt[h] <= effectiveAttempts(h)
  BY DEF TypeOK
<1>2. PerCall(pass, h) \in Nat
  BY PerCallType
<1>3. CASE TimeoutMismatch(h) \/ (h = at /\ pc \in {"service", "edge"})
  BY <1>2, <1>3 DEF Made
<1>4. CASE ~(TimeoutMismatch(h) \/ (h = at /\ pc \in {"service", "edge"}))
  <2>1. SureBelow(pass, h) => attempt[h] <= 1
    BY <1>4 DEF Open, SureInv
  <2>. QED
    BY <1>1, <1>4, <2>1 DEF Made, PerCall
<1>. QED
  BY <1>3, <1>4

\* In every state, a service is called at most so often per call above it.
LEMMA CallsPerCall ==
  ASSUME TypeOK, SureInv, CallsInv, NEW h \in Hops
  PROVE  /\ calls[h] \in Nat /\ calls[h + 1] \in Nat
         /\ calls[h + 1] <= calls[h] * PerCall(pass, h)
<1>1. h \in Nodes /\ h + 1 \in Nodes
  BY Sizes DEF Hops, Nodes
<1>2. calls[h] \in Nat /\ calls[h + 1] \in Nat /\ PerCall(pass, h) \in Nat
  BY <1>1, PerCallType DEF TypeOK
<1>3. CASE Open(h)
  <2>1. Made(h) \in Nat /\ Made(h) <= PerCall(pass, h)
    BY <1>3, MadeBound
  <2>2. calls[h + 1] <= (calls[h] - 1) * PerCall(pass, h) + Made(h)
    BY <1>3 DEF CallsInv
  <2> DEFINE c == calls[h]
             b == PerCall(pass, h)
  <2> HIDE DEF c, b
  <2>3. (c - 1) * b \in Int /\ (c - 1) * b + b = c * b /\ c * b \in Nat
    BY <1>2, Product DEF c, b
  <2>4. calls[h + 1] <= (c - 1) * b + Made(h) /\ Made(h) <= b /\ b \in Nat
    BY <1>2, <2>1, <2>2 DEF c, b
  <2>. QED
    BY <1>2, <2>1, <2>3, <2>4 DEF c, b
<1>4. CASE ~Open(h)
  BY <1>2, <1>4 DEF CallsInv
<1>. QED
  BY <1>3, <1>4

LEMMA SamePerCall ==
  ASSUME UNCHANGED <<plan, alive>>
  PROVE  \A p, h : PerCall(p, h)' = PerCall(p, h)
  BY SamePlan, SameUp DEF PerCall

\* A step that calls nothing keeps the bound of every hop it leaves open if it
\* does not take back a call, and of every hop it closes.
LEMMA CallsKept ==
  ASSUME TypeOK, SureInv, CallsInv, Next, UNCHANGED <<calls, pass>>,
         \A h \in Hops : Open(h)' => Open(h) /\ Made(h)' >= Made(h) /\ Made(h)' \in Nat
  PROVE  CallsInv'
<1>1. \A h : PerCall(pass, h)' = PerCall(pass, h)
  BY Inputs, SamePerCall
<1>2. ASSUME NEW h \in Hops
      PROVE  calls[h + 1] <= IF Open(h)' THEN (calls[h] - 1) * PerCall(pass, h) + Made(h)'
                            ELSE calls[h] * PerCall(pass, h)
  <2>1. calls[h] \in Nat /\ calls[h + 1] \in Nat /\ calls[h + 1] <= calls[h] * PerCall(pass, h)
    BY CallsPerCall
  <2>2. CASE Open(h)'
    <3>1. Open(h) /\ Made(h)' >= Made(h) /\ Made(h)' \in Int
      BY <2>2
    <3>2. calls[h + 1] <= (calls[h] - 1) * PerCall(pass, h) + Made(h)
      BY <3>1 DEF CallsInv
    <3>3. Made(h) \in Nat
      BY <3>1, MadeBound
    <3> DEFINE x == (calls[h] - 1) * PerCall(pass, h)
    <3>4. x \in Int
      BY <2>1, PerCallType, Product
    <3> HIDE DEF x
    <3>5. calls[h + 1] <= x + Made(h)
      BY <3>2 DEF x
    <3>6. calls[h + 1] <= x + Made(h)'
      BY <2>1, <3>1, <3>3, <3>4, <3>5
    <3>. QED
      BY <2>2, <3>6 DEF x
  <2>. QED
    BY <2>1, <2>2
<1>. QED
  BY <1>1, <1>2 DEF CallsInv

LEMMA CallsNext == ASSUME TypeOK, SureInv, CallsInv, Next PROVE CallsInv'
<1>1. /\ UNCHANGED <<plan, alive>>
      /\ \A p, h : PerCall(p, h)' = PerCall(p, h)
      /\ \A h : TimeoutMismatch(h)' <=> TimeoutMismatch(h)
  BY Inputs, SamePerCall, SamePlan
<1>2. /\ at \in Int /\ at \in Nodes /\ (pc \in {"edge", "attempt"} => at \in Hops)
      /\ Hops \subseteq Int /\ Nodes \subseteq Int /\ attempt \in [Hops -> Nat] /\ calls \in [Nodes -> Nat]
  BY Sizes DEF TypeOK, Nodes, Hops
<1>3. \A h \in Hops : Made(h) \in Nat
  BY <1>2 DEF Made
<1>5. CASE ServiceDead
  BY <1>1, <1>2, <1>3, <1>5, CallsKept DEF ServiceDead, Return, local, random, Open, Made
<1>6. CASE ServiceErrs
  BY <1>1, <1>2, <1>3, <1>6, CallsKept DEF ServiceErrs, Return, local, Open, Made
<1>7. CASE ServiceWorks
  BY <1>1, <1>2, <1>3, <1>7, CallsKept DEF ServiceWorks, Return, local, Open, Made
<1>8. CASE EnterEdge
  <2>1. \A h \in Hops : h # at => attempt'[h] = attempt[h]
    BY <1>2, <1>8 DEF EnterEdge
  <2>2. pc' = "attempt" => attempt'[at] = 0
    BY <1>2, <1>8 DEF EnterEdge, Return
  <2>. QED
    BY <1>1, <1>2, <1>3, <1>8, <2>1, <2>2, CallsKept DEF EnterEdge, Return, random, Open, Made
<1>9. CASE AttemptFails
  <2>1. attempt'[at] = attempt[at] + 1 /\ \A h \in Hops : h # at => attempt'[h] = attempt[h]
    BY <1>2, <1>9 DEF AttemptFails
  <2>. QED
    BY <1>1, <1>2, <1>3, <1>9, <2>1, CallsKept DEF AttemptFails, Open, Made
<1>10. CASE AttemptCalls
  <2>1. /\ pc = "attempt" /\ pc' = "service" /\ at \in Hops /\ at' = at + 1 /\ pass' = pass
        /\ ~TimeoutMismatch(at)
        /\ attempt' = [attempt EXCEPT ![at] = @ + 1] /\ calls' = [calls EXCEPT ![at + 1] = @ + 1]
    BY <1>2, <1>10 DEF AttemptCalls
  <2>2. /\ at + 1 \in Nodes /\ 1 # at + 1 /\ 1 \in Nodes
        /\ \A h \in Hops : h \in Nodes /\ h + 1 \in Nodes
    BY <2>1, Sizes DEF Nodes, Hops
  <2>3. /\ calls'[at + 1] = calls[at + 1] + 1 /\ calls'[1] = calls[1]
        /\ \A i \in Nodes : i # at + 1 => calls'[i] = calls[i]
        /\ attempt'[at] = attempt[at] + 1 /\ \A h \in Hops : h # at => attempt'[h] = attempt[h]
    BY <1>2, <2>1, <2>2
  <2>4. ASSUME NEW h \in Hops
        PROVE  calls'[h + 1] <= IF Open(h)' THEN (calls'[h] - 1) * PerCall(pass, h) + Made(h)'
                               ELSE calls'[h] * PerCall(pass, h)
    <3>0. h \in Int /\ calls[h] \in Nat /\ calls[h + 1] \in Nat /\ PerCall(pass, h) \in Nat
      BY <1>2, <2>2, PerCallType
    <3>1. CASE h < at
      <4>1. Open(h) /\ Open(h)' /\ Made(h)' = Made(h)
        BY <1>1, <1>2, <2>1, <2>3, <3>1 DEF Open, Made
      <4>2. h + 1 # at + 1 /\ h # at + 1 /\ calls'[h] = calls[h] /\ calls'[h + 1] = calls[h + 1]
        BY <1>2, <2>2, <2>3, <3>1
      <4>. QED
        BY <4>1, <4>2 DEF CallsInv
    <3>2. CASE h = at
      <4>1. Open(h) /\ Open(h)' /\ Made(h) = attempt[h] /\ Made(h)' = attempt[h] + 1
        BY <1>1, <1>2, <2>1, <2>3, <3>2 DEF Open, Made
      <4>2. calls'[h] = calls[h] /\ calls'[h + 1] = calls[h + 1] + 1
        BY <1>2, <2>2, <2>3, <3>2
      <4>3. calls[h + 1] <= (calls[h] - 1) * PerCall(pass, h) + attempt[h]
        BY <4>1 DEF CallsInv
      <4> DEFINE x == (calls[h] - 1) * PerCall(pass, h)
      <4>4. x \in Int /\ attempt[h] \in Nat
        BY <1>2, <3>0, Product
      <4> HIDE DEF x
      <4>5. calls[h + 1] + 1 <= x + (attempt[h] + 1)
        BY <3>0, <4>3, <4>4 DEF x
      <4>. QED
        BY <4>1, <4>2, <4>5 DEF x
    <3>3. CASE h = at + 1
      <4>1. ~Open(h) /\ Open(h)' /\ Made(h)' = 0
        BY <1>1, <1>2, <2>1, <3>3 DEF Open, Made
      <4>2. calls'[h] = calls[h] + 1 /\ calls'[h + 1] = calls[h + 1]
        BY <1>2, <2>2, <2>3, <3>3
      <4>3. calls[h + 1] <= calls[h] * PerCall(pass, h)
        BY <4>1 DEF CallsInv
      <4>4. ((calls[h] + 1) - 1) * PerCall(pass, h) + 0 = calls[h] * PerCall(pass, h)
        BY <3>0
      <4>. QED
        BY <4>1, <4>2, <4>3, <4>4
    <3>4. CASE h > at + 1
      <4>1. ~Open(h) /\ ~Open(h)'
        BY <1>2, <2>1, <3>4 DEF Open
      <4>2. calls'[h] = calls[h] /\ calls'[h + 1] = calls[h + 1]
        BY <1>2, <2>2, <2>3, <3>4
      <4>. QED
        BY <4>1, <4>2 DEF CallsInv
    <3>. QED
      BY <1>2, <3>0, <3>1, <3>2, <3>3, <3>4
  <2>. QED
    BY <1>1, <2>1, <2>3, <2>4 DEF CallsInv
<1>11. CASE AttemptsExhausted
  BY <1>1, <1>2, <1>3, <1>11, CallsKept DEF AttemptsExhausted, Return, local, random, Open, Made
<1>12. CASE ReturnToHop
  <2>1. at' = at - 1 /\ pc = "return" /\ pc' \in {"attempt", "return"} /\ UNCHANGED <<pass, attempt, calls>>
    BY <1>12 DEF ReturnToHop, AfterCall, Return
  <2>. QED
    BY <1>1, <1>2, <1>3, <2>1, CallsKept DEF Open, Made
<1>13. CASE PassEnds
  <2>1. CASE pass = 1
    <3>1. pc' = "service" /\ at' = 1 /\ calls' = NoCalls
      BY <1>13, <2>1 DEF PassEnds
    <3>2. calls' \in [Nodes -> Nat] /\ calls'[1] = 1
      BY <3>1, Sizes DEF NoCalls, Nodes
    <3>3. ASSUME NEW h \in Hops
          PROVE  calls'[h + 1] <= IF Open(h)' THEN (calls'[h] - 1) * PerCall(pass', h) + Made(h)'
                                 ELSE calls'[h] * PerCall(pass', h)
      <4>1. h \in Int /\ 1 <= h /\ h \in Nodes /\ h + 1 \in Nodes /\ h + 1 # 1
        BY Sizes DEF Hops, Nodes
      <4>2. calls'[h + 1] = 0 /\ (h # 1 => calls'[h] = 0) /\ (h = 1 => calls'[h] = 1)
        BY <3>1, <4>1 DEF NoCalls
      <4>3. PerCall(pass', h) \in Nat
        BY PerCallType
      <4>4. CASE h = 1
        <5>1. Open(h)' /\ Made(h)' = 0
          BY <3>1, <4>4 DEF Open, Made
        <5>. QED
          BY <4>2, <4>3, <4>4, <5>1
      <4>5. CASE h # 1
        <5>1. ~Open(h)'
          BY <3>1, <4>1, <4>5 DEF Open
        <5>. QED
          BY <4>2, <4>3, <4>5, <5>1
      <4>. QED
        BY <4>4, <4>5
    <3>. QED
      BY <1>1, <3>2, <3>3 DEF CallsInv
  <2>2. CASE pass # 1
    <3>1. pc' = "done" /\ UNCHANGED <<calls, pass>>
      BY <1>13, <2>2 DEF PassEnds
    <3>. QED
      BY <3>1, CallsKept DEF Open
  <2>. QED
    BY <2>1, <2>2
<1>. QED
  BY <1>5, <1>6, <1>7, <1>8, <1>9, <1>10, <1>11, <1>12, <1>13 DEF Next

\* The attempts the loop makes are those the policy allows.
LEMMA AttemptsAllowed ==
  ASSUME NEW policy \in Policy
  PROVE  AllowedAttempts(policy) =
           LET retried == IF policy.maxAttempts > 1 THEN policy.maxAttempts ELSE 1
           IN IF policy.maxRequests \in 1 .. retried - 1 THEN policy.maxRequests ELSE retried
<1> DEFINE a == policy.maxAttempts
           m == policy.maxRequests
           r == IF a > 1 THEN a ELSE 1
<1>1. a \in Nat /\ m \in Nat
  BY DEF Policy
<1> HIDE DEF a, m
<1>2. r \in Nat /\ Max({1, a}) = r
  <2>1. r \in {1, a} /\ \A y \in {1, a} : r >= y
    BY <1>1
  <2>2. \A x \in {1, a} : (\A y \in {1, a} : x >= y) => x = r
    BY <1>1
  <2> HIDE DEF r
  <2>3. Max({1, a}) = CHOOSE x \in {1, a} : \A y \in {1, a} : x >= y
    BY DEF Max
  <2>. QED
    BY <1>1, <2>1, <2>2, <2>3
<1> HIDE DEF r
<1> DEFINE S == {r} \cup ({m} \ {0})
           w == IF m \in 1 .. r - 1 THEN m ELSE r
<1>3. Min(S) = w
  <2>1. w \in S /\ \A y \in S : w <= y
    BY <1>1, <1>2
  <2>2. \A x \in S : (\A y \in S : x <= y) => x = w
    BY <1>1, <1>2
  <2> HIDE DEF S, w
  <2>. QED
    BY <2>1, <2>2 DEF Min
<1>. QED
  BY <1>2, <1>3 DEF AllowedAttempts, a, m, r

\* The recursive definition of MostCalls defines a function.
LEMMA MostCallsUnfold ==
  MostCalls = [i \in Nodes |-> IF i = 1 THEN 1 ELSE MostCalls[i - 1] * AllowedAttempts(plan.policy[i - 1])]
<1> DEFINE F(f, n) == [i \in 1 .. n |-> IF i = 1 THEN 1 ELSE f[i - 1] * AllowedAttempts(plan.policy[i - 1])]
           T == {n \in Nat : \E f : f = F(f, n)}
<1>1. 0 \in T
  <2> DEFINE f == [i \in 1 .. 0 |-> 1]
  <2>1. f = F(f, 0)
    OBVIOUS
  <2> HIDE DEF f
  <2>. QED
    BY <2>1
<1>2. ASSUME NEW n \in T PROVE n + 1 \in T
  <2>1. PICK f : f = F(f, n)
    OBVIOUS
  <2> DEFINE g == F(f, n + 1)
  <2>2. \A i \in 1 .. n : g[i] = f[i]
    BY <2>1
  <2>3. \A i \in 1 .. n + 1 : i # 1 => i - 1 \in 1 .. n
    OBVIOUS
  <2>4. g = F(g, n + 1)
    BY <2>2, <2>3
  <2> HIDE DEF g
  <2>. QED
    BY <2>4
<1>3. N \in T
  <2>1. T \in SUBSET Nat
    OBVIOUS
  <2> HIDE DEF T
  <2>. QED
    BY <1>1, <1>2, <2>1, SetInduction, Sizes
<1>4. \E f : f = F(f, N)
  BY <1>3
<1>. QED
  BY <1>4 DEF MostCalls, Nodes

LEMMA CallsFromInv == ASSUME TypeOK, SureInv, CallsInv PROVE CallsBounded
<1> DEFINE Beyond == {i \in Nodes : ~(MostCalls[i] \in Nat /\ calls[i] <= MostCalls[i])}
<1>1. SUFFICES ASSUME Beyond # {} PROVE FALSE
  BY DEF CallsBounded
<1>2. Beyond \in SUBSET Nat
  BY DEF Nodes
<1>3. PICK i \in Beyond : \A j \in Beyond : i <= j
  BY <1>1, <1>2, LeastNatural
<1>4. i \in Nodes /\ ~(MostCalls[i] \in Nat /\ calls[i] <= MostCalls[i])
  BY <1>3
<1>5. i # 1
  BY <1>4, MostCallsUnfold DEF CallsInv
<1>6. i - 1 \in Hops /\ i - 1 \in Nodes /\ (i - 1) + 1 = i /\ ~(i <= i - 1)
  BY <1>4, <1>5, Sizes DEF Nodes, Hops
<1>7. MostCalls[i - 1] \in Nat /\ calls[i - 1] <= MostCalls[i - 1]
  BY <1>3, <1>6
<1>8. MostCalls[i] = MostCalls[i - 1] * effectiveAttempts(i - 1)
  <2>1. plan.policy[i - 1] \in Policy
    BY <1>6, Plans1
  <2>2. AllowedAttempts(plan.policy[i - 1]) = effectiveAttempts(i - 1)
    BY <2>1, AttemptsAllowed DEF effectiveAttempts
  <2>. QED
    BY <1>4, <1>5, <2>2, MostCallsUnfold
<1>9. /\ calls[i - 1] \in Nat /\ calls[i] \in Nat /\ calls[i] <= calls[i - 1] * PerCall(pass, i - 1)
      /\ PerCall(pass, i - 1) \in Nat /\ PerCall(pass, i - 1) <= effectiveAttempts(i - 1)
      /\ effectiveAttempts(i - 1) \in Nat
  BY <1>6, CallsPerCall, PerCallType, Attempts
<1>10. calls[i - 1] * PerCall(pass, i - 1) <= MostCalls[i - 1] * effectiveAttempts(i - 1)
  BY <1>7, <1>9, ProductGrows
<1>11. /\ MostCalls[i - 1] * effectiveAttempts(i - 1) \in Nat
       /\ calls[i - 1] * PerCall(pass, i - 1) \in Nat
  BY <1>7, <1>9, Product
<1>. QED
  BY <1>4, <1>8, <1>9, <1>10, <1>11

-----------------------------------------------------------------------------
(* The second execution follows the first.                                 *)

\* The state of the recursion, and what comes after it in stream s if all is
\* live.  It is known if its draw was made, and if the recursion goes on.
Here == [pc |-> pc, at |-> at, attempt |-> attempt, pos |-> pos, ok |-> pc = "return" /\ ok]
Start == [pc |-> "service", at |-> 1, attempt |-> Fresh, pos |-> 1, ok |-> FALSE]

Tries(x) == x.pc = "attempt" /\ x.attempt[x.at] < effectiveAttempts(x.at)
Rate(x) == IF x.pc = "service" THEN plan.serviceRate[x.at]
           ELSE IF Tries(x) THEN plan.edgeRate[x.at] ELSE 0
Known(s, x) == ~(x.pc = "return" /\ x.at = 1) /\ (Rate(x) = 0 \/ x.pos \in 1 .. Len(s))
Err(s, x) == Rate(x) > 0 /\ s[x.pos] < Rate(x)
Descends(s, x) == Tries(x) /\ ~Err(s, x) /\ ~TimeoutMismatch(x.at)

Follow(s, x) ==
  [pc |-> IF x.pc = "service" THEN IF Err(s, x) \/ x.at = N THEN "return" ELSE "edge"
          ELSE IF x.pc = "edge" THEN "attempt"
          ELSE IF x.pc = "attempt"
          THEN IF Descends(s, x) THEN "service" ELSE IF Tries(x) THEN "attempt" ELSE "return"
          ELSE IF x.ok THEN "return" ELSE "attempt",
   at |-> IF Descends(s, x) THEN x.at + 1 ELSE IF x.pc = "return" THEN x.at - 1 ELSE x.at,
   attempt |-> IF x.pc = "edge" THEN [x.attempt EXCEPT ![x.at] = 0]
               ELSE IF Tries(x) THEN [x.attempt EXCEPT ![x.at] = @ + 1] ELSE x.attempt,
   pos |-> IF Rate(x) = 0 THEN x.pos ELSE x.pos + 1,
   ok |-> IF x.pc = "service" THEN ~Err(s, x) /\ x.at = N ELSE x.pc = "return" /\ x.ok]

\* y is reached from x: it is in every set that holds x and what follows.
Closed(s, S) == \A x \in S : Known(s, x) => Follow(s, x) \in S
Leads(s, x, y) == \A S : x \in S /\ Closed(s, S) => y \in S

\* With everything live the first execution is at what its start leads to; the
\* second at what leads to where the first ended.
CoupledInv ==
  /\ PathLive(alive[2]) => PathLive(alive[1])
  /\ pass = 1 /\ PathLive(alive[1]) => Leads(stream, Start, Here)
  /\ pass = 2 /\ pc # "done" /\ PathLive(alive[2]) =>
       \E end : end.pc = "return" /\ end.at = 1 /\ end.ok = outcome[1] /\ Leads(stream, Here, end)
  /\ pc = "done" /\ PathLive(alive[2]) => outcome[2] = outcome[1]

LEMMA SameFollow ==
  ASSUME UNCHANGED plan
  PROVE  /\ \A s, x : Known(s, x)' <=> Known(s, x)
         /\ \A s, x : Follow(s, x)' = Follow(s, x)
         /\ \A s, x, y : Leads(s, x, y)' <=> Leads(s, x, y)
<1>1. \A x : Tries(x)' <=> Tries(x)
  BY SamePlan DEF Tries
<1>2. \A x : Rate(x)' = Rate(x)
  BY <1>1 DEF Rate
<1>3. \A s, x : Known(s, x)' <=> Known(s, x)
  BY <1>2 DEF Known
<1>4. \A s, x : Err(s, x)' <=> Err(s, x)
  BY <1>2 DEF Err
<1>5. \A s, x : Descends(s, x)' <=> Descends(s, x)
  BY <1>1, <1>4, SamePlan DEF Descends
<1>6. \A s, x : Follow(s, x)' = Follow(s, x)
  BY <1>1, <1>2, <1>4, <1>5 DEF Follow
<1>7. \A s, S : Closed(s, S)' <=> Closed(s, S)
  BY <1>3, <1>6 DEF Closed
<1>8. \A s, x, y : Leads(s, x, y)' <=> Leads(s, x, y)
  BY <1>7 DEF Leads
<1>. QED
  BY <1>3, <1>6, <1>8

\* A longer stream adds to what is known and changes nothing in it.
LEMMA LongerStream ==
  ASSUME NEW s, NEW t, Len(s) \in Nat, Len(t) \in Nat, Len(s) <= Len(t),
         \A i \in 1 .. Len(s) : t[i] = s[i], NEW S, Closed(t, S)
  PROVE  Closed(s, S)
<1> SUFFICES ASSUME NEW x \in S, Known(s, x) PROVE Follow(s, x) \in S
  BY DEF Closed
<1>1. Known(t, x)
  BY DEF Known
<1>2. Err(t, x) <=> Err(s, x)
  <2>1. CASE Rate(x) = 0
    BY <2>1 DEF Err
  <2>2. CASE Rate(x) # 0
    BY <2>2 DEF Known, Err
  <2>. QED
    BY <2>1, <2>2
<1>3. Follow(t, x) = Follow(s, x)
  BY <1>2 DEF Follow, Descends
<1>. QED
  BY <1>1, <1>3 DEF Closed

\* Every step of an execution with everything live is the one that follows.
LEMMA StepsFollow ==
  ASSUME TypeOK, Next, ~PassEnds, PathLive(alive[pass])
  PROVE  /\ Known(stream', Here) /\ Here' = Follow(stream', Here)
         /\ Len(stream) \in Nat /\ Len(stream') \in Nat /\ Len(stream) <= Len(stream')
         /\ \A i \in 1 .. Len(stream) : stream'[i] = stream[i]
         /\ Known(stream, Here) => stream' = stream
         /\ pass' = pass /\ UNCHANGED outcome /\ pc \in {"service", "edge", "attempt", "return"}
         /\ pc' # "done" /\ ~(pc = "return" /\ at = 1)
<1>1. /\ stream \in Seq(Levels) /\ Len(stream) \in Nat /\ pos \in 1 .. Len(stream) + 1 /\ pos \in Int
      /\ at \in Int /\ at \in Nodes /\ (pc \in {"edge", "attempt"} => at \in Hops)
      /\ ok \in BOOLEAN /\ attempt \in [Hops -> Nat]
  BY Sizes DEF TypeOK, Nodes
<1>2. at \in alive[pass].services /\ (pc = "edge" => at \in alive[pass].edges)
  BY <1>1 DEF PathLive, Everything
<1>3. \A i \in Nodes : plan.serviceRate[i] \in 0 .. Draws
  BY Plans1
<1>4. \A h \in Hops : plan.edgeRate[h] \in 0 .. Draws
  BY Plans1
<1> DEFINE x == Here
<1>5. x.pc = pc /\ x.at = at /\ x.attempt = attempt /\ x.pos = pos /\ x.ok = (pc = "return" /\ ok)
  BY DEF Here
<1>6. Here' = [pc |-> pc', at |-> at', attempt |-> attempt', pos |-> pos', ok |-> pc' = "return" /\ ok']
  BY DEF Here
<1> HIDE DEF x
<1>7. ~ServiceDead
  BY <1>2 DEF ServiceDead
<1>8. CASE ServiceErrs
  <2>1. pc = "service" /\ Rate(x) = plan.serviceRate[at] /\ Rate(x) \in 0 .. Draws /\ Errs(Rate(x))
    BY <1>1, <1>3, <1>5, <1>8 DEF ServiceErrs, Rate
  <2>2. Rate(x) # 0
    BY <2>1, RateUp
  <2>3. /\ stream' \in Seq(Levels) /\ Len(stream) <= Len(stream') /\ \A i \in 1 .. Len(stream) : stream'[i] = stream[i]
        /\ pos <= Len(stream) => stream' = stream
        /\ pos' = pos + 1 /\ pos \in 1 .. Len(stream') /\ stream'[pos] < Rate(x) /\ Rate(x) > 0
    BY <2>1, <2>2, Drawn
  <2>4. /\ Known(stream', x) /\ Err(stream', x) /\ ~Tries(x) /\ ~Descends(stream', x)
        /\ Known(stream, x) => stream' = stream
    BY <1>5, <2>1, <2>2, <2>3 DEF Known, Err, Tries, Descends
  <2>5. Here' = Follow(stream', x)
    BY <1>5, <1>6, <1>8, <2>1, <2>2, <2>3, <2>4 DEF ServiceErrs, Return, local, Follow
  <2>. QED
    BY <1>1, <1>8, <2>1, <2>3, <2>4, <2>5 DEF ServiceErrs, Return, x
<1>9. CASE ServiceWorks
  <2>1. pc = "service" /\ Rate(x) = plan.serviceRate[at] /\ Rate(x) \in 0 .. Draws /\ Works(Rate(x))
    BY <1>1, <1>3, <1>5, <1>9 DEF ServiceWorks, Rate
  <2>2. /\ stream' \in Seq(Levels) /\ Len(stream) <= Len(stream') /\ \A i \in 1 .. Len(stream) : stream'[i] = stream[i]
        /\ Rate(x) = 0 \/ pos <= Len(stream) => stream' = stream
        /\ pos' = IF Rate(x) = 0 THEN pos ELSE pos + 1
        /\ Rate(x) # 0 => pos \in 1 .. Len(stream')
    BY <2>1, Drawn
  <2>3. ~(Rate(x) > 0 /\ stream'[pos] < Rate(x))
    <3>1. Rate(x) > 0 => stream'[pos] \in Levels /\ stream'[pos] >= Rate(x)
      BY <2>1, Drawn
    <3>. QED
      BY <2>1, <3>1, Sizes DEF Levels
  <2>4. /\ Known(stream', x) /\ ~Err(stream', x) /\ ~Tries(x) /\ ~Descends(stream', x)
        /\ Known(stream, x) => stream' = stream
    BY <1>5, <2>1, <2>2, <2>3 DEF Known, Err, Tries, Descends
  <2>5. Here' = Follow(stream', x)
    BY <1>5, <1>6, <1>9, <2>1, <2>2, <2>4 DEF ServiceWorks, Return, local, Follow
  <2>. QED
    BY <1>1, <1>9, <2>1, <2>2, <2>4, <2>5 DEF ServiceWorks, Return, x
<1>10. CASE EnterEdge
  <2>1. /\ pc = "edge" /\ pc' = "attempt" /\ attempt' = [attempt EXCEPT ![at] = 0]
        /\ UNCHANGED <<stream, pos, at, pass, outcome>>
    BY <1>2, <1>10 DEF EnterEdge, random
  <2>2. Rate(x) = 0 /\ ~Tries(x) /\ ~Descends(stream', x) /\ Known(stream', x)
    BY <1>5, <2>1 DEF Rate, Tries, Descends, Known
  <2>3. Here' = Follow(stream', x)
    BY <1>5, <1>6, <2>1, <2>2 DEF Follow
  <2>. QED
    BY <1>1, <2>1, <2>2, <2>3 DEF x
<1>11. CASE AttemptFails
  <2>1. /\ pc = "attempt" /\ Tries(x) /\ Rate(x) = plan.edgeRate[at] /\ Rate(x) \in 0 .. Draws /\ at \in Hops
        /\ Errs(Rate(x)) \/ (TimeoutMismatch(at) /\ Works(Rate(x)))
    BY <1>1, <1>4, <1>5, <1>11 DEF AttemptFails, MoreAttempts, Tries, Rate
  <2>2. /\ stream' \in Seq(Levels) /\ Len(stream) <= Len(stream') /\ \A i \in 1 .. Len(stream) : stream'[i] = stream[i]
        /\ Rate(x) = 0 \/ pos <= Len(stream) => stream' = stream
        /\ pos' = IF Rate(x) = 0 THEN pos ELSE pos + 1
        /\ Rate(x) # 0 => pos \in 1 .. Len(stream')
    BY <2>1, Drawn
  <2>3. ~Descends(stream', x)
    <3>1. CASE Errs(Rate(x))
      <4>1. Rate(x) # 0
        BY <2>1, <3>1, RateUp
      <4>2. stream'[pos] < Rate(x) /\ Rate(x) > 0
        BY <2>1, <3>1, <4>1, Drawn
      <4>. QED
        BY <1>5, <4>2 DEF Err, Descends
    <3>2. CASE TimeoutMismatch(at)
      BY <1>5, <3>2 DEF Descends
    <3>. QED
      BY <2>1, <3>1, <3>2
  <2>4. Known(stream', x) /\ (Known(stream, x) => stream' = stream)
    BY <1>5, <2>1, <2>2 DEF Known
  <2>5. Here' = Follow(stream', x)
    BY <1>5, <1>6, <1>11, <2>1, <2>2, <2>3 DEF AttemptFails, Follow
  <2>. QED
    BY <1>1, <1>11, <2>1, <2>2, <2>4, <2>5 DEF AttemptFails, x
<1>12. CASE AttemptCalls
  <2>1. /\ pc = "attempt" /\ Tries(x) /\ Rate(x) = plan.edgeRate[at] /\ Rate(x) \in 0 .. Draws /\ at \in Hops
        /\ ~TimeoutMismatch(at) /\ Works(Rate(x))
    BY <1>1, <1>4, <1>5, <1>12 DEF AttemptCalls, MoreAttempts, Tries, Rate
  <2>2. /\ stream' \in Seq(Levels) /\ Len(stream) <= Len(stream') /\ \A i \in 1 .. Len(stream) : stream'[i] = stream[i]
        /\ Rate(x) = 0 \/ pos <= Len(stream) => stream' = stream
        /\ pos' = IF Rate(x) = 0 THEN pos ELSE pos + 1
        /\ Rate(x) # 0 => pos \in 1 .. Len(stream')
    BY <2>1, Drawn
  <2>3. ~(Rate(x) > 0 /\ stream'[pos] < Rate(x))
    <3>1. Rate(x) > 0 => stream'[pos] \in Levels /\ stream'[pos] >= Rate(x)
      BY <2>1, Drawn
    <3>. QED
      BY <2>1, <3>1, Sizes DEF Levels
  <2>4. Descends(stream', x)
    BY <1>5, <2>1, <2>3 DEF Err, Descends
  <2>5. Known(stream', x) /\ (Known(stream, x) => stream' = stream)
    BY <1>5, <2>1, <2>2 DEF Known
  <2>6. Here' = Follow(stream', x)
    BY <1>5, <1>6, <1>12, <2>1, <2>2, <2>4 DEF AttemptCalls, Follow
  <2>. QED
    BY <1>1, <1>12, <2>1, <2>2, <2>5, <2>6 DEF AttemptCalls, x
<1>13. CASE AttemptsExhausted
  <2>1. /\ pc = "attempt" /\ pc' = "return" /\ ok' = FALSE /\ ~(attempt[at] < effectiveAttempts(at))
        /\ UNCHANGED <<stream, pos, at, attempt, pass, outcome>>
    BY <1>13 DEF AttemptsExhausted, Return, local, random, MoreAttempts
  <2>2. Rate(x) = 0 /\ ~Tries(x) /\ ~Descends(stream', x) /\ Known(stream', x)
    BY <1>5, <2>1 DEF Rate, Tries, Descends, Known
  <2>3. Here' = Follow(stream', x)
    BY <1>5, <1>6, <2>1, <2>2 DEF Follow
  <2>. QED
    BY <1>1, <2>1, <2>2, <2>3 DEF x
<1>14. CASE ReturnToHop
  <2>1. /\ pc = "return" /\ at > 1 /\ at' = at - 1 /\ pc' = (IF ok THEN "return" ELSE "attempt")
        /\ (ok => ok') /\ UNCHANGED <<stream, pos, attempt, pass, outcome>>
    BY <1>14 DEF ReturnToHop, AfterCall, Return, random
  <2>2. Rate(x) = 0 /\ ~Tries(x) /\ ~Descends(stream', x) /\ Known(stream', x)
    BY <1>1, <1>5, <2>1 DEF Rate, Tries, Descends, Known
  <2>3. Here' = Follow(stream', x)
    BY <1>1, <1>5, <1>6, <2>1, <2>2 DEF Follow
  <2>. QED
    BY <1>1, <2>1, <2>2, <2>3 DEF x
<1>. QED
  BY <1>7, <1>8, <1>9, <1>10, <1>11, <1>12, <1>13, <1>14 DEF Next

LEMMA CoupledNext == ASSUME TypeOK, CoupledInv, Next PROVE CoupledInv'
<1>1. /\ UNCHANGED <<plan, alive>>
      /\ \A s, x : Known(s, x)' <=> Known(s, x)
      /\ \A s, x, y : Leads(s, x, y)' <=> Leads(s, x, y)
  BY Inputs, SameFollow
<1>2. pass \in {1, 2} /\ Start' = Start /\ ok \in BOOLEAN
  BY DEF TypeOK, Passes, Start, Fresh
<1>3. CASE ~PassEnds
  <2>1. CASE ~PathLive(alive[pass])
    <3>1. pass' = pass /\ pc' # "done"
      BY <1>3 DEF Next, ServiceDead, ServiceErrs, ServiceWorks, EnterEdge, AttemptFails, AttemptCalls,
                  AttemptsExhausted, ReturnToHop, Return, AfterCall
    <3>. QED
      BY <1>1, <1>2, <2>1, <3>1 DEF CoupledInv, PathLive, Everything
  <2>2. CASE PathLive(alive[pass])
    <3>1. /\ Known(stream', Here) /\ Here' = Follow(stream', Here)
          /\ Len(stream) \in Nat /\ Len(stream') \in Nat /\ Len(stream) <= Len(stream')
          /\ \A i \in 1 .. Len(stream) : stream'[i] = stream[i]
          /\ Known(stream, Here) => stream' = stream
          /\ pass' = pass /\ UNCHANGED outcome /\ pc \in {"service", "edge", "attempt", "return"}
          /\ pc' # "done" /\ ~(pc = "return" /\ at = 1)
      BY <1>3, <2>2, StepsFollow
    <3>2. ASSUME pass = 1, Leads(stream, Start, Here) PROVE Leads(stream', Start, Here')
      <4> SUFFICES ASSUME NEW S, Start \in S, Closed(stream', S) PROVE Here' \in S
        BY DEF Leads
      <4>1. Closed(stream, S)
        BY <3>1, LongerStream
      <4>2. Here \in S
        BY <3>2, <4>1 DEF Leads
      <4>. QED
        BY <3>1, <4>2 DEF Closed
    <3>3. ASSUME NEW end, end.pc = "return", end.at = 1, Leads(stream, Here, end)
          PROVE  Leads(stream', Here', end)
      <4>1. end # Here
        BY <3>1, <3>3 DEF Here
      <4>2. Known(stream, Here)
        <5>1. SUFFICES ASSUME ~Known(stream, Here) PROVE FALSE
          OBVIOUS
        <5>2. Closed(stream, {Here})
          BY <5>1 DEF Closed
        <5>3. end \in {Here}
          BY <3>3, <5>2 DEF Leads
        <5>. QED
          BY <4>1, <5>3
      <4>3. stream' = stream /\ Here' = Follow(stream, Here)
        BY <3>1, <4>2
      <4>4. ASSUME NEW S, Here' \in S, Closed(stream, S) PROVE end \in S
        <5>1. Closed(stream, S \cup {Here})
          BY <4>3, <4>4 DEF Closed
        <5>2. end \in S \cup {Here}
          BY <3>3, <5>1 DEF Leads
        <5>. QED
          BY <4>1, <5>2
      <4>. QED
        BY <4>3, <4>4 DEF Leads
    <3>4. CASE pass = 1
      BY <1>1, <1>2, <2>2, <3>1, <3>2, <3>4 DEF CoupledInv, PathLive, Everything
    <3>5. CASE pass = 2
      <4>1. PICK end : end.pc = "return" /\ end.at = 1 /\ end.ok = outcome[1] /\ Leads(stream, Here, end)
        BY <2>2, <3>1, <3>5 DEF CoupledInv
      <4>2. Leads(stream', Here', end)
        BY <3>3, <4>1
      <4>. QED
        BY <1>1, <1>2, <3>1, <3>5, <4>1, <4>2 DEF CoupledInv, PathLive, Everything
    <3>. QED
      BY <1>2, <3>4, <3>5
  <2>. QED
    BY <2>1, <2>2
<1>4. CASE PassEnds
  <2>1. /\ pc = "return" /\ at = 1 /\ at' = at /\ outcome' = Append(outcome, ok) /\ stream' = stream
        /\ outcome \in Seq(BOOLEAN) /\ Len(outcome) = pass - 1
    BY <1>4 DEF PassEnds, TypeOK
  <2>2. CASE pass = 1
    <3>1. /\ pass' = 2 /\ pc' = "service" /\ pos' = 1 /\ attempt' = Fresh /\ outcome'[1] = ok
      BY <1>4, <2>1, <2>2 DEF PassEnds, FreshGenerator
    <3>2. Here' = Start /\ Here.pc = "return" /\ Here.at = 1 /\ Here.ok = ok
      BY <1>2, <2>1, <3>1 DEF Here, Start
    <3>3. PathLive(alive[2]) => Leads(stream, Start, Here)
      BY <2>2 DEF CoupledInv
    <3>4. PathLive(alive[2]) =>
            \E end : end.pc = "return" /\ end.at = 1 /\ end.ok = outcome'[1] /\ Leads(stream', Here', end)
      BY <2>1, <3>1, <3>2, <3>3
    <3>. QED
      BY <1>1, <3>1, <3>4 DEF CoupledInv, PathLive, Everything
  <2>3. CASE pass = 2
    <3>4. Len(outcome) = 1 /\ 1 \in 1 .. Len(outcome) /\ 2 = Len(outcome) + 1
      BY <2>1, <2>3
    <3>0. outcome'[1] = outcome[1] /\ outcome'[2] = ok
      BY <1>2, <2>1, <3>4
    <3>1. /\ pass' = 2 /\ pc' = "done" /\ outcome'[1] = outcome[1] /\ outcome'[2] = ok
      BY <1>4, <2>1, <2>3, <3>0 DEF PassEnds
    <3>2. ASSUME PathLive(alive[2]) PROVE ok = outcome[1]
      <4>1. PICK end : end.pc = "return" /\ end.at = 1 /\ end.ok = outcome[1] /\ Leads(stream, Here, end)
        BY <2>1, <2>3, <3>2 DEF CoupledInv
      <4>2. Here.pc = "return" /\ Here.at = 1 /\ Here.ok = ok
        BY <1>2, <2>1 DEF Here
      <4>3. Closed(stream, {Here})
        BY <4>2 DEF Closed, Known
      <4>4. end \in {Here}
        BY <4>1, <4>3 DEF Leads
      <4>. QED
        BY <4>1, <4>2, <4>4
    <3>. QED
      BY <1>1, <2>1, <3>1, <3>2 DEF CoupledInv, PathLive, Everything
  <2>. QED
    BY <1>2, <2>2, <2>3
<1>. QED
  BY <1>3, <1>4

-----------------------------------------------------------------------------
(* The invariant, and what it gives.                                       *)

PathInv == TypeOK /\ CrossedInv /\ SureInv /\ OutcomesInv /\ CallsInv /\ CoupledInv

LEMMA InitInv == Init => PathInv
<1> SUFFICES ASSUME Init PROVE PathInv
  OBVIOUS
<1>1. TypeOK
  BY TypeInit
<1>2. /\ pass = 1 /\ pc = "service" /\ at = 1 /\ attempt = Fresh /\ pos = 1 /\ calls = NoCalls
      /\ outcome = << >> /\ alive[2].services \subseteq alive[1].services
      /\ alive[2].edges \subseteq alive[1].edges
  BY DEF Init
<1>3. \A h \in Hops : h \in Int /\ 1 <= h /\ h \in Nodes /\ h + 1 \in Nodes /\ h + 1 # 1 /\ ~(h < 1)
  BY Sizes DEF Hops, Nodes
<1>4. CrossedInv /\ SureInv
  BY <1>2, <1>3 DEF CrossedInv, SureInv
<1>5. OutcomesInv
  <2>1. \A p : p \notin 1 .. Len(outcome)
    BY <1>2
  <2>. QED
    BY <2>1 DEF OutcomesInv
<1>6. CallsInv
  <2>1. calls[1] = 1
    BY <1>2, Sizes DEF NoCalls, Nodes
  <2>2. ASSUME NEW h \in Hops
        PROVE  calls[h + 1] <= IF Open(h) THEN (calls[h] - 1) * PerCall(pass, h) + Made(h)
                              ELSE calls[h] * PerCall(pass, h)
    <3>1. calls[h + 1] = 0 /\ (h # 1 => calls[h] = 0)
      BY <1>2, <1>3 DEF NoCalls
    <3>2. PerCall(pass, h) \in Nat
      BY <1>1, PerCallType
    <3>3. CASE h = 1
      <4>1. Open(h) /\ Made(h) = 0
        BY <1>2, <3>3 DEF Open, Made
      <4>. QED
        BY <2>1, <3>1, <3>2, <3>3, <4>1
    <3>4. CASE h # 1
      <4>1. ~Open(h)
        BY <1>2, <1>3, <3>4 DEF Open
      <4>. QED
        BY <3>1, <3>2, <3>4, <4>1
    <3>. QED
      BY <3>3, <3>4
  <2>. QED
    BY <2>1, <2>2 DEF CallsInv
<1>7. CoupledInv
  <2>1. Here = Start
    BY <1>2 DEF Here, Start
  <2>2. Leads(stream, Start, Here)
    BY <2>1 DEF Leads
  <2>3. alive[1] \in [services : SUBSET Nodes, edges : SUBSET Hops]
    BY <1>1 DEF TypeOK, Passes
  <2>4. ASSUME PathLive(alive[2]) PROVE PathLive(alive[1])
    <3>0. alive[2].services = Nodes /\ alive[2].edges = Hops
      BY <2>4 DEF PathLive, Everything
    <3>3. alive[1].services \subseteq Nodes /\ alive[1].edges \subseteq Hops
      BY <2>3
    <3>1. alive[1].services = Nodes /\ alive[1].edges = Hops
      BY <1>2, <3>0, <3>3
    <3>. QED
      BY <2>3, <3>1 DEF PathLive, Everything
  <2>. QED
    BY <1>2, <2>2, <2>4 DEF CoupledInv
<1>. QED
  BY <1>1, <1>4, <1>5, <1>6, <1>7 DEF PathInv

LEMMA NextInv == PathInv /\ [Next]_vars => PathInv'
<1> SUFFICES ASSUME PathInv, [Next]_vars PROVE PathInv'
  OBVIOUS
<1>1. CASE Next
  BY <1>1, TypeNext, CrossedNext, SureNext, OutcomesNext, CallsNext, CoupledNext DEF PathInv
<1>2. CASE UNCHANGED vars
  <2>1. UNCHANGED <<plan, alive, pass, pc, at, attempt, ok, stream, pos, calls, outcome>>
    BY <1>2 DEF vars
  <2>2. /\ \A h : effectiveAttempts(h)' = effectiveAttempts(h)
        /\ \A h : TimeoutMismatch(h)' <=> TimeoutMismatch(h)
        /\ \A p, h : PerCall(p, h)' = PerCall(p, h)
        /\ \A p, i : ServiceUp(p, i)' <=> ServiceUp(p, i)
        /\ \A p, h : HopUp(p, h)' <=> HopUp(p, h)
        /\ \A p, i : PathUp(p, i)' <=> PathUp(p, i)
        /\ \A p, i : Sure(p, i)' <=> Sure(p, i)
        /\ \A p, h : SureBelow(p, h)' <=> SureBelow(p, h)
        /\ \A s, x, y : Leads(s, x, y)' <=> Leads(s, x, y)
    BY <2>1, SamePlan, SamePerCall, SameUp, SameFollow
  <2>3. TypeOK'
    BY <2>1, <2>2 DEF PathInv, TypeOK
  <2>4. CrossedInv' /\ SureInv' /\ OutcomesInv'
    BY <2>1, <2>2 DEF PathInv, CrossedInv, SureInv, OutcomesInv
  <2>5. CallsInv'
    <3>1. \A h : (Open(h)' <=> Open(h)) /\ Made(h)' = Made(h)
      BY <2>1, <2>2 DEF Open, Made
    <3>. QED
      BY <2>1, <2>2, <3>1 DEF PathInv, CallsInv
  <2>6. CoupledInv'
    <3>1. Here' = Here /\ Start' = Start
      BY <2>1 DEF Here, Start, Fresh
    <3>. QED
      BY <2>1, <2>2, <3>1 DEF PathInv, CoupledInv, PathLive, Everything
  <2>. QED
    BY <2>3, <2>4, <2>5, <2>6 DEF PathInv
<1>. QED
  BY <1>1, <1>2

THEOREM PathInvariant == Spec => []PathInv
  BY InitInv, NextInv, PTL DEF Spec

\* A path all of which is passed is live.
LEMMA UpIsLive == ASSUME TypeOK, NEW p \in Passes, PathUp(p, 1) PROVE PathLive(alive[p])
<1>1. alive[p] \in [services : SUBSET Nodes, edges : SUBSET Hops]
  BY DEF TypeOK
<1>2. \A i \in Nodes \cup Hops : i >= 1
  BY Sizes DEF Nodes, Hops
<1>3. alive[p].services = Nodes /\ alive[p].edges = Hops
  BY <1>1, <1>2 DEF PathUp, ServiceUp, HopUp
<1>. QED
  BY <1>1, <1>3 DEF PathLive, Everything

LEMMA CoupledFromInv == PathInv => CoupledOutcome
<1> SUFFICES ASSUME PathInv, pc = "done" PROVE outcome[2] <=> outcome[1] /\ PathLive(alive[2])
  BY DEF CoupledOutcome
<1>0. outcome \in Seq(BOOLEAN) /\ Len(outcome) = 2
  BY DEF PathInv, TypeOK
<1>1. /\ 1 \in 1 .. Len(outcome) /\ 2 \in 1 .. Len(outcome)
      /\ outcome[1] \in BOOLEAN /\ outcome[2] \in BOOLEAN
  BY <1>0
<1>2. outcome[2] => PathLive(alive[2])
  BY <1>1, UpIsLive DEF PathInv, OutcomesInv, Passes
<1>3. PathLive(alive[2]) => outcome[2] = outcome[1]
  BY DEF PathInv, CoupledInv
<1>. QED
  BY <1>1, <1>2, <1>3

\* The variables keep their types.
THEOREM PathTyped == Spec => []TypeOK
<1>1. PathInv => TypeOK
  BY DEF PathInv
<1>. QED
  BY <1>1, PathInvariant, PTL

\* Of two executions over one stream the second returns what the first did if
\* nothing on the path is down, and fails otherwise, whatever it draws.
THEOREM OutcomesCoupled == Spec => []CoupledOutcome
  BY PathInvariant, CoupledFromInv, PTL

\* Nested retries call a service at most as often as the policies multiply to.
THEOREM CallsAreBounded == Spec => []CallsBounded
<1>1. PathInv => CallsBounded
  BY CallsFromInv DEF PathInv
<1>. QED
  BY <1>1, PathInvariant, PTL

-----------------------------------------------------------------------------
(* The static metrics of a path.                                           *)

Path(p) == analyzePathStatic(alive[p])

LEMMA PathParts ==
  /\ \A p : Path(p).services \in [Nodes -> Chance] /\ Len(Path(p).services) = N
  /\ \A p : DOMAIN Path(p).hops = Hops /\ Len(Path(p).hops) = N - 1
  /\ \A p : \A i \in Nodes : Path(p).services[i] =
       IF i \in alive[p].services THEN ChanceOf(plan.serviceRate[i]) ELSE Never
  /\ \A p : \A h \in Hops :
       /\ Path(p).hops[h].works = ChanceOf(plan.edgeRate[h])
       /\ Path(p).hops[h].dead <=> h \notin alive[p].edges
       /\ Path(p).hops[h].attempts = effectiveAttempts(h)
       /\ Path(p).hops[h].retry <=> plan.policy[h].maxAttempts > 0
       /\ Path(p).hops[h].timeout = TimeoutOf(h)
<1> SUFFICES ASSUME NEW p
    PROVE  /\ Path(p).services \in [Nodes -> Chance] /\ Len(Path(p).services) = N
           /\ DOMAIN Path(p).hops = Hops /\ Len(Path(p).hops) = N - 1
           /\ \A i \in Nodes : Path(p).services[i] =
                IF i \in alive[p].services THEN ChanceOf(plan.serviceRate[i]) ELSE Never
           /\ \A h \in Hops :
                /\ Path(p).hops[h].works = ChanceOf(plan.edgeRate[h])
                /\ Path(p).hops[h].dead <=> h \notin alive[p].edges
                /\ Path(p).hops[h].attempts = effectiveAttempts(h)
                /\ Path(p).hops[h].retry <=> plan.policy[h].maxAttempts > 0
                /\ Path(p).hops[h].timeout = TimeoutOf(h)
  OBVIOUS
<1> DEFINE S == [i \in Nodes |-> IF i \in alive[p].services THEN ChanceOf(plan.serviceRate[i]) ELSE Never]
           H == [h \in Hops |->
                  [works |-> ChanceOf(plan.edgeRate[h]), dead |-> h \notin alive[p].edges,
                   attempts |-> effectiveAttempts(h), retry |-> plan.policy[h].maxAttempts > 0,
                   timeout |-> TimeoutOf(h)]]
<1>1. Path(p).services = S /\ Path(p).hops = H
  BY DEF Path, analyzePathStatic
<1>2. S \in [Nodes -> Chance]
  BY DEF ChanceOf, Chance, Never, Sometimes, Always
<1>3. Len(S) = N /\ Len(H) = N - 1
  BY Sizes DEF Nodes, Hops
<1>4. \A h \in Hops :
        /\ H[h].works = ChanceOf(plan.edgeRate[h])
        /\ H[h].dead <=> h \notin alive[p].edges
        /\ H[h].attempts = effectiveAttempts(h)
        /\ H[h].retry <=> plan.policy[h].maxAttempts > 0
        /\ H[h].timeout = TimeoutOf(h)
  OBVIOUS
<1>5. DOMAIN H = Hops /\ \A i \in Nodes : S[i] = IF i \in alive[p].services THEN ChanceOf(plan.serviceRate[i]) ELSE Never
  OBVIOUS
<1> HIDE DEF S, H
<1>. QED
  BY <1>1, <1>2, <1>3, <1>4, <1>5

LEMMA ChanceOfRate ==
  ASSUME NEW rate \in 0 .. Draws
  PROVE  /\ ChanceOf(rate) \in Chance
         /\ ChanceOf(rate) = Always <=> rate = 0
         /\ ChanceOf(rate) = Never <=> ~(rate < Draws)
  BY Sizes DEF ChanceOf, Chance, Never, Sometimes, Always

LEMMA TimeoutOfHop ==
  ASSUME TypeOK, NEW h \in Hops
  PROVE  /\ TimeoutOf(h) = "mismatch" <=> TimeoutMismatch(h)
         /\ TimeoutOf(h) # "unknown" /\ TimeoutOf(h) # "mismatch" => ~TimeoutMismatch(h)
<1>1. plan.policy[h].perTryTimeout \in Nat /\ plan.policy[h].requestTimeout \in Nat
  BY Plans1 DEF Policy
<1>2. resolveTimeout(h) \in Nat
  BY <1>1 DEF resolveTimeout
<1>. QED
  BY <1>2 DEF TimeoutOf, TimeoutMismatch

\* The least of chances.
LEMMA MinChance ==
  ASSUME NEW S \in SUBSET Chance, S # {}
  PROVE  /\ Min(S) \in Chance
         /\ Min(S) = Never <=> Never \in S
         /\ Min(S) = Always <=> S \subseteq {Always}
<1>1. Chance \subseteq Nat /\ Chance = {0, 1, 2} /\ Never = 0 /\ Always = 2
  BY DEF Chance, Never, Sometimes, Always
<1>2. PICK x \in S : \A y \in S : x <= y
  BY <1>1, LeastNatural
<1>3. Min(S) \in S /\ \A y \in S : Min(S) <= y
  BY <1>2 DEF Min
<1>4. Min(S) \in {0, 1, 2} /\ \A y \in S : y \in {0, 1, 2} /\ Min(S) <= y
  BY <1>1, <1>3
<1>5. Min(S) = 0 <=> 0 \in S
  BY <1>3, <1>4
<1>6. Min(S) = 2 => \A y \in S : y = 2
  <2>1. \A m, y \in {0, 1, 2} : m = 2 /\ m <= y => y = 2
    OBVIOUS
  <2>. QED
    BY <1>4, <2>1
<1>7. (\A y \in S : y = 2) => Min(S) = 2
  BY <1>3
<1>. QED
  BY <1>1, <1>4, <1>5, <1>6, <1>7

\* The expected success of the path from a service on: it is never only if
\* something below cannot be passed, and always exactly if nothing can fail.
LEMMA StaticSuccess ==
  ASSUME TypeOK, NEW p \in Passes, NEW i \in Nodes
  PROVE  /\ staticPathSuccess(Path(p))[i] \in Chance
         /\ staticPathSuccess(Path(p))[i] = Never => ~PathUp(p, i)
         /\ staticPathSuccess(Path(p))[i] = Always <=> Sure(p, i)
<1> DEFINE path == Path(p)
           services == {path.services[j] : j \in i .. Len(path.services)}
           hops == {path.hops[h].works : h \in i .. Len(path.hops)}
           broken == \E h \in i .. Len(path.hops) : path.hops[h].dead \/ path.hops[h].timeout = "mismatch"
<1>1. staticPathSuccess(path)[i] = IF broken THEN Never ELSE Min(services \cup hops)
  BY PathParts DEF staticPathSuccess
<1>2. /\ Len(path.services) = N /\ Len(path.hops) = N - 1
      /\ \A j : j \in i .. N <=> j \in Nodes /\ j >= i
      /\ \A h : h \in i .. N - 1 <=> h \in Hops /\ h >= i
      /\ i \in i .. N
  BY PathParts, Sizes DEF Nodes, Hops
<1>3. broken <=> \E h \in Hops : h >= i /\ (h \notin alive[p].edges \/ TimeoutMismatch(h))
  <2>1. \A h \in Hops : /\ path.hops[h].dead <=> h \notin alive[p].edges
                        /\ path.hops[h].timeout = "mismatch" <=> TimeoutMismatch(h)
    BY PathParts, TimeoutOfHop
  <2> HIDE DEF path
  <2>. QED
    BY <1>2, <2>1
<1>4. /\ \A j \in Nodes : path.services[j] \in Chance
      /\ \A j \in Nodes : path.services[j] = Never <=> ~ServiceUp(p, j)
      /\ \A j \in Nodes : path.services[j] = Always <=> j \in alive[p].services /\ plan.serviceRate[j] = 0
  <2>1. ASSUME NEW j \in Nodes
        PROVE  /\ path.services[j] \in Chance
               /\ path.services[j] = Never <=> ~ServiceUp(p, j)
               /\ path.services[j] = Always <=> j \in alive[p].services /\ plan.serviceRate[j] = 0
    <3>1. plan.serviceRate[j] \in 0 .. Draws
      BY Plans1
    <3>2. path.services[j] = IF j \in alive[p].services THEN ChanceOf(plan.serviceRate[j]) ELSE Never
      BY PathParts
    <3>3. Never \in Chance /\ Never # Always
      BY DEF Never, Always, Chance
    <3>. QED
      BY <3>1, <3>2, <3>3, ChanceOfRate DEF ServiceUp
  <2>. QED
    BY <2>1
<1>5. ASSUME NEW h \in Hops
      PROVE  /\ path.hops[h].works \in Chance
             /\ path.hops[h].works = Never <=> ~(plan.edgeRate[h] < Draws)
             /\ path.hops[h].works = Always <=> plan.edgeRate[h] = 0
  BY PathParts, Plans1, ChanceOfRate
<1>6. services \subseteq Chance /\ hops \subseteq Chance /\ services # {}
  BY <1>2, <1>4, <1>5
<1>7. /\ Never \in services <=> \E j \in Nodes : j >= i /\ ~ServiceUp(p, j)
      /\ services \subseteq {Always} <=>
           \A j \in Nodes : j >= i => j \in alive[p].services /\ plan.serviceRate[j] = 0
  BY <1>2, <1>4
<1>8. /\ Never \in hops <=> \E h \in Hops : h >= i /\ ~(plan.edgeRate[h] < Draws)
      /\ hops \subseteq {Always} <=> \A h \in Hops : h >= i => plan.edgeRate[h] = 0
  BY <1>2, <1>5
<1> HIDE DEF services, hops, broken, path
<1>9. /\ Min(services \cup hops) \in Chance
      /\ Min(services \cup hops) = Never <=> Never \in services \cup hops
      /\ Min(services \cup hops) = Always <=> services \cup hops \subseteq {Always}
  BY <1>6, MinChance
<1>10. Never \in Chance /\ Never # Always
  BY DEF Never, Always, Chance
<1>11. CASE broken
  BY <1>1, <1>3, <1>10, <1>11 DEF PathUp, HopUp, Sure, path
<1>12. CASE ~broken
  <2>1. staticPathSuccess(path)[i] = Min(services \cup hops)
    BY <1>1, <1>12
  <2>2. Min(services \cup hops) = Never => ~PathUp(p, i)
    BY <1>7, <1>8, <1>9 DEF PathUp, HopUp
  <2>3. Min(services \cup hops) = Always <=> Sure(p, i)
    BY <1>3, <1>7, <1>8, <1>9, <1>12 DEF Sure
  <2>. QED
    BY <1>9, <2>1, <2>2, <2>3 DEF path
<1>. QED
  BY <1>11, <1>12

\* The number of timeout mismatches is 0 if there is none.
LEMMA StaticTimeouts ==
  ASSUME TypeOK, NEW p \in Passes, timeoutMismatchForPath(Path(p)).available
  PROVE  timeoutMismatchForPath(Path(p)).value = 0 <=> \A h \in Hops : ~TimeoutMismatch(h)
<1> DEFINE M == {h \in Hops : Path(p).hops[h].timeout = "mismatch"}
<1>1. timeoutMismatchForPath(Path(p)).value = Cardinality(M)
  BY PathParts DEF timeoutMismatchForPath
<1>2. M = {h \in Hops : TimeoutMismatch(h)}
  BY PathParts, TimeoutOfHop
<1>3. IsFiniteSet(M)
  <2>1. IsFiniteSet(Hops)
    BY FS_Interval, Sizes DEF Hops
  <2>2. M \subseteq Hops
    OBVIOUS
  <2> HIDE DEF M
  <2>. QED
    BY <2>1, <2>2, FS_Subset
<1>4. Cardinality(M) = 0 <=> M = {}
  <2> HIDE DEF M
  <2>. QED
    BY <1>3, FS_EmptySet
<1>. QED
  BY <1>1, <1>2, <1>4

LEMMA PredictsFromInv == PathInv => StaticPredictsExecution
<1> SUFFICES ASSUME PathInv, pc = "done", NEW p \in Passes
    PROVE  LET path == analyzePathStatic(alive[p])
               expected == staticPathSuccess(path)[1]
               timeouts == timeoutMismatchForPath(path)
               calm == /\ \A i \in Nodes : plan.serviceRate[i] = 0
                       /\ \A h \in Hops : plan.edgeRate[h] = 0
           IN /\ expected = Never => ~outcome[p]
              /\ expected = Always => outcome[p]
              /\ calm /\ timeouts.available => (outcome[p] <=> timeouts.value = 0 /\ PathLive(alive[p]))
  BY DEF StaticPredictsExecution
<1>1. TypeOK /\ Len(outcome) = 2 /\ p \in 1 .. Len(outcome) /\ 1 \in Nodes
  BY Sizes DEF PathInv, TypeOK, Passes, Nodes
<1>2. (outcome[p] => PathUp(p, 1)) /\ (Sure(p, 1) => outcome[p])
  BY <1>1 DEF PathInv, OutcomesInv
<1>3. /\ staticPathSuccess(Path(p))[1] = Never => ~PathUp(p, 1)
      /\ staticPathSuccess(Path(p))[1] = Always => Sure(p, 1)
  BY <1>1, StaticSuccess
<1>4. ASSUME \A i \in Nodes : plan.serviceRate[i] = 0, \A h \in Hops : plan.edgeRate[h] = 0,
             timeoutMismatchForPath(Path(p)).available
      PROVE  outcome[p] <=> timeoutMismatchForPath(Path(p)).value = 0 /\ PathLive(alive[p])
  <2>1. timeoutMismatchForPath(Path(p)).value = 0 <=> \A h \in Hops : ~TimeoutMismatch(h)
    BY <1>1, <1>4, StaticTimeouts
  <2>2. ASSUME outcome[p] PROVE PathLive(alive[p]) /\ \A h \in Hops : ~TimeoutMismatch(h)
    <3>1. \A h \in Hops : h >= 1
      BY Sizes DEF Hops
    <3>. QED
      BY <1>1, <1>2, <2>2, <3>1, UpIsLive DEF PathUp, HopUp
  <2>3. ASSUME PathLive(alive[p]), \A h \in Hops : ~TimeoutMismatch(h) PROVE outcome[p]
    BY <1>2, <1>4, <2>3 DEF Sure, PathLive, Everything
  <2>5. outcome \in Seq(BOOLEAN)
    BY <1>1 DEF TypeOK
  <2>4. outcome[p] \in BOOLEAN
    BY <1>1, <2>5
  <2>. QED
    BY <2>1, <2>2, <2>3, <2>4
<1>. QED
  BY <1>2, <1>3, <1>4 DEF Path

\* The recursive function of pathAmplification, counted from the last service.
LEMMA AmplificationUnfold ==
  ASSUME NEW path, NEW bound, DOMAIN path.services = Nodes, Len(path.services) = N
  PROVE  pathAmplification(path, bound) =
           [i \in Nodes |->
             IF i = N THEN 1
             ELSE IF ~path.hops[i].retry THEN 0
             ELSE retryExpectedAttempts(AttemptSuccess(path, i), path.hops[i].attempts, bound)
                    * pathAmplification(path, bound)[i + 1]]
<1> DEFINE R(i) == retryExpectedAttempts(AttemptSuccess(path, i), path.hops[i].attempts, bound)
           F(f, n) == [i \in N - n .. N |->
                        IF i = N THEN 1 ELSE IF ~path.hops[i].retry THEN 0 ELSE R(i) * f[i + 1]]
           T == {n \in Nat : \E f : f = F(f, n)}
<1>1. 0 \in T
  <2> DEFINE f == [i \in N - 0 .. N |-> 1]
  <2>1. \A i \in N - 0 .. N : i = N
    BY Sizes
  <2>2. f = F(f, 0)
    BY <2>1
  <2> HIDE DEF f
  <2>. QED
    BY <2>2
<1>2. ASSUME NEW n \in T PROVE n + 1 \in T
  <2>1. PICK f : f = F(f, n)
    OBVIOUS
  <2> DEFINE g == F(f, n + 1)
  <2>2. \A i \in N - n .. N : i \in N - (n + 1) .. N
    BY Sizes
  <2>3. \A i \in N - n .. N : g[i] = f[i]
    <3> HIDE DEF R
    <3>. QED
      BY <2>1, <2>2
  <2>4. \A i \in N - (n + 1) .. N : i # N => i + 1 \in N - n .. N
    BY Sizes
  <2>5. g = F(g, n + 1)
    <3> HIDE DEF R
    <3>. QED
      BY <2>3, <2>4
  <2> HIDE DEF g
  <2>. QED
    BY <2>5
<1>3. N - 1 \in T
  <2>1. T \in SUBSET Nat
    OBVIOUS
  <2> HIDE DEF T
  <2>. QED
    BY <1>1, <1>2, <2>1, SetInduction, Sizes
<1>4. \E f : f = F(f, N - 1)
  BY <1>3
<1>5. N - (N - 1) = 1
  BY Sizes
<1> DEFINE G(f) == [i \in Nodes |->
                     IF i = N THEN 1 ELSE IF ~path.hops[i].retry THEN 0 ELSE R(i) * f[i + 1]]
<1>6. \E f : f = G(f)
  BY <1>4, <1>5 DEF Nodes
<1>7. pathAmplification(path, bound) = CHOOSE f : f = G(f)
  BY DEF pathAmplification
<1>. QED
  BY <1>6, <1>7

\* Whatever is drawn, the most that the factor can be bounds the calls.
LEMMA MostBoundsCalls ==
  ASSUME PathInv, pc = "return", at = 1
  PROVE  LET factor == pathAmplification(analyzePathStatic(alive[pass]), "most")
         IN \A i \in Nodes : factor[i] > 0 => calls[N] <= calls[i] * factor[i]
<1> DEFINE path == Path(pass)
           factor == pathAmplification(path, "most")
           R(i) == retryExpectedAttempts(AttemptSuccess(path, i), path.hops[i].attempts, "most")
           Beyond == {i \in Nodes : ~(factor[i] \in Nat /\ (factor[i] > 0 => calls[N] <= calls[i] * factor[i]))}
<1>1. TypeOK /\ SureInv /\ CallsInv /\ pass \in Passes
  BY DEF PathInv, TypeOK
<1>2. \A i \in Nodes : factor[i] = IF i = N THEN 1 ELSE IF ~path.hops[i].retry THEN 0
                                    ELSE R(i) * factor[i + 1]
  <2>1. DOMAIN path.services = Nodes /\ Len(path.services) = N
    BY PathParts
  <2> HIDE DEF path
  <2>. QED
    BY <2>1, AmplificationUnfold
<1>3. ASSUME NEW i \in Hops PROVE R(i) \in Nat /\ PerCall(pass, i) <= R(i)
  <2>1. i \in Nodes /\ i + 1 \in Nodes
    BY Sizes DEF Hops, Nodes
  <2>2. /\ path.hops[i].works = ChanceOf(plan.edgeRate[i]) /\ path.hops[i].attempts = effectiveAttempts(i)
        /\ plan.edgeRate[i] \in 0 .. Draws
        /\ effectiveAttempts(i) \in Nat /\ 1 <= effectiveAttempts(i)
        /\ PerCall(pass, i) <= effectiveAttempts(i)
    BY <1>1, PathParts, Plans1, Attempts, PerCallType
  <2>3. ASSUME AttemptSuccess(path, i) = Always PROVE plan.edgeRate[i] = 0 /\ Sure(pass, i + 1)
    <3> DEFINE S == {path.hops[i].works, staticPathSuccess(path)[i + 1]}
    <3>1. S \in SUBSET Chance /\ S # {}
      BY <1>1, <2>1, <2>2, ChanceOfRate, StaticSuccess
    <3>2. Min(S) = Always
      BY <2>3 DEF AttemptSuccess
    <3>3. S \subseteq {Always}
      <4> HIDE DEF S
      <4>. QED
        BY <3>1, <3>2, MinChance
    <3>. QED
      BY <1>1, <2>1, <2>2, <3>3, ChanceOfRate, StaticSuccess
  <2>4. CASE AttemptSuccess(path, i) = Always
    <3>1. R(i) = 1
      BY <2>4 DEF retryExpectedAttempts
    <3>2. PerCall(pass, i) \in {0, 1}
      BY <2>3, <2>4 DEF PerCall, SureBelow
    <3>. QED
      BY <3>1, <3>2
  <2>5. CASE AttemptSuccess(path, i) # Always
    BY <2>2, <2>5 DEF retryExpectedAttempts
  <2>. QED
    BY <2>4, <2>5
<1> HIDE DEF R, factor, path
<1>4. SUFFICES ASSUME Beyond # {} PROVE FALSE
  BY DEF factor, path, Path
<1>5. Beyond \in SUBSET Nat /\ \A i \in Beyond : i <= N
  BY Sizes DEF Nodes
<1>6. PICK i \in Beyond : \A j \in Beyond : j <= i
  <2> HIDE DEF Beyond
  <2>. QED
    BY <1>4, <1>5, GreatestNatural, Sizes
<1>7. i \in Nodes /\ ~(factor[i] \in Nat /\ (factor[i] > 0 => calls[N] <= calls[i] * factor[i]))
  BY <1>6
<1>8. calls \in [Nodes -> Nat] /\ N \in Nodes
  BY <1>1, Sizes DEF TypeOK, Nodes
<1>9. i # N
  <2>1. SUFFICES ASSUME i = N PROVE FALSE
    OBVIOUS
  <2>2. factor[i] = 1 /\ calls[N] \in Nat /\ calls[i] = calls[N]
    BY <1>2, <1>7, <1>8, <2>1
  <2>. QED
    BY <1>7, <2>2
<1>10. i \in Hops /\ i + 1 \in Nodes /\ ~(i + 1 <= i)
  BY <1>7, <1>9, Sizes DEF Hops, Nodes
<1>11. factor[i + 1] \in Nat /\ (factor[i + 1] > 0 => calls[N] <= calls[i + 1] * factor[i + 1])
  BY <1>6, <1>10
<1>12. factor[i] = R(i) * factor[i + 1] /\ factor[i] > 0 /\ R(i) \in Nat
  <2>1. R(i) \in Nat /\ R(i) * factor[i + 1] \in Nat
    BY <1>3, <1>10, <1>11, Product
  <2>. QED
    BY <1>2, <1>7, <1>9, <2>1
<1>13. factor[i + 1] > 0
  BY <1>11, <1>12
<1>14. calls[i] \in Nat /\ calls[i + 1] \in Nat /\ calls[i + 1] <= calls[i] * PerCall(pass, i)
  BY <1>1, <1>10, CallsPerCall
<1>15. PerCall(pass, i) \in Nat /\ PerCall(pass, i) <= R(i)
  BY <1>1, <1>3, <1>10, PerCallType
<1>16. calls[i + 1] <= calls[i] * R(i) /\ calls[i] * R(i) \in Nat
  <2>1. calls[i] * PerCall(pass, i) <= calls[i] * R(i)
    BY <1>12, <1>14, <1>15, ProductGrows
  <2>2. calls[i] * PerCall(pass, i) \in Nat /\ calls[i] * R(i) \in Nat
    BY <1>12, <1>14, <1>15, Product
  <2>. QED
    BY <1>14, <2>1, <2>2
<1>17. calls[i + 1] * factor[i + 1] <= (calls[i] * R(i)) * factor[i + 1]
  BY <1>11, <1>14, <1>16, ProductGrows
<1>18. (calls[i] * R(i)) * factor[i + 1] = calls[i] * factor[i]
  BY <1>11, <1>12, <1>14
<1>19. calls[N] \in Nat /\ calls[i + 1] * factor[i + 1] \in Nat /\ (calls[i] * R(i)) * factor[i + 1] \in Nat
  BY <1>8, <1>11, <1>14, <1>16, Product
<1>20. calls[N] <= calls[i] * factor[i]
  BY <1>11, <1>13, <1>17, <1>18, <1>19
<1>21. factor[i] \in Nat
  BY <1>11, <1>12, Product
<1>. QED
  BY <1>7, <1>20, <1>21

LEMMA AmplifiedFromInv == PathInv => AmplificationBoundsCalls
  BY MostBoundsCalls DEF AmplificationBoundsCalls

\* What the static metrics call impossible, certain or broken is so in every
\* execution.
THEOREM StaticsPredict == Spec => []StaticPredictsExecution
  BY PathInvariant, PredictsFromInv, PTL

\* The amplification factor, where it is exact, bounds the calls of the last
\* service.
THEOREM AmplificationBounds == Spec => []AmplificationBoundsCalls
  BY PathInvariant, AmplifiedFromInv, PTL
=============================================================================
