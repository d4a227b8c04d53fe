----------------------------- MODULE PathStatics -----------------------------
(***************************************************************************)
(* What Sheaft predicts of a path without executing it: success, retry     *)
(* amplification and timeout mismatches, analyzePathStatic of              *)
(* internal/simulation/advanced.go.                                        *)
(*                                                                         *)
(* Probabilities are abstracted to never, sometimes and always: a product  *)
(* is the least of its factors, and neither retries nor combined error     *)
(* rates move a probability from one class to another.  An amplification   *)
(* is an expectation: it lies between the least and the most that it can   *)
(* be for its classes, and is known exactly where the two are equal.       *)
(***************************************************************************)
EXTENDS Integers, Sequences, FiniteSetsExt

Never == 0
Sometimes == 1
Always == 2
Chance == {Never, Sometimes, Always}

\* A hop works when it does not err.  A dead hop is the hardEdgeKill of a fault
\* profile, a dead service one that never works.
Hop == [works : Chance, dead : BOOLEAN, attempts : Nat \ {0}, retry : BOOLEAN,
        timeout : {"unknown", "fits", "mismatch"}]
Static == [services : Seq(Chance), hops : Seq(Hop)]

\* Per service, the chance that a call of it succeeds.
staticPathSuccess(path) ==
  [i \in DOMAIN path.services |->
    IF \E h \in i .. Len(path.hops) : path.hops[h].dead \/ path.hops[h].timeout = "mismatch" THEN Never
    ELSE Min({path.services[j] : j \in i .. Len(path.services)}
               \cup {path.hops[h].works : h \in i .. Len(path.hops)})]

Bounds == {"least", "most"}

\* The next attempt is made if all before it failed: the expected number of
\* attempts is 1 if they never fail, all if they always do, else in between.
retryExpectedAttempts(success, attempts, bound) ==
  IF success = Always \/ (success = Sometimes /\ bound = "least") THEN 1 ELSE attempts

\* Mutant: what is below is taken to succeed.
EdgeSuccess(path, h) == path.hops[h].works

\* A hop's attempts do not depend on its own timeout here.
AttemptSuccess(path, h) == Min({path.hops[h].works, staticPathSuccess(path)[h + 1]})

\* Expected calls of the last service per call of service i; 0 if a hop below
\* has no retry metadata.
pathAmplification(path, bound) ==
  LET calls[i \in DOMAIN path.services] ==
        IF i = Len(path.services) THEN 1
        ELSE IF ~path.hops[i].retry THEN 0
        ELSE retryExpectedAttempts(AttemptSuccess(path, i), path.hops[i].attempts, bound) * calls[i + 1]
  IN calls

\* Available only if every hop has a timeout and latencies to compare it with.
timeoutMismatchForPath(path) ==
  LET hops == DOMAIN path.hops
  IN IF \E h \in hops : path.hops[h].timeout = "unknown" THEN [available |-> FALSE, value |-> 0]
     ELSE [available |-> TRUE, value |-> Cardinality({h \in hops : path.hops[h].timeout = "mismatch"})]
=============================================================================
