---------------------------- MODULE TrialSampling ----------------------------
(***************************************************************************)
(* What is up and what is down in one trial: sampleAdvancedState of        *)
(* internal/simulation/advanced.go, for one profile or for the points of a *)
(* sweep, whose generators start from the same seed (sweepPointProfile).   *)
(*                                                                         *)
(* Draws of the generator are a stream of levels that is fixed but unknown *)
(* until it is read.  A level is live if it is below the live probability, *)
(* which is on the same scale.  rng.Perm reads as many draws as it orders  *)
(* and is only ever the first call of a trial: its result is one unknown   *)
(* permutation of the trial.                                               *)
(***************************************************************************)
EXTENDS Integers, Sequences, FiniteSets, Functions

CONSTANTS
  Buckets,   \* the placements in order: a sequence of [service, replicas],
             \* services numbered in the order of serviceIDs
  Edges,     \* number of edges
  Eligible,  \* services that may be sampled as failed
  Draws,     \* rng.Float64 takes the levels 0 .. Draws - 1
  Scenarios  \* what is sampled: see Scenario

BucketIDs == 1 .. Len(Buckets)
EdgeIDs   == 1 .. Edges
Services  == {Buckets[b].service : b \in BucketIDs}
Levels    == 0 .. Draws - 1
Modes     == {"independent_replica", "independent_service", "fixed_k_service_set",
              "fixed_k_replica_slots"}

\* A sampling mode, live probabilities of edges, what the fault profile kills
\* and the stress of every point: the number of failures of the fixed-k modes
\* and the failure probability.
Scenario == [mode : Modes, edgeLive : [EdgeIDs -> 0 .. Draws], bucketKill : SUBSET BucketIDs,
             edgeKill : SUBSET EdgeIDs, points : Seq([fixedK : Nat, failure : 0 .. Draws])]

ASSUME SamplingAssumption ==
  /\ Buckets \in Seq([service : Nat, replicas : Nat \ {0}])
  /\ Edges \in Nat /\ Draws \in Nat \ {0}
  /\ Eligible \subseteq Services
  /\ Scenarios \subseteq Scenario

\* A profile is one point.  The points of a sweep ascend (validateSweep), in the
\* failure probability or in the failed slots, which have no probability then.
ASSUME SweepAssumption ==
  \A s \in Scenarios :
    /\ s.points # << >>
    /\ \A p, q \in DOMAIN s.points : p < q =>
         /\ s.points[p].fixedK <= s.points[q].fixedK
         /\ s.points[p].failure <= s.points[q].failure
         /\ s.mode = "fixed_k_replica_slots" =>
              s.points[p].failure = 0 /\ s.points[q].failure = 0

VARIABLES
  scenario,
  point,        \* the point being sampled
  pc,           \* "start", "services", "kills", "edges", "done" or "error"
  cursor,       \* replica slot, service or edge that draws next
  stream, pos,  \* draws read so far, by position, and the next position
  perm,         \* what rng.Perm returns, << >> until it was called
  bucketAlive, edgeAlive,
  samples       \* [services, edges] that are live, per finished point

vars == <<scenario, point, pc, cursor, stream, pos, perm, bucketAlive, edgeAlive, samples>>

-----------------------------------------------------------------------------
Mode   == scenario.mode
Stress == scenario.points[point]

\* advancedReplicaSlotBucketIDs: the bucket of every replica of eligible services.
EligibleBuckets == {b \in BucketIDs : Buckets[b].service \in Eligible}
Replicas  == [b \in BucketIDs |-> Buckets[b].replicas]
Before(b) == SumFunctionOnSet(Replicas, {c \in EligibleBuckets : c < b})
Slots     == 1 .. Before(Len(Buckets) + 1)
SlotBucket == [s \in Slots |-> CHOOSE b \in EligibleBuckets :
                                 s \in Before(b) + 1 .. Before(b) + Buckets[b].replicas]

\* What fixed-k fails: services are numbered in the order of serviceIDs.
Candidates == IF Mode = "fixed_k_service_set" THEN 1 .. Cardinality(Eligible) ELSE Slots
Candidate(i) == CHOOSE s \in Eligible : Cardinality({t \in Eligible : t <= s}) = i

liveProbability == Draws - Stress.failure

\* resolveDerivedFixedKProfile: without a count, a share of the slots, rounded up.
FixedK ==
  IF Mode = "fixed_k_replica_slots" /\ Stress.fixedK = 0
  THEN (Stress.failure * Cardinality(Slots) + Draws - 1) \div Draws
  ELSE Stress.fixedK

-----------------------------------------------------------------------------
\* rng.Float64() is below the probability, or not.
Draw(u) ==
  /\ pos \in DOMAIN stream => u = stream[pos]
  /\ stream' = [p \in DOMAIN stream \cup {pos} |-> IF p = pos THEN u ELSE stream[p]]
  /\ pos' = pos + 1

random == <<stream, pos>>
static == <<scenario, point, perm, samples>>

Init ==
  /\ scenario \in Scenarios
  /\ point = 1 /\ pc = "start" /\ cursor = 1
  /\ stream = << >> /\ pos = 1 /\ perm = << >>
  /\ bucketAlive = {} /\ edgeAlive = {} /\ samples = << >>

\* Services that cannot be sampled are up in every mode.
Start ==
  /\ pc = "start"
  /\ pc' = "services" /\ cursor' = 1
  /\ bucketAlive' = BucketIDs \ EligibleBuckets /\ edgeAlive' = {}
  /\ UNCHANGED <<static, random>>

\* Mutant: replicas of a bucket that is live already are not drawn.
SampleReplicaShortCircuit ==
  /\ pc = "services" /\ Mode = "independent_replica" /\ cursor \in Slots
  /\ \/ SlotBucket[cursor] \in bucketAlive /\ UNCHANGED <<random, bucketAlive>>
     \/ /\ SlotBucket[cursor] \notin bucketAlive
        /\ \E u \in Levels :
             /\ Draw(u)
             /\ bucketAlive' = bucketAlive \cup {b \in {SlotBucket[cursor]} : u < liveProbability}
  /\ cursor' = cursor + 1
  /\ UNCHANGED <<static, pc, edgeAlive>>

\* independent_replica: every replica draws, whether the bucket is live or not.
SampleReplica ==
  /\ pc = "services" /\ Mode = "independent_replica" /\ cursor \in Slots
  /\ \E u \in Levels :
       /\ Draw(u)
       /\ bucketAlive' = bucketAlive \cup {b \in {SlotBucket[cursor]} : u < liveProbability}
  /\ cursor' = cursor + 1
  /\ UNCHANGED <<static, pc, edgeAlive>>

\* independent_service: one draw decides all buckets of a service.
SampleService ==
  /\ pc = "services" /\ Mode = "independent_service" /\ cursor \in 1 .. Cardinality(Eligible)
  /\ \E u \in Levels :
       /\ Draw(u)
       /\ bucketAlive' = bucketAlive \cup
            {b \in BucketIDs : Buckets[b].service = Candidate(cursor) /\ u < liveProbability}
  /\ cursor' = cursor + 1
  /\ UNCHANGED <<static, pc, edgeAlive>>

Sampled ==
  /\ pc = "services"
  /\ \/ Mode = "independent_replica" /\ cursor \notin Slots
     \/ Mode = "independent_service" /\ cursor \notin 1 .. Cardinality(Eligible)
  /\ pc' = "kills"
  /\ UNCHANGED <<static, random, cursor, bucketAlive, edgeAlive>>

\* Mutant: a bucket is lost with its first replica.
SurvivorsOfAll(failed) == {b \in BucketIDs : {s \in failed : SlotBucket[s] = b} = {}}

\* The buckets that stay up if the candidates of a prefix of the permutation fail.
Survivors(failed) ==
  IF Mode = "fixed_k_service_set"
  THEN {b \in BucketIDs : Buckets[b].service \notin {Candidate(i) : i \in failed}}
  ELSE {b \in BucketIDs : Cardinality({s \in failed : SlotBucket[s] = b}) < Buckets[b].replicas}

\* Nothing is drawn if nothing fails.
FailNothing ==
  /\ pc = "services" /\ Mode \in {"fixed_k_service_set", "fixed_k_replica_slots"} /\ FixedK = 0
  /\ pc' = "kills" /\ bucketAlive' = Survivors({})
  /\ UNCHANGED <<static, random, cursor, edgeAlive>>

FailFixedK ==
  /\ pc = "services" /\ Mode \in {"fixed_k_service_set", "fixed_k_replica_slots"}
  /\ FixedK \in 1 .. Cardinality(Candidates)
  /\ \E order \in Bijection(Candidates, Candidates) :
       /\ perm # << >> => order = perm
       /\ perm' = order
       /\ bucketAlive' = Survivors({order[i] : i \in 1 .. FixedK})
  /\ pos' = pos + Cardinality(Candidates)
  /\ pc' = "kills"
  /\ UNCHANGED <<scenario, point, samples, stream, cursor, edgeAlive>>

\* The whole analysis fails.
TooManyFailures ==
  /\ pc = "services" /\ Mode \in {"fixed_k_service_set", "fixed_k_replica_slots"}
  /\ FixedK > Cardinality(Candidates)
  /\ pc' = "error"
  /\ UNCHANGED <<static, random, cursor, bucketAlive, edgeAlive>>

Kill ==
  /\ pc = "kills"
  /\ pc' = "edges" /\ cursor' = 1
  /\ bucketAlive' = bucketAlive \ scenario.bucketKill
  /\ UNCHANGED <<static, random, edgeAlive>>

\* !dead && rng.Float64() < edgeLiveProbability: a killed edge does not draw.
SampleEdge ==
  /\ pc = "edges" /\ cursor \in EdgeIDs
  /\ \/ cursor \in scenario.edgeKill /\ UNCHANGED <<random, edgeAlive>>
     \/ /\ cursor \notin scenario.edgeKill
        /\ \E u \in Levels :
             /\ Draw(u)
             /\ edgeAlive' = edgeAlive \cup {e \in {cursor} : u < scenario.edgeLive[e]}
  /\ cursor' = cursor + 1
  /\ UNCHANGED <<static, pc, bucketAlive>>

LiveServices == {Buckets[b].service : b \in bucketAlive}

\* derivedEventSeed(seed, trial, "state") is the same for all points.
FreshGenerator == 1

PointEnds ==
  /\ pc = "edges" /\ cursor \notin EdgeIDs
  /\ samples' = Append(samples, [services |-> LiveServices, edges |-> edgeAlive])
  /\ IF point < Len(scenario.points)
     THEN point' = point + 1 /\ pc' = "start" /\ pos' = FreshGenerator
     ELSE pc' = "done" /\ UNCHANGED <<point, pos>>
  /\ UNCHANGED <<scenario, stream, perm, cursor, bucketAlive, edgeAlive>>

Next ==
  \/ Start \/ SampleReplica \/ SampleService \/ Sampled
  \/ FailNothing \/ FailFixedK \/ TooManyFailures
  \/ Kill \/ SampleEdge \/ PointEnds

Spec == Init /\ [][Next]_vars

-----------------------------------------------------------------------------
(* Properties.                                                             *)

\* The points of a sweep are coupled: a service that is up at one point was up
\* at every point of less stress, and points that fail anything see the same
\* edges, so that only the stress separates them.  They have to read the same
\* draws for the same replicas, fail prefixes of the same permutation, and draw
\* equally much before their edges.
PointsCoupled ==
  \A p, q \in DOMAIN samples :
    /\ p < q => samples[q].services \subseteq samples[p].services
    /\ Mode = "independent_replica" \/ (scenario.points[p].fixedK > 0 /\ scenario.points[q].fixedK > 0)
         => samples[p].edges = samples[q].edges

\* Exactly k fail.  fixed_k_replica_slots takes down a bucket only if
\* all of its slots are among the k, and all eligible buckets if k is all slots;
\* fixed_k_service_set takes down exactly k of the eligible services.
\* Nothing else goes down before the fault profile kills it.
ExactFailures ==
  pc = "kills" =>
    LET down == BucketIDs \ bucketAlive
        slotsDown == SumFunctionOnSet(Replicas, down)
        spare == [b \in BucketIDs |-> Buckets[b].replicas - 1]
    IN /\ down \subseteq EligibleBuckets
       /\ Mode = "fixed_k_service_set" =>
            Cardinality({Buckets[b].service : b \in down}) = FixedK
       /\ Mode = "fixed_k_replica_slots" =>
            /\ slotsDown <= FixedK
            \* a bucket that is up keeps at least one slot
            /\ FixedK - slotsDown <= SumFunctionOnSet(spare, EligibleBuckets \ down)
=============================================================================
