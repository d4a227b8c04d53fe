------------------------- MODULE TrialSamplingProofs -------------------------
(***************************************************************************)
(* That the points of a sweep are coupled, for all placements, eligible    *)
(* services, scenarios and sweeps.                                         *)
(*                                                                         *)
(* What a point samples is a function of the scenario, of the draws and of *)
(* the permutation: AliveOf and EdgesOf.  The invariant says that every    *)
(* finished point has these values, that they depend on draws only that    *)
(* were read, and so are not changed by what is read later, and where in   *)
(* the stream the running point is.  The coupling is then a fact about     *)
(* the two functions.                                                      *)
(***************************************************************************)
EXTENDS TrialSampling, Induction

-----------------------------------------------------------------------------
(* The replica slots.                                                      *)

LEMMA Data ==
  /\ Len(Buckets) \in Nat /\ BucketIDs = 1 .. Len(Buckets)
  /\ \A b \in BucketIDs : Buckets[b].service \in Nat /\ Buckets[b].replicas \in Nat \ {0}
  /\ Edges \in Nat /\ EdgeIDs = 1 .. Edges
  /\ Draws \in Nat \ {0}
  /\ EligibleBuckets \subseteq BucketIDs
<1> DEFINE Bucket == [service : Nat, replicas : Nat \ {0}]
<1>1. Buckets \in Seq(Bucket)
  BY SamplingAssumption
<1>2. Len(Buckets) \in Nat /\ \A b \in 1 .. Len(Buckets) : Buckets[b] \in Bucket
  <2> HIDE DEF Bucket
  <2>. QED
    BY <1>1
<1>3. \A b \in BucketIDs : Buckets[b].service \in Nat /\ Buckets[b].replicas \in Nat \ {0}
  BY <1>2 DEF BucketIDs
<1>4. Edges \in Nat /\ Draws \in Nat \ {0}
  BY SamplingAssumption
<1>5. EligibleBuckets \subseteq BucketIDs
  BY DEF EligibleBuckets
<1>. QED
  BY <1>2, <1>3, <1>4, <1>5 DEF BucketIDs, EdgeIDs

LEMMA ReplicasSummable ==
  /\ Summable(Replicas, BucketIDs)
  /\ \A T \in SUBSET BucketIDs : Summable(Replicas, T) /\ IsFiniteSet(T)
  /\ \A b \in BucketIDs : Replicas[b] \in Nat \ {0}
<1>1. IsFiniteSet(BucketIDs)
  BY Data, FS_Interval
<1>2. \A T \in SUBSET BucketIDs : IsFiniteSet(T)
  BY <1>1, FS_Subset
<1>3. \A b \in BucketIDs : Replicas[b] \in Nat \ {0}
  BY Data DEF Replicas
<1>. QED
  BY <1>1, <1>2, <1>3 DEF Summable

\* The slots of a bucket follow those of the buckets before it.
LEMMA BeforeStep ==
  /\ Before(1) = 0
  /\ \A b \in BucketIDs :
       /\ Before(b) \in Nat /\ Before(b + 1) \in Nat
       /\ b \in EligibleBuckets => Before(b + 1) = Before(b) + Buckets[b].replicas
       /\ b \notin EligibleBuckets => Before(b + 1) = Before(b)
<1> DEFINE E(b) == {c \in EligibleBuckets : c < b}
<1>1. /\ SumFunctionOnSet(Replicas, {}) = 0
      /\ \A T \in SUBSET BucketIDs :
           /\ SumFunctionOnSet(Replicas, T) \in Int
           /\ \A x \in T : SumFunctionOnSet(Replicas, T)
                             = Replicas[x] + SumFunctionOnSet(Replicas, T \ {x})
  BY ReplicasSummable, SumStep
<1>2. \A b : E(b) \in SUBSET BucketIDs
  BY Data
<1>3. E(1) = {}
  <2>1. \A c \in EligibleBuckets : c \in Int /\ 1 <= c
    BY Data
  <2>. QED
    BY <2>1
<1>4. Before(1) = 0
  BY <1>1, <1>3 DEF Before
<1>5. ASSUME NEW b \in BucketIDs
      PROVE  /\ b \in EligibleBuckets => Before(b + 1) = Before(b) + Buckets[b].replicas
             /\ b \notin EligibleBuckets => Before(b + 1) = Before(b)
  <2>1. CASE b \in EligibleBuckets
    <3>1. b \in E(b + 1) /\ E(b + 1) \ {b} = E(b)
      <4>1. \A c \in EligibleBuckets : c \in Int /\ b \in Int
        BY Data
      <4>2. \A c \in EligibleBuckets : (c < b + 1 /\ c # b) <=> c < b
        BY <4>1
      <4>3. b < b + 1
        BY <4>1, <2>1
      <4>. QED
        BY <2>1, <4>2, <4>3
    <3>2. Replicas[b] = Buckets[b].replicas /\ Buckets[b].replicas \in Int
      BY Data DEF Replicas
    <3> HIDE DEF E
    <3>3. SumFunctionOnSet(Replicas, E(b + 1)) = Replicas[b] + SumFunctionOnSet(Replicas, E(b))
      BY <1>1, <1>2, <3>1
    <3>4. SumFunctionOnSet(Replicas, E(b)) \in Int
      BY <1>1, <1>2
    <3>5. Before(b + 1) = SumFunctionOnSet(Replicas, E(b + 1)) /\ Before(b) = SumFunctionOnSet(Replicas, E(b))
      BY DEF Before, E
    <3>. QED
      BY <2>1, <3>2, <3>3, <3>4, <3>5
  <2>2. CASE b \notin EligibleBuckets
    <3>1. E(b + 1) = E(b)
      BY <2>2, Data
    <3>. QED
      BY <2>2, <3>1 DEF Before
  <2>. QED
    BY <2>1, <2>2
<1>6. \A b \in 1 .. Len(Buckets) + 1 : Before(b) \in Nat
  <2> DEFINE T == {n \in Nat : n <= Len(Buckets) => Before(n + 1) \in Nat}
  <2>1. 0 \in T
    BY <1>4
  <2>2. ASSUME NEW n \in T PROVE n + 1 \in T
    <3>1. CASE n + 1 <= Len(Buckets)
      <4>1. n + 1 \in BucketIDs /\ Before(n + 1) \in Nat
        BY <3>1, Data
      <4>2. Before((n + 1) + 1) \in Nat
        BY <4>1, <1>5, Data
      <4>. QED
        BY <4>2
    <3>2. CASE ~(n + 1 <= Len(Buckets))
      BY <3>2
    <3>. QED
      BY <3>1, <3>2
  <2>3. T = Nat
    <3>1. T \in SUBSET Nat
      OBVIOUS
    <3> HIDE DEF T
    <3>. QED
      BY <2>1, <2>2, <3>1, SetInduction
  <2>4. ASSUME NEW b \in 1 .. Len(Buckets) + 1 PROVE Before(b) \in Nat
    <3>1. b - 1 \in Nat /\ b - 1 <= Len(Buckets) /\ (b - 1) + 1 = b
      BY Data
    <3>2. b - 1 \in T
      BY <2>3, <3>1
    <3>. QED
      BY <3>1, <3>2
  <2>. QED
    BY <2>4
<1>7. \A b \in BucketIDs : Before(b) \in Nat /\ Before(b + 1) \in Nat
  BY <1>6, Data
<1>. QED
  BY <1>4, <1>5, <1>7

\* Every slot is one of an eligible bucket's.
LEMMA SlotBuckets ==
  /\ Before(Len(Buckets) + 1) \in Nat
  /\ Slots = 1 .. Before(Len(Buckets) + 1)
  /\ IsFiniteSet(Slots) /\ Cardinality(Slots) \in Nat
  /\ \A s \in Slots :
       /\ SlotBucket[s] \in EligibleBuckets
       /\ s \in Before(SlotBucket[s]) + 1 .. Before(SlotBucket[s]) + Buckets[SlotBucket[s]].replicas
<1> DEFINE Has(s, b) == s \in Before(b) + 1 .. Before(b) + Buckets[b].replicas
           T == {n \in Nat : n <= Len(Buckets) =>
                   /\ Before(n + 1) \in Nat
                   /\ \A s \in 1 .. Before(n + 1) : \E b \in EligibleBuckets : Has(s, b)}
<1>1. 0 \in T
  BY BeforeStep
<1>2. ASSUME NEW n \in T PROVE n + 1 \in T
  <2>1. CASE n + 1 <= Len(Buckets)
    <3>1. n + 1 \in BucketIDs /\ Before(n + 1) \in Nat /\ Before((n + 1) + 1) \in Nat
      BY <2>1, Data, BeforeStep
    <3>2. \A s \in 1 .. Before(n + 1) : \E b \in EligibleBuckets : Has(s, b)
      BY <2>1, Data
    <3>3. ASSUME NEW s \in 1 .. Before((n + 1) + 1) PROVE \E b \in EligibleBuckets : Has(s, b)
      <4>1. CASE s \in 1 .. Before(n + 1)
        BY <3>2, <4>1
      <4>2. CASE s \notin 1 .. Before(n + 1)
        <5>1. n + 1 \in EligibleBuckets
          BY <3>1, <4>2, BeforeStep
        <5>2. Before((n + 1) + 1) = Before(n + 1) + Buckets[n + 1].replicas
          BY <3>1, <5>1, BeforeStep
        <5>3. Buckets[n + 1].replicas \in Nat
          BY <3>1, Data
        <5>4. Has(s, n + 1)
          BY <3>1, <4>2, <5>2, <5>3
        <5>. QED
          BY <5>1, <5>4
      <4>. QED
        BY <4>1, <4>2
    <3>. QED
      BY <3>1, <3>3
  <2>2. CASE ~(n + 1 <= Len(Buckets))
    BY <2>2
  <2>. QED
    BY <2>1, <2>2
<1>3. T = Nat
  <2>1. T \in SUBSET Nat
    OBVIOUS
  <2> HIDE DEF T
  <2>. QED
    BY <1>1, <1>2, <2>1, SetInduction
<1>4. /\ Before(Len(Buckets) + 1) \in Nat
      /\ \A s \in 1 .. Before(Len(Buckets) + 1) : \E b \in EligibleBuckets : Has(s, b)
  <2>1. Len(Buckets) \in Nat /\ Len(Buckets) <= Len(Buckets)
    BY Data
  <2>2. Len(Buckets) \in T
    BY <1>3, <2>1
  <2>. QED
    BY <2>1, <2>2
<1>5. IsFiniteSet(Slots) /\ Cardinality(Slots) \in Nat
  BY <1>4, FS_Interval, FS_CardinalityType DEF Slots
<1>6. ASSUME NEW s \in Slots PROVE SlotBucket[s] \in EligibleBuckets /\ Has(s, SlotBucket[s])
  <2>1. SlotBucket[s] = CHOOSE b \in EligibleBuckets : Has(s, b)
    BY DEF SlotBucket
  <2>2. \E b \in EligibleBuckets : Has(s, b)
    BY <1>4 DEF Slots
  <2> HIDE DEF Has
  <2>. QED
    BY <2>1, <2>2
<1>. QED
  BY <1>4, <1>5, <1>6 DEF Slots

-----------------------------------------------------------------------------
(* What a point samples, as a function of scenario, stream and permutation. *)

FixedKModes == {"fixed_k_service_set", "fixed_k_replica_slots"}

LiveOf(sc, p) == Draws - sc.points[p].failure

FixedKOf(sc, p) ==
  IF sc.mode = "fixed_k_replica_slots" /\ sc.points[p].fixedK = 0
  THEN (sc.points[p].failure * Cardinality(Slots) + Draws - 1) \div Draws
  ELSE sc.points[p].fixedK

CandidatesOf(sc) ==
  IF sc.mode = "fixed_k_service_set" THEN 1 .. Cardinality(Eligible) ELSE Slots

\* What the slots or services below n leave alive.
ReplicasUp(sc, str, p, n) ==
  (BucketIDs \ EligibleBuckets) \cup
    {b \in EligibleBuckets : \E s \in Slots : s < n /\ SlotBucket[s] = b /\ str[s] < LiveOf(sc, p)}

ServicesUp(sc, str, p, n) ==
  (BucketIDs \ EligibleBuckets) \cup
    {b \in BucketIDs : \E i \in 1 .. Cardinality(Eligible) :
       i < n /\ Buckets[b].service = Candidate(i) /\ str[i] < LiveOf(sc, p)}

SurvivorsOf(sc, failed) ==
  IF sc.mode = "fixed_k_service_set"
  THEN {b \in BucketIDs : Buckets[b].service \notin {Candidate(i) : i \in failed}}
  ELSE {b \in BucketIDs : Cardinality({s \in failed : SlotBucket[s] = b}) < Buckets[b].replicas}

FailedOf(sc, prm, p) == {prm[i] : i \in 1 .. FixedKOf(sc, p)}

\* The buckets that are alive before the fault profile kills some.
AliveOf(sc, str, prm, p) ==
  IF sc.mode = "independent_replica" THEN ReplicasUp(sc, str, p, Before(Len(Buckets) + 1) + 1)
  ELSE IF sc.mode = "independent_service" THEN ServicesUp(sc, str, p, Cardinality(Eligible) + 1)
  ELSE SurvivorsOf(sc, FailedOf(sc, prm, p))

\* What AliveOf depends on was drawn.
AliveRead(sc, str, prm, p) ==
  /\ sc.mode = "independent_replica" => Slots \subseteq DOMAIN str
  /\ sc.mode = "independent_service" => 1 .. Cardinality(Eligible) \subseteq DOMAIN str
  /\ sc.mode \in FixedKModes =>
       \/ FixedKOf(sc, p) = 0
       \/ /\ FixedKOf(sc, p) \in 1 .. Cardinality(CandidatesOf(sc))
          /\ prm \in Bijection(CandidatesOf(sc), CandidatesOf(sc)) /\ prm # << >>

\* Where the draws of the edges begin.
EdgeStart(sc, p) ==
  IF sc.mode = "independent_replica" THEN Before(Len(Buckets) + 1) + 1
  ELSE IF sc.mode = "independent_service" THEN Cardinality(Eligible) + 1
  ELSE IF FixedKOf(sc, p) = 0 THEN 1 ELSE Cardinality(CandidatesOf(sc)) + 1

\* Killed edges do not draw.
EdgePos(sc, p, e) == EdgeStart(sc, p) + Cardinality((1 .. e - 1) \ sc.edgeKill)

EdgesOf(sc, str, p, n) ==
  {e \in 1 .. n - 1 : e \notin sc.edgeKill /\ str[EdgePos(sc, p, e)] < sc.edgeLive[e]}

EdgesRead(sc, str, p, n) ==
  \A e \in 1 .. n - 1 : e \notin sc.edgeKill => EdgePos(sc, p, e) \in DOMAIN str

ServicesOf(alive) == {Buckets[b].service : b \in alive}

SampleOf(sc, str, prm, p) ==
  [services |-> ServicesOf(AliveOf(sc, str, prm, p) \ sc.bucketKill),
   edges    |-> EdgesOf(sc, str, p, Edges + 1)]

SampleRead(sc, str, prm, p) ==
  AliveRead(sc, str, prm, p) /\ EdgesRead(sc, str, p, Edges + 1)

-----------------------------------------------------------------------------
(* The values of a scenario and of its points.                             *)

LEMMA Points ==
  ASSUME NEW sc \in Scenarios, NEW p \in DOMAIN sc.points
  PROVE  /\ sc.mode \in Modes
         /\ p \in Nat /\ 1 \in DOMAIN sc.points /\ Len(sc.points) \in Nat \ {0}
         /\ DOMAIN sc.points = 1 .. Len(sc.points)
         /\ sc.points[p].fixedK \in Nat /\ sc.points[p].failure \in 0 .. Draws
         /\ LiveOf(sc, p) \in Int
<1> DEFINE Point == [fixedK : Nat, failure : 0 .. Draws]
<1>1. sc \in Scenario
  BY SamplingAssumption
<1>2. sc.mode \in Modes /\ sc.points \in Seq(Point)
  BY <1>1 DEF Scenario
<1>3. sc.points # << >>
  BY SweepAssumption
<1>4. /\ Len(sc.points) \in Nat \ {0} /\ DOMAIN sc.points = 1 .. Len(sc.points)
      /\ sc.points[p] \in Point
  <2> HIDE DEF Point
  <2>. QED
    BY <1>2, <1>3
<1>5. sc.points[p].fixedK \in Nat /\ sc.points[p].failure \in 0 .. Draws
  BY <1>4
<1>6. LiveOf(sc, p) \in Int
  BY <1>5, Data DEF LiveOf
<1>. QED
  BY <1>2, <1>4, <1>5, <1>6

LEMMA EligibleFinite ==
  IsFiniteSet(Eligible) /\ Cardinality(Eligible) \in Nat
<1>1. IsFiniteSet(BucketIDs)
  BY Data, FS_Interval
<1> DEFINE f == [b \in BucketIDs |-> Buckets[b].service]
<1>2. IsFiniteSet(Services)
  <2>1. f \in Surjection(BucketIDs, Services)
    BY DEF Surjection, Services
  <2>. QED
    BY <1>1, <2>1, FS_Surjection
<1>3. Eligible \subseteq Services
  BY SamplingAssumption
<1>. QED
  BY <1>2, <1>3, FS_Subset, FS_CardinalityType

LEMMA CandidatesFinite ==
  ASSUME NEW sc
  PROVE  /\ IsFiniteSet(CandidatesOf(sc)) /\ Cardinality(CandidatesOf(sc)) \in Nat
         /\ CandidatesOf(sc) = 1 .. Cardinality(CandidatesOf(sc))
<1>1. CASE sc.mode = "fixed_k_service_set"
  <2>1. Cardinality(1 .. Cardinality(Eligible)) = Cardinality(Eligible)
    BY EligibleFinite, FS_Interval
  <2>. QED
    BY <1>1, <2>1, EligibleFinite, FS_Interval DEF CandidatesOf
<1>2. CASE sc.mode # "fixed_k_service_set"
  <2>1. Cardinality(Slots) = Before(Len(Buckets) + 1)
    BY SlotBuckets, FS_Interval
  <2>. QED
    BY <1>2, <2>1, SlotBuckets DEF CandidatesOf
<1>. QED
  BY <1>1, <1>2

\* Ceil of no failures at all is zero.
LEMMA NoFailureNoSlots ==
  ASSUME NEW n \in Nat
  PROVE  (0 * n + Draws - 1) \div Draws = 0
<1>1. Draws \in Nat /\ Draws > 0
  BY Data
<1>2. 0 * n + Draws - 1 = Draws - 1
  BY <1>1
<1>3. (Draws - 1) \div Draws = 0
  BY <1>1
<1>. QED
  BY <1>2, <1>3

\* The derived number of failures is a natural, too.
LEMMA FixedKNat ==
  ASSUME NEW sc \in Scenarios, NEW p \in DOMAIN sc.points
  PROVE  FixedKOf(sc, p) \in Nat
<1>1. CASE sc.mode = "fixed_k_replica_slots" /\ sc.points[p].fixedK = 0
  <2> DEFINE a == sc.points[p].failure * Cardinality(Slots)
  <2>1. a \in Nat
    BY Points, SlotBuckets
  <2>2. Draws \in Nat /\ Draws > 0
    BY Data
  <2> HIDE DEF a
  <2>3. a + Draws - 1 \in Nat
    BY <2>1, <2>2
  <2>4. \A m \in Nat : m \div Draws \in Nat
    BY <2>2
  <2>5. (a + Draws - 1) \div Draws \in Nat
    BY <2>3, <2>4
  <2>. QED
    BY <1>1, <2>5 DEF FixedKOf, a
<1>2. CASE ~(sc.mode = "fixed_k_replica_slots" /\ sc.points[p].fixedK = 0)
  BY <1>2, Points DEF FixedKOf
<1>. QED
  BY <1>1, <1>2

\* Later points of a sweep have more stress.
LEMMA Stressed ==
  ASSUME NEW sc \in Scenarios, NEW p \in DOMAIN sc.points, NEW q \in DOMAIN sc.points, p < q
  PROVE  LiveOf(sc, q) <= LiveOf(sc, p) /\ FixedKOf(sc, p) <= FixedKOf(sc, q)
<1>1. /\ sc.points[p].fixedK <= sc.points[q].fixedK
      /\ sc.points[p].failure <= sc.points[q].failure
      /\ sc.mode = "fixed_k_replica_slots" =>
           sc.points[p].failure = 0 /\ sc.points[q].failure = 0
  BY SweepAssumption
<1>2. /\ sc.points[p].fixedK \in Nat /\ sc.points[p].failure \in Nat
      /\ sc.points[q].fixedK \in Nat /\ sc.points[q].failure \in Nat
      /\ Draws \in Nat
  BY Points, Data
<1>3. LiveOf(sc, q) <= LiveOf(sc, p)
  BY <1>1, <1>2 DEF LiveOf
<1>4. ASSUME NEW r \in {p, q} PROVE FixedKOf(sc, r) = sc.points[r].fixedK
  <2>1. CASE sc.mode = "fixed_k_replica_slots" /\ sc.points[r].fixedK = 0
    <3>1. sc.points[r].failure = 0
      BY <1>1, <2>1
    <3>. QED
      BY <2>1, <3>1, NoFailureNoSlots, SlotBuckets DEF FixedKOf
  <2>2. CASE ~(sc.mode = "fixed_k_replica_slots" /\ sc.points[r].fixedK = 0)
    BY <2>2 DEF FixedKOf
  <2>. QED
    BY <2>1, <2>2
<1>5. FixedKOf(sc, p) = sc.points[p].fixedK /\ FixedKOf(sc, q) = sc.points[q].fixedK
  BY <1>4
<1>. QED
  BY <1>1, <1>3, <1>5

-----------------------------------------------------------------------------
(* The coupling, as a fact about the functions.                            *)

\* More failures leave less alive.
LEMMA SurvivorsShrink ==
  ASSUME NEW sc, NEW F \in SUBSET CandidatesOf(sc), NEW G \in SUBSET F
  PROVE  SurvivorsOf(sc, F) \subseteq SurvivorsOf(sc, G)
<1>1. CASE sc.mode = "fixed_k_service_set"
  BY <1>1 DEF SurvivorsOf
<1>2. CASE sc.mode # "fixed_k_service_set"
  <2>1. IsFiniteSet(F)
    BY CandidatesFinite, FS_Subset
  <2>2. ASSUME NEW b \in SurvivorsOf(sc, F) PROVE b \in SurvivorsOf(sc, G)
    <3> DEFINE InF == {s \in F : SlotBucket[s] = b}
               InG == {s \in G : SlotBucket[s] = b}
    <3>1. InF \subseteq F /\ InG \subseteq InF
      OBVIOUS
    <3>2. IsFiniteSet(InF)
      BY <2>1, <3>1, FS_Subset
    <3>3. Cardinality(InG) <= Cardinality(InF)
      BY <3>1, <3>2, FS_Subset
    <3>4. Cardinality(InG) \in Nat /\ Cardinality(InF) \in Nat
      BY <3>1, <3>2, FS_Subset, FS_CardinalityType
    <3>5. b \in BucketIDs /\ Cardinality(InF) < Buckets[b].replicas
      BY <1>2 DEF SurvivorsOf
    <3>6. Buckets[b].replicas \in Nat
      BY <3>5, Data
    <3>7. Cardinality(InG) < Buckets[b].replicas
      BY <3>3, <3>4, <3>5, <3>6
    <3>. QED
      BY <1>2, <3>5, <3>7 DEF SurvivorsOf
  <2>. QED
    BY <2>2
<1>. QED
  BY <1>1, <1>2

LEMMA AliveShrinks ==
  ASSUME NEW sc \in Scenarios, NEW p \in DOMAIN sc.points, NEW q \in DOMAIN sc.points, p < q,
         NEW str, \A x \in DOMAIN str : str[x] \in Levels, NEW prm,
         AliveRead(sc, str, prm, p), AliveRead(sc, str, prm, q)
  PROVE  AliveOf(sc, str, prm, q) \subseteq AliveOf(sc, str, prm, p)
<1>1. LiveOf(sc, q) \in Int /\ LiveOf(sc, p) \in Int /\ LiveOf(sc, q) <= LiveOf(sc, p)
  BY Points, Stressed
<1>2. \A x \in DOMAIN str : str[x] \in Int
  BY Data DEF Levels
<1>3. \A x \in DOMAIN str : str[x] < LiveOf(sc, q) => str[x] < LiveOf(sc, p)
  BY <1>1, <1>2
<1>4. CASE sc.mode = "independent_replica"
  <2>1. Slots \subseteq DOMAIN str
    BY <1>4 DEF AliveRead
  <2>. QED
    BY <1>3, <1>4, <2>1 DEF AliveOf, ReplicasUp
<1>5. CASE sc.mode = "independent_service"
  <2>1. 1 .. Cardinality(Eligible) \subseteq DOMAIN str
    BY <1>5 DEF AliveRead
  <2>. QED
    BY <1>3, <1>5, <2>1 DEF AliveOf, ServicesUp
<1>6. CASE sc.mode \in FixedKModes
  <2>1. FixedKOf(sc, p) \in Nat /\ FixedKOf(sc, q) \in Nat /\ FixedKOf(sc, p) <= FixedKOf(sc, q)
    BY FixedKNat, Stressed
  <2>2. 1 .. FixedKOf(sc, p) \subseteq 1 .. FixedKOf(sc, q)
    BY <2>1
  <2>3. FailedOf(sc, prm, p) \subseteq FailedOf(sc, prm, q)
    BY <2>2 DEF FailedOf
  <2>4. FailedOf(sc, prm, q) \subseteq CandidatesOf(sc)
    <3>1. CASE FixedKOf(sc, q) = 0
      BY <3>1 DEF FailedOf
    <3>2. CASE FixedKOf(sc, q) # 0
      <4>1. FixedKOf(sc, q) \in 1 .. Cardinality(CandidatesOf(sc))
            /\ prm \in Bijection(CandidatesOf(sc), CandidatesOf(sc))
        BY <1>6, <3>2 DEF AliveRead
      <4>2. 1 .. FixedKOf(sc, q) \subseteq CandidatesOf(sc)
        BY <4>1, CandidatesFinite
      <4>3. prm \in [CandidatesOf(sc) -> CandidatesOf(sc)]
        BY <4>1 DEF Bijection, Injection
      <4>. QED
        BY <4>2, <4>3 DEF FailedOf
    <3>. QED
      BY <3>1, <3>2
  <2>5. AliveOf(sc, str, prm, p) = SurvivorsOf(sc, FailedOf(sc, prm, p))
        /\ AliveOf(sc, str, prm, q) = SurvivorsOf(sc, FailedOf(sc, prm, q))
    BY <1>6 DEF AliveOf, FixedKModes
  <2>. QED
    BY <2>3, <2>4, <2>5, SurvivorsShrink
<1>. QED
  BY <1>4, <1>5, <1>6, Points DEF Modes, FixedKModes

\* Two points that draw equally much before their edges see the same edges.
LEMMA EdgesAgree ==
  ASSUME NEW sc \in Scenarios, NEW p \in DOMAIN sc.points, NEW q \in DOMAIN sc.points,
         NEW str,
         \/ sc.mode = "independent_replica"
         \/ sc.points[p].fixedK > 0 /\ sc.points[q].fixedK > 0
  PROVE  EdgesOf(sc, str, p, Edges + 1) = EdgesOf(sc, str, q, Edges + 1)
<1>1. sc.points[p].fixedK \in Nat /\ sc.points[q].fixedK \in Nat
  BY Points
<1>2. EdgeStart(sc, p) = EdgeStart(sc, q)
  BY <1>1 DEF EdgeStart, FixedKOf
<1>3. \A e : EdgePos(sc, p, e) = EdgePos(sc, q, e)
  BY <1>2 DEF EdgePos
<1>. QED
  BY <1>3 DEF EdgesOf

-----------------------------------------------------------------------------
(* What was drawn stays.                                                   *)

Extends(str, str2) ==
  DOMAIN str \subseteq DOMAIN str2 /\ \A x \in DOMAIN str : str2[x] = str[x]

LEMMA AliveStays ==
  ASSUME NEW sc \in Scenarios, NEW p \in DOMAIN sc.points, NEW str, NEW str2, Extends(str, str2),
         NEW prm, NEW prm2, prm # << >> => prm2 = prm, AliveRead(sc, str, prm, p)
  PROVE  /\ AliveRead(sc, str2, prm2, p)
         /\ AliveOf(sc, str2, prm2, p) = AliveOf(sc, str, prm, p)
<1>0. DOMAIN str \subseteq DOMAIN str2 /\ \A x \in DOMAIN str : str2[x] = str[x]
  BY DEF Extends
<1>1. CASE sc.mode = "independent_replica"
  <2>1. Slots \subseteq DOMAIN str
    BY <1>1 DEF AliveRead
  <2>. QED
    BY <1>0, <1>1, <2>1 DEF AliveRead, FixedKModes, AliveOf, ReplicasUp
<1>2. CASE sc.mode = "independent_service"
  <2>1. 1 .. Cardinality(Eligible) \subseteq DOMAIN str
    BY <1>2 DEF AliveRead
  <2>. QED
    BY <1>0, <1>2, <2>1 DEF AliveRead, FixedKModes, AliveOf, ServicesUp
<1>3. CASE sc.mode \in FixedKModes
  <2>1. CASE FixedKOf(sc, p) = 0
    <3>1. FailedOf(sc, prm, p) = {} /\ FailedOf(sc, prm2, p) = {}
      BY <2>1 DEF FailedOf
    <3>. QED
      BY <1>3, <2>1, <3>1 DEF AliveRead, FixedKModes, AliveOf
  <2>2. CASE FixedKOf(sc, p) # 0
    <3>1. prm2 = prm
      BY <1>3, <2>2 DEF AliveRead
    <3>. QED
      BY <1>3, <3>1 DEF AliveRead, FixedKModes, AliveOf
  <2>. QED
    BY <2>1, <2>2
<1>. QED
  BY <1>1, <1>2, <1>3, Points DEF Modes, FixedKModes

LEMMA EdgesStay ==
  ASSUME NEW sc, NEW p, NEW str, NEW str2, Extends(str, str2), NEW n, EdgesRead(sc, str, p, n)
  PROVE  /\ EdgesRead(sc, str2, p, n)
         /\ EdgesOf(sc, str2, p, n) = EdgesOf(sc, str, p, n)
<1>0. DOMAIN str \subseteq DOMAIN str2 /\ \A x \in DOMAIN str : str2[x] = str[x]
  BY DEF Extends
<1>1. \A e \in 1 .. n - 1 : e \notin sc.edgeKill => EdgePos(sc, p, e) \in DOMAIN str
  BY DEF EdgesRead
<1>2. EdgesRead(sc, str2, p, n)
  BY <1>0, <1>1 DEF EdgesRead
<1>. QED
  BY <1>0, <1>1, <1>2 DEF EdgesOf

\* The position moves with every edge that is not killed.
LEMMA EdgePosStep ==
  ASSUME NEW sc \in Scenarios, NEW p \in DOMAIN sc.points
  PROVE  /\ EdgePos(sc, p, 1) = EdgeStart(sc, p)
         /\ \A e \in Nat \ {0} :
              /\ EdgePos(sc, p, e) \in Nat
              /\ e \in sc.edgeKill => EdgePos(sc, p, e + 1) = EdgePos(sc, p, e)
              /\ e \notin sc.edgeKill => EdgePos(sc, p, e + 1) = EdgePos(sc, p, e) + 1
<1>1. EdgeStart(sc, p) \in Nat
  BY SlotBuckets, EligibleFinite, CandidatesFinite DEF EdgeStart
<1> DEFINE C(e) == (1 .. e - 1) \ sc.edgeKill
<1>2. \A e \in Nat \ {0} : IsFiniteSet(C(e)) /\ Cardinality(C(e)) \in Nat
  <2>1. ASSUME NEW e \in Nat \ {0} PROVE IsFiniteSet(C(e))
    <3>1. IsFiniteSet(1 .. e - 1) /\ C(e) \in SUBSET (1 .. e - 1)
      BY FS_Interval
    <3>. QED
      BY <3>1, FS_Subset
  <2>. QED
    BY <2>1, FS_CardinalityType
<1>3. EdgePos(sc, p, 1) = EdgeStart(sc, p)
  <2>1. C(1) = {}
    OBVIOUS
  <2>2. Cardinality(C(1)) = 0
    BY <2>1, FS_EmptySet
  <2>. QED
    BY <1>1, <2>2 DEF EdgePos
<1>4. ASSUME NEW e \in Nat \ {0}
      PROVE  /\ EdgePos(sc, p, e) \in Nat
             /\ e \in sc.edgeKill => EdgePos(sc, p, e + 1) = EdgePos(sc, p, e)
             /\ e \notin sc.edgeKill => EdgePos(sc, p, e + 1) = EdgePos(sc, p, e) + 1
  <2>1. (e + 1) - 1 = e /\ 1 .. e = (1 .. e - 1) \cup {e} /\ e \notin 1 .. e - 1
    OBVIOUS
  <2>2. ASSUME e \in sc.edgeKill PROVE EdgePos(sc, p, e + 1) = EdgePos(sc, p, e)
    <3>1. C(e + 1) = C(e)
      BY <2>1, <2>2
    <3>. QED
      BY <3>1 DEF EdgePos
  <2>3. ASSUME e \notin sc.edgeKill PROVE EdgePos(sc, p, e + 1) = EdgePos(sc, p, e) + 1
    <3>1. C(e + 1) = C(e) \cup {e} /\ e \notin C(e)
      BY <2>1, <2>3
    <3>2. Cardinality(C(e + 1)) = Cardinality(C(e)) + 1
      BY <3>1, <1>2, FS_AddElement
    <3>3. EdgePos(sc, p, e + 1) = EdgeStart(sc, p) + Cardinality(C(e + 1))
          /\ EdgePos(sc, p, e) = EdgeStart(sc, p) + Cardinality(C(e))
      BY DEF EdgePos
    <3>4. Cardinality(C(e)) \in Nat
      BY <1>2
    <3> HIDE DEF C
    <3>. QED
      BY <1>1, <3>2, <3>3, <3>4
  <2>4. EdgePos(sc, p, e) \in Nat
    <3>1. EdgePos(sc, p, e) = EdgeStart(sc, p) + Cardinality(C(e)) /\ Cardinality(C(e)) \in Nat
      BY <1>2 DEF EdgePos
    <3> HIDE DEF C
    <3>. QED
      BY <1>1, <3>1
  <2>. QED
    BY <2>2, <2>3, <2>4
<1>. QED
  BY <1>3, <1>4

-----------------------------------------------------------------------------
(* The invariant.                                                          *)

TypeInv ==
  /\ scenario \in Scenarios
  /\ point \in DOMAIN scenario.points
  /\ pc \in {"start", "services", "kills", "edges", "done", "error"}
  /\ cursor \in Nat \ {0}
  /\ \A x \in DOMAIN stream : stream[x] \in Levels
  /\ perm # << >> => perm \in Bijection(CandidatesOf(scenario), CandidatesOf(scenario))
  /\ samples \in Seq([services : SUBSET Services, edges : SUBSET EdgeIDs])
  /\ Len(samples) = IF pc = "done" THEN point ELSE point - 1

\* A finished point has what the draws and the permutation give it.
SamplesInv ==
  \A p \in DOMAIN samples :
    /\ samples[p] = SampleOf(scenario, stream, perm, p)
    /\ SampleRead(scenario, stream, perm, p)

\* The slots or services below the cursor have drawn and nothing else has.
ServicesInv ==
  pc = "services" =>
    /\ edgeAlive = {}
    /\ Mode = "independent_replica" =>
         /\ pos = cursor /\ cursor <= Before(Len(Buckets) + 1) + 1
         /\ 1 .. cursor - 1 \subseteq DOMAIN stream
         /\ bucketAlive = ReplicasUp(scenario, stream, point, cursor)
    /\ Mode = "independent_service" =>
         /\ pos = cursor /\ cursor <= Cardinality(Eligible) + 1
         /\ 1 .. cursor - 1 \subseteq DOMAIN stream
         /\ bucketAlive = ServicesUp(scenario, stream, point, cursor)
    /\ Mode \in FixedKModes => pos = 1

KillsInv ==
  pc = "kills" =>
    /\ edgeAlive = {}
    /\ AliveRead(scenario, stream, perm, point)
    /\ bucketAlive = AliveOf(scenario, stream, perm, point)
    /\ pos = EdgeStart(scenario, point)

EdgesInv ==
  pc = "edges" =>
    /\ AliveRead(scenario, stream, perm, point)
    /\ bucketAlive = AliveOf(scenario, stream, perm, point) \ scenario.bucketKill
    /\ cursor <= Edges + 1
    /\ pos = EdgePos(scenario, point, cursor)
    /\ EdgesRead(scenario, stream, point, cursor)
    /\ edgeAlive = EdgesOf(scenario, stream, point, cursor)

SamplingInv ==
  /\ TypeInv
  /\ SamplesInv
  /\ pc = "start" => pos = 1
  /\ ServicesInv
  /\ KillsInv
  /\ EdgesInv

\* The names of the model are the functions at the running point.
LEMMA Running ==
  /\ Mode = scenario.mode
  /\ liveProbability = LiveOf(scenario, point)
  /\ FixedK = FixedKOf(scenario, point)
  /\ Candidates = CandidatesOf(scenario)
  /\ \A failed : Survivors(failed) = SurvivorsOf(scenario, failed)
BY DEF Mode, liveProbability, Stress, LiveOf, FixedK, FixedKOf, Candidates, CandidatesOf,
       Survivors, SurvivorsOf

\* A draw reads the level of its position and leaves the others.
LEMMA DrawGrows ==
  ASSUME NEW u \in Levels, Draw(u), \A x \in DOMAIN stream : stream[x] \in Levels
  PROVE  /\ Extends(stream, stream')
         /\ pos \in DOMAIN stream' /\ stream'[pos] = u
         /\ \A x \in DOMAIN stream' : stream'[x] \in Levels
         /\ pos' = pos + 1
BY DEF Draw, Extends

LEMMA SamplesStay ==
  ASSUME TypeInv, SamplesInv, scenario' = scenario, samples' = samples,
         Extends(stream, stream'), perm # << >> => perm' = perm
  PROVE  SamplesInv'
<1>1. DOMAIN samples \subseteq DOMAIN scenario.points
  <2>1. Len(samples) <= Len(scenario.points) /\ Len(samples) \in Nat
    BY Points DEF TypeInv
  <2>2. DOMAIN samples = 1 .. Len(samples)
    BY DEF TypeInv
  <2>3. DOMAIN scenario.points = 1 .. Len(scenario.points) /\ Len(scenario.points) \in Nat
    BY Points DEF TypeInv
  <2>. QED
    BY <2>1, <2>2, <2>3
<1>2. ASSUME NEW p \in DOMAIN samples
      PROVE  /\ samples[p] = SampleOf(scenario, stream', perm', p)
             /\ SampleRead(scenario, stream', perm', p)
  <2>1. scenario \in Scenarios /\ p \in DOMAIN scenario.points
    BY <1>1 DEF TypeInv
  <2>2. AliveRead(scenario, stream, perm, p) /\ EdgesRead(scenario, stream, p, Edges + 1)
    BY DEF SamplesInv, SampleRead
  <2>3. /\ AliveRead(scenario, stream', perm', p)
        /\ AliveOf(scenario, stream', perm', p) = AliveOf(scenario, stream, perm, p)
    BY <2>1, <2>2, AliveStays
  <2>4. /\ EdgesRead(scenario, stream', p, Edges + 1)
        /\ EdgesOf(scenario, stream', p, Edges + 1) = EdgesOf(scenario, stream, p, Edges + 1)
    BY <2>2, EdgesStay
  <2>. QED
    BY <2>3, <2>4 DEF SamplesInv, SampleOf, SampleRead
<1>. QED
  BY <1>2 DEF SamplesInv

LEMMA NothingDrawn ==
  ASSUME stream' = stream
  PROVE  Extends(stream, stream')
BY DEF Extends

-----------------------------------------------------------------------------
(* The steps.                                                              *)

LEMMA InitSampling ==
  ASSUME Init
  PROVE  SamplingInv
<1>1. scenario \in Scenarios /\ DOMAIN scenario.points = 1 .. Len(scenario.points)
      /\ Len(scenario.points) \in Nat \ {0}
  <2>1. scenario \in Scenarios /\ scenario.points # << >>
    BY SweepAssumption DEF Init
  <2>2. scenario.points \in Seq([fixedK : Nat, failure : 0 .. Draws])
    BY <2>1, SamplingAssumption DEF Scenario
  <2> DEFINE Point == [fixedK : Nat, failure : 0 .. Draws]
  <2>3. scenario.points \in Seq(Point)
    BY <2>2
  <2> HIDE DEF Point
  <2>. QED
    BY <2>1, <2>3
<1>2. TypeInv
  <2>1. point \in DOMAIN scenario.points
    BY <1>1 DEF Init
  <2>2. samples \in Seq([services : SUBSET Services, edges : SUBSET EdgeIDs]) /\ Len(samples) = 0
    BY DEF Init
  <2>. QED
    BY <1>1, <2>1, <2>2 DEF Init, TypeInv
<1>3. SamplesInv
  BY DEF Init, SamplesInv
<1>. QED
  BY <1>2, <1>3 DEF Init, SamplingInv, ServicesInv, KillsInv, EdgesInv

LEMMA StartKeeps ==
  ASSUME SamplingInv, Start
  PROVE  SamplingInv'
<1>1. TypeInv /\ SamplesInv /\ pos = 1 /\ pc' = "services" /\ cursor' = 1
      /\ UNCHANGED <<scenario, point, perm, samples, stream, pos>>
      /\ bucketAlive' = BucketIDs \ EligibleBuckets /\ edgeAlive' = {}
  BY DEF SamplingInv, Start, static, random
<1>2. TypeInv'
  BY <1>1 DEF TypeInv, Start
<1>3. SamplesInv'
  BY <1>1, SamplesStay, NothingDrawn
<1>4. ReplicasUp(scenario', stream', point', cursor') = BucketIDs \ EligibleBuckets
  <2>1. \A s \in Slots : ~(s < 1)
    BY SlotBuckets
  <2>. QED
    BY <1>1, <2>1 DEF ReplicasUp
<1>5. ServicesUp(scenario', stream', point', cursor') = BucketIDs \ EligibleBuckets
  <2>1. \A i \in 1 .. Cardinality(Eligible) : ~(i < 1)
    BY EligibleFinite
  <2>. QED
    BY <1>1, <2>1 DEF ServicesUp
<1>6. ServicesInv'
  BY <1>1, <1>4, <1>5, SlotBuckets, EligibleFinite DEF ServicesInv
<1>. QED
  BY <1>1, <1>2, <1>3, <1>6 DEF SamplingInv, KillsInv, EdgesInv

LEMMA ReplicaKeeps ==
  ASSUME SamplingInv, SampleReplica
  PROVE  SamplingInv'
<1>1. PICK u \in Levels :
        /\ Draw(u)
        /\ bucketAlive' = bucketAlive \cup {b \in {SlotBucket[cursor]} : u < liveProbability}
  BY DEF SampleReplica
<1>2. /\ TypeInv /\ SamplesInv /\ pc = "services" /\ Mode = "independent_replica"
      /\ scenario.mode = "independent_replica"
      /\ cursor \in Slots /\ cursor' = cursor + 1 /\ pc' = "services"
      /\ UNCHANGED <<scenario, point, perm, samples, edgeAlive>>
      /\ edgeAlive = {} /\ pos = cursor
      /\ 1 .. cursor - 1 \subseteq DOMAIN stream
      /\ bucketAlive = ReplicasUp(scenario, stream, point, cursor)
  BY DEF SamplingInv, SampleReplica, static, ServicesInv, Mode
<1>3. /\ Extends(stream, stream')
      /\ pos \in DOMAIN stream' /\ stream'[pos] = u
      /\ \A x \in DOMAIN stream' : stream'[x] \in Levels
      /\ pos' = pos + 1
  BY <1>1, <1>2, DrawGrows DEF TypeInv
<1>4. TypeInv'
  BY <1>2, <1>3 DEF TypeInv
<1>5. SamplesInv'
  BY <1>2, <1>3, SamplesStay
<1>6. 1 .. cursor' - 1 \subseteq DOMAIN stream' /\ cursor' <= Before(Len(Buckets) + 1) + 1
  BY <1>2, <1>3, SlotBuckets DEF Extends
<1>7. bucketAlive' = ReplicasUp(scenario, stream', point, cursor + 1)
  <2>1. \A s \in Slots : s < cursor + 1 <=> s < cursor \/ s = cursor
    BY <1>2, SlotBuckets
  <2>2. \A s \in Slots : s < cursor => stream'[s] = stream[s]
    <3>1. \A s \in Slots : s < cursor => s \in 1 .. cursor - 1
      BY <1>2, SlotBuckets
    <3>. QED
      BY <3>1, <1>2, <1>3 DEF Extends
  <2>3. bucketAlive' = bucketAlive \cup
          {b \in {SlotBucket[cursor]} : stream'[cursor] < LiveOf(scenario, point)}
    BY <1>1, <1>2, <1>3, Running
  <2>4. SlotBucket[cursor] \in EligibleBuckets
    BY <1>2, SlotBuckets
  <2>. QED
    BY <1>2, <2>1, <2>2, <2>3, <2>4 DEF ReplicasUp
<1>8. ServicesInv'
  BY <1>2, <1>3, <1>6, <1>7 DEF ServicesInv, Mode, FixedKModes
<1>. QED
  BY <1>2, <1>4, <1>5, <1>8 DEF SamplingInv, KillsInv, EdgesInv

LEMMA ServiceKeeps ==
  ASSUME SamplingInv, SampleService
  PROVE  SamplingInv'
<1>1. PICK u \in Levels :
        /\ Draw(u)
        /\ bucketAlive' = bucketAlive \cup
             {b \in BucketIDs : Buckets[b].service = Candidate(cursor) /\ u < liveProbability}
  BY DEF SampleService
<1>2. /\ TypeInv /\ SamplesInv /\ pc = "services" /\ Mode = "independent_service"
      /\ scenario.mode = "independent_service"
      /\ cursor \in 1 .. Cardinality(Eligible) /\ cursor' = cursor + 1 /\ pc' = "services"
      /\ UNCHANGED <<scenario, point, perm, samples, edgeAlive>>
      /\ edgeAlive = {} /\ pos = cursor
      /\ 1 .. cursor - 1 \subseteq DOMAIN stream
      /\ bucketAlive = ServicesUp(scenario, stream, point, cursor)
  BY DEF SamplingInv, SampleService, static, ServicesInv, Mode
<1>3. /\ Extends(stream, stream')
      /\ pos \in DOMAIN stream' /\ stream'[pos] = u
      /\ \A x \in DOMAIN stream' : stream'[x] \in Levels
      /\ pos' = pos + 1
  BY <1>1, <1>2, DrawGrows DEF TypeInv
<1>4. TypeInv'
  BY <1>2, <1>3 DEF TypeInv
<1>5. SamplesInv'
  BY <1>2, <1>3, SamplesStay
<1>6. 1 .. cursor' - 1 \subseteq DOMAIN stream' /\ cursor' <= Cardinality(Eligible) + 1
  BY <1>2, <1>3, EligibleFinite DEF Extends
<1>7. bucketAlive' = ServicesUp(scenario, stream', point, cursor + 1)
  <2>1. \A i \in 1 .. Cardinality(Eligible) : i < cursor + 1 <=> i < cursor \/ i = cursor
    BY <1>2, EligibleFinite
  <2>2. \A i \in 1 .. Cardinality(Eligible) : i < cursor => stream'[i] = stream[i]
    <3>1. \A i \in 1 .. Cardinality(Eligible) : i < cursor => i \in 1 .. cursor - 1
      BY <1>2, EligibleFinite
    <3>. QED
      BY <3>1, <1>2, <1>3 DEF Extends
  <2>3. bucketAlive' = bucketAlive \cup
          {b \in BucketIDs : Buckets[b].service = Candidate(cursor)
                               /\ stream'[cursor] < LiveOf(scenario, point)}
    BY <1>1, <1>2, <1>3, Running
  <2>. QED
    BY <1>2, <2>1, <2>2, <2>3 DEF ServicesUp
<1>8. ServicesInv'
  BY <1>2, <1>3, <1>6, <1>7 DEF ServicesInv, Mode, FixedKModes
<1>. QED
  BY <1>2, <1>4, <1>5, <1>8 DEF SamplingInv, KillsInv, EdgesInv

LEMMA SampledKeeps ==
  ASSUME SamplingInv, Sampled
  PROVE  SamplingInv'
<1>1. /\ TypeInv /\ SamplesInv /\ ServicesInv /\ pc = "services" /\ pc' = "kills"
      /\ UNCHANGED <<scenario, point, perm, samples, stream, pos, cursor, bucketAlive, edgeAlive>>
      /\ \/ Mode = "independent_replica" /\ cursor \notin Slots
         \/ Mode = "independent_service" /\ cursor \notin 1 .. Cardinality(Eligible)
  BY DEF SamplingInv, Sampled, static, random
<1>2. TypeInv'
  BY <1>1 DEF TypeInv
<1>3. SamplesInv'
  BY <1>1, SamplesStay, NothingDrawn
<1>4. /\ edgeAlive = {}
      /\ AliveRead(scenario, stream, perm, point)
      /\ bucketAlive = AliveOf(scenario, stream, perm, point)
      /\ pos = EdgeStart(scenario, point)
  <2>1. CASE Mode = "independent_replica" /\ cursor \notin Slots
    <3>1. scenario.mode = "independent_replica" /\ cursor = Before(Len(Buckets) + 1) + 1
      BY <1>1, <2>1, SlotBuckets DEF ServicesInv, TypeInv, Mode
    <3>2. Slots = 1 .. cursor - 1
      BY <3>1, SlotBuckets
    <3>. QED
      BY <1>1, <2>1, <3>1, <3>2 DEF ServicesInv, AliveRead, AliveOf, EdgeStart, FixedKModes
  <2>2. CASE Mode = "independent_service" /\ cursor \notin 1 .. Cardinality(Eligible)
    <3>1. scenario.mode = "independent_service" /\ cursor = Cardinality(Eligible) + 1
      BY <1>1, <2>2, EligibleFinite DEF ServicesInv, TypeInv, Mode
    <3>2. 1 .. Cardinality(Eligible) = 1 .. cursor - 1
      BY <3>1, EligibleFinite
    <3>. QED
      BY <1>1, <2>2, <3>1, <3>2 DEF ServicesInv, AliveRead, AliveOf, EdgeStart, FixedKModes
  <2>. QED
    BY <1>1, <2>1, <2>2
<1>5. KillsInv'
  BY <1>1, <1>4 DEF KillsInv
<1>. QED
  BY <1>1, <1>2, <1>3, <1>5 DEF SamplingInv, ServicesInv, EdgesInv

LEMMA NothingFailsKeeps ==
  ASSUME SamplingInv, FailNothing
  PROVE  SamplingInv'
<1>1. /\ TypeInv /\ SamplesInv /\ ServicesInv /\ pc = "services" /\ pc' = "kills"
      /\ UNCHANGED <<scenario, point, perm, samples, stream, pos, cursor, edgeAlive>>
      /\ scenario.mode \in FixedKModes /\ FixedKOf(scenario, point) = 0
      /\ bucketAlive' = SurvivorsOf(scenario, {})
  BY Running DEF SamplingInv, FailNothing, static, random, FixedKModes
<1>2. TypeInv'
  BY <1>1 DEF TypeInv
<1>3. SamplesInv'
  BY <1>1, SamplesStay, NothingDrawn
<1>4. FailedOf(scenario, perm, point) = {}
  BY <1>1 DEF FailedOf
<1>5. AliveRead(scenario, stream, perm, point)
  BY <1>1 DEF AliveRead, FixedKModes
<1>6. AliveOf(scenario, stream, perm, point) = SurvivorsOf(scenario, {})
  BY <1>1, <1>4 DEF AliveOf, FixedKModes
<1>7. pos = EdgeStart(scenario, point) /\ edgeAlive = {}
  BY <1>1 DEF ServicesInv, EdgeStart, FixedKModes, Mode
<1>8. KillsInv'
  BY <1>1, <1>5, <1>6, <1>7 DEF KillsInv
<1>. QED
  BY <1>1, <1>2, <1>3, <1>8 DEF SamplingInv, ServicesInv, EdgesInv

LEMMA FixedKKeeps ==
  ASSUME SamplingInv, FailFixedK
  PROVE  SamplingInv'
<1>1. PICK order \in Bijection(Candidates, Candidates) :
        /\ perm # << >> => order = perm
        /\ perm' = order
        /\ bucketAlive' = Survivors({order[i] : i \in 1 .. FixedK})
  BY DEF FailFixedK
<1>2. /\ TypeInv /\ SamplesInv /\ ServicesInv /\ pc = "services" /\ pc' = "kills"
      /\ UNCHANGED <<scenario, point, samples, stream, cursor, edgeAlive>>
      /\ scenario.mode \in FixedKModes
      /\ FixedKOf(scenario, point) \in 1 .. Cardinality(CandidatesOf(scenario))
      /\ pos' = pos + Cardinality(CandidatesOf(scenario))
  BY Running DEF SamplingInv, FailFixedK, FixedKModes
<1>3. perm' \in Bijection(CandidatesOf(scenario), CandidatesOf(scenario))
      /\ (perm # << >> => perm' = perm)
  BY <1>1, Running
<1>4. perm' # << >>
  <2>1. 1 \in CandidatesOf(scenario)
    BY <1>2, CandidatesFinite
  <2>2. DOMAIN perm' = CandidatesOf(scenario)
    BY <1>3 DEF Bijection, Injection
  <2>. QED
    BY <2>1, <2>2
<1>5. TypeInv'
  BY <1>2, <1>3 DEF TypeInv
<1>6. SamplesInv'
  BY <1>2, <1>3, SamplesStay, NothingDrawn
<1>7. AliveRead(scenario, stream, perm', point)
  BY <1>2, <1>3, <1>4 DEF AliveRead, FixedKModes
<1>8. bucketAlive' = AliveOf(scenario, stream, perm', point)
  <2>1. FailedOf(scenario, perm', point) = {perm'[i] : i \in 1 .. FixedK}
    BY Running DEF FailedOf
  <2>2. bucketAlive' = SurvivorsOf(scenario, FailedOf(scenario, perm', point))
    BY <1>1, <2>1, Running
  <2>. QED
    BY <1>2, <2>2 DEF AliveOf, FixedKModes
<1>9. pos' = EdgeStart(scenario, point) /\ edgeAlive = {}
  <2>1. pos = 1 /\ edgeAlive = {}
    BY <1>2 DEF ServicesInv, Mode
  <2>2. FixedKOf(scenario, point) # 0
    BY <1>2, CandidatesFinite
  <2>3. 1 + Cardinality(CandidatesOf(scenario)) = Cardinality(CandidatesOf(scenario)) + 1
    BY CandidatesFinite
  <2>. QED
    BY <1>2, <2>1, <2>2, <2>3 DEF EdgeStart, FixedKModes
<1>10. KillsInv'
  BY <1>2, <1>7, <1>8, <1>9 DEF KillsInv
<1>. QED
  BY <1>2, <1>5, <1>6, <1>10 DEF SamplingInv, ServicesInv, EdgesInv

LEMMA TooManyKeeps ==
  ASSUME SamplingInv, TooManyFailures
  PROVE  SamplingInv'
<1>1. /\ TypeInv /\ SamplesInv /\ pc = "services" /\ pc' = "error"
      /\ UNCHANGED <<scenario, point, perm, samples, stream, pos, cursor, bucketAlive, edgeAlive>>
  BY DEF SamplingInv, TooManyFailures, static, random
<1>2. TypeInv'
  BY <1>1 DEF TypeInv
<1>3. SamplesInv'
  BY <1>1, SamplesStay, NothingDrawn
<1>. QED
  BY <1>1, <1>2, <1>3 DEF SamplingInv, ServicesInv, KillsInv, EdgesInv

LEMMA KillKeeps ==
  ASSUME SamplingInv, Kill
  PROVE  SamplingInv'
<1>1. /\ TypeInv /\ SamplesInv /\ KillsInv /\ pc = "kills" /\ pc' = "edges" /\ cursor' = 1
      /\ UNCHANGED <<scenario, point, perm, samples, stream, pos, edgeAlive>>
      /\ bucketAlive' = bucketAlive \ scenario.bucketKill
  BY DEF SamplingInv, Kill, static, random
<1>2. TypeInv'
  BY <1>1 DEF TypeInv
<1>3. SamplesInv'
  BY <1>1, SamplesStay, NothingDrawn
<1>4. scenario \in Scenarios /\ point \in DOMAIN scenario.points
  BY <1>1 DEF TypeInv
<1>5. EdgePos(scenario, point, 1) = EdgeStart(scenario, point)
  BY <1>4, EdgePosStep
<1>6. EdgesRead(scenario, stream, point, 1) /\ EdgesOf(scenario, stream, point, 1) = {}
  BY DEF EdgesRead, EdgesOf
<1>7. 1 <= Edges + 1
  BY Data
<1>8. EdgesInv'
  BY <1>1, <1>5, <1>6, <1>7 DEF KillsInv, EdgesInv
<1>. QED
  BY <1>1, <1>2, <1>3, <1>8 DEF SamplingInv, ServicesInv, KillsInv

LEMMA EdgeKeeps ==
  ASSUME SamplingInv, SampleEdge
  PROVE  SamplingInv'
<1>1. /\ TypeInv /\ SamplesInv /\ pc = "edges" /\ pc' = "edges"
      /\ cursor \in EdgeIDs /\ cursor' = cursor + 1
      /\ UNCHANGED <<scenario, point, perm, samples, bucketAlive>>
      /\ AliveRead(scenario, stream, perm, point)
      /\ bucketAlive = AliveOf(scenario, stream, perm, point) \ scenario.bucketKill
      /\ pos = EdgePos(scenario, point, cursor)
      /\ EdgesRead(scenario, stream, point, cursor)
      /\ edgeAlive = EdgesOf(scenario, stream, point, cursor)
  BY DEF SamplingInv, SampleEdge, static, EdgesInv
<1>2. scenario \in Scenarios /\ point \in DOMAIN scenario.points /\ cursor \in Nat \ {0}
  BY <1>1 DEF TypeInv
<1>3. cursor' \in Nat \ {0} /\ cursor' <= Edges + 1 /\ cursor <= Edges /\ cursor' - 1 = cursor
  BY <1>1, <1>2, Data
<1>4. 1 .. cursor = (1 .. cursor - 1) \cup {cursor} /\ cursor \notin 1 .. cursor - 1
  BY <1>2
<1>5. CASE cursor \in scenario.edgeKill /\ UNCHANGED <<random, edgeAlive>>
  <2>1. UNCHANGED <<stream, pos, edgeAlive>>
    BY <1>5 DEF random
  <2>2. TypeInv'
    BY <1>1, <1>3, <2>1 DEF TypeInv
  <2>3. SamplesInv'
    BY <1>1, <2>1, SamplesStay, NothingDrawn
  <2>4. EdgePos(scenario, point, cursor + 1) = EdgePos(scenario, point, cursor)
    BY <1>2, <1>5, EdgePosStep
  <2>5. EdgesRead(scenario, stream, point, cursor + 1)
    BY <1>1, <1>3, <1>4, <1>5 DEF EdgesRead
  <2>6. EdgesOf(scenario, stream, point, cursor + 1) = EdgesOf(scenario, stream, point, cursor)
    BY <1>1, <1>3, <1>4, <1>5 DEF EdgesOf
  <2>7. EdgesInv'
    BY <1>1, <1>3, <2>1, <2>4, <2>5, <2>6 DEF EdgesInv
  <2>. QED
    BY <1>1, <2>2, <2>3, <2>7 DEF SamplingInv, ServicesInv, KillsInv
<1>6. CASE /\ cursor \notin scenario.edgeKill
           /\ \E u \in Levels :
                Draw(u) /\ edgeAlive' = edgeAlive \cup {e \in {cursor} : u < scenario.edgeLive[e]}
  <2>1. PICK u \in Levels :
          Draw(u) /\ edgeAlive' = edgeAlive \cup {e \in {cursor} : u < scenario.edgeLive[e]}
    BY <1>6
  <2>2. /\ Extends(stream, stream')
        /\ pos \in DOMAIN stream' /\ stream'[pos] = u
        /\ \A x \in DOMAIN stream' : stream'[x] \in Levels
        /\ pos' = pos + 1
    BY <1>1, <2>1, DrawGrows DEF TypeInv
  <2>3. TypeInv'
    BY <1>1, <1>3, <2>2 DEF TypeInv
  <2>4. SamplesInv'
    BY <1>1, <2>2, SamplesStay
  <2>5. EdgePos(scenario, point, cursor + 1) = EdgePos(scenario, point, cursor) + 1
    BY <1>2, <1>6, EdgePosStep
  <2>6. /\ EdgesRead(scenario, stream', point, cursor)
        /\ EdgesOf(scenario, stream', point, cursor) = EdgesOf(scenario, stream, point, cursor)
    BY <1>1, <2>2, EdgesStay
  <2>7. EdgesRead(scenario, stream', point, cursor + 1)
    BY <1>1, <1>3, <1>4, <2>2, <2>6 DEF EdgesRead
  <2>8. EdgesOf(scenario, stream', point, cursor + 1)
          = EdgesOf(scenario, stream', point, cursor)
              \cup {e \in {cursor} : stream'[pos] < scenario.edgeLive[e]}
    BY <1>1, <1>3, <1>4, <1>6 DEF EdgesOf
  <2>9. edgeAlive' = EdgesOf(scenario, stream', point, cursor + 1)
    BY <1>1, <2>1, <2>2, <2>6, <2>8
  <2>10. /\ AliveRead(scenario, stream', perm, point)
         /\ AliveOf(scenario, stream', perm, point) = AliveOf(scenario, stream, perm, point)
    BY <1>1, <1>2, <2>2, AliveStays
  <2>11. EdgesInv'
    BY <1>1, <1>3, <2>2, <2>5, <2>7, <2>9, <2>10 DEF EdgesInv
  <2>. QED
    BY <1>1, <2>3, <2>4, <2>11 DEF SamplingInv, ServicesInv, KillsInv
<1>. QED
  BY <1>5, <1>6 DEF SampleEdge

LEMMA PointEndsKeeps ==
  ASSUME SamplingInv, PointEnds
  PROVE  SamplingInv'
<1> DEFINE sample == [services |-> LiveServices, edges |-> edgeAlive]
<1>1. /\ TypeInv /\ SamplesInv /\ EdgesInv /\ pc = "edges" /\ cursor \notin EdgeIDs
      /\ samples' = Append(samples, sample)
      /\ UNCHANGED <<scenario, stream, perm, cursor, bucketAlive, edgeAlive>>
      /\ \/ point < Len(scenario.points) /\ point' = point + 1 /\ pc' = "start" /\ pos' = 1
         \/ pc' = "done" /\ point' = point
  BY DEF SamplingInv, PointEnds, FreshGenerator
<1>2. /\ scenario \in Scenarios /\ point \in DOMAIN scenario.points
      /\ DOMAIN scenario.points = 1 .. Len(scenario.points) /\ Len(scenario.points) \in Nat
  BY <1>1, Points DEF TypeInv
<1>3. cursor = Edges + 1
  BY <1>1, Data DEF EdgesInv, TypeInv
<1>4. sample = SampleOf(scenario, stream, perm, point)
  BY <1>1, <1>3 DEF EdgesInv, SampleOf, ServicesOf, LiveServices
<1>5. SampleRead(scenario, stream, perm, point)
  BY <1>1, <1>3 DEF EdgesInv, SampleRead
<1> DEFINE Sample == [services : SUBSET Services, edges : SUBSET EdgeIDs]
<1>6. sample \in Sample
  <2>1. AliveOf(scenario, stream, perm, point) \subseteq BucketIDs
    BY Data DEF AliveOf, ReplicasUp, ServicesUp, SurvivorsOf
  <2>2. LiveServices \subseteq Services
    BY <1>1, <2>1 DEF EdgesInv, LiveServices, Services
  <2>3. edgeAlive \subseteq EdgeIDs
    BY <1>1, <1>3, Data DEF EdgesInv, EdgesOf
  <2>. QED
    BY <2>2, <2>3
<1>7. samples \in Seq(Sample) /\ Len(samples) = point - 1
  BY <1>1 DEF TypeInv
<1> HIDE DEF sample, Sample
<1>8. /\ samples' \in Seq(Sample) /\ Len(samples') = point
      /\ samples'[point] = sample /\ \A p \in 1 .. point - 1 : samples'[p] = samples[p]
      /\ DOMAIN samples' = 1 .. point /\ DOMAIN samples = 1 .. point - 1
  BY <1>1, <1>2, <1>6, <1>7
<1>9. TypeInv'
  <2>1. point' \in DOMAIN scenario.points /\ Len(samples') = IF pc' = "done" THEN point' ELSE point' - 1
    BY <1>1, <1>2, <1>8
  <2>. QED
    BY <1>1, <1>8, <2>1 DEF TypeInv, Sample
<1>10. SamplesInv'
  <2>1. ASSUME NEW p \in DOMAIN samples'
        PROVE  /\ samples'[p] = SampleOf(scenario, stream, perm, p)
               /\ SampleRead(scenario, stream, perm, p)
    <3>1. CASE p = point
      BY <1>4, <1>5, <1>8, <3>1
    <3>2. CASE p # point
      <4>1. p \in DOMAIN samples /\ samples'[p] = samples[p]
        BY <1>2, <1>8, <2>1, <3>2
      <4>. QED
        BY <1>1, <4>1 DEF SamplesInv
    <3>. QED
      BY <3>1, <3>2
  <2>. QED
    BY <1>1, <2>1 DEF SamplesInv
<1>. QED
  BY <1>1, <1>9, <1>10 DEF SamplingInv, ServicesInv, KillsInv, EdgesInv

\* The invariant: every finished point has sampled what its stress makes of the
\* draws and of the permutation, which are the same for all points because the
\* generators start from one seed, and the running point is where it would be if
\* it had been alone (sampleAdvancedState, runAdvancedProfile).
THEOREM SamplingInvariant ==
  Spec => []SamplingInv
<1>1. Init => SamplingInv
  BY InitSampling
<1>2. SamplingInv /\ [Next]_vars => SamplingInv'
  <2> SUFFICES ASSUME SamplingInv, [Next]_vars PROVE SamplingInv'
    OBVIOUS
  <2>1. CASE UNCHANGED vars
    <3>1. /\ TypeInv /\ SamplesInv /\ (pc = "start" => pos = 1) /\ ServicesInv /\ KillsInv /\ EdgesInv
          /\ UNCHANGED <<scenario, point, pc, cursor, stream, pos, perm, bucketAlive, edgeAlive, samples>>
      BY <2>1 DEF SamplingInv, vars
    <3>2. TypeInv' /\ SamplesInv'
      BY <3>1 DEF TypeInv, SamplesInv
    <3>3. ServicesInv' /\ KillsInv' /\ EdgesInv'
      BY <3>1 DEF ServicesInv, KillsInv, EdgesInv, Mode
    <3>. QED
      BY <3>1, <3>2, <3>3 DEF SamplingInv
  <2>2. CASE Start
    BY <2>2, StartKeeps
  <2>3. CASE SampleReplica
    BY <2>3, ReplicaKeeps
  <2>4. CASE SampleService
    BY <2>4, ServiceKeeps
  <2>5. CASE Sampled
    BY <2>5, SampledKeeps
  <2>6. CASE FailNothing
    BY <2>6, NothingFailsKeeps
  <2>7. CASE FailFixedK
    BY <2>7, FixedKKeeps
  <2>8. CASE TooManyFailures
    BY <2>8, TooManyKeeps
  <2>9. CASE Kill
    BY <2>9, KillKeeps
  <2>10. CASE SampleEdge
    BY <2>10, EdgeKeeps
  <2>11. CASE PointEnds
    BY <2>11, PointEndsKeeps
  <2>. QED
    BY <2>1, <2>2, <2>3, <2>4, <2>5, <2>6, <2>7, <2>8, <2>9, <2>10, <2>11 DEF Next
<1>. QED
  BY <1>1, <1>2, PTL DEF Spec

LEMMA InvCouples ==
  ASSUME SamplingInv
  PROVE  PointsCoupled
<1>1. TypeInv /\ SamplesInv
  BY DEF SamplingInv
<1>2. scenario \in Scenarios /\ DOMAIN samples \subseteq DOMAIN scenario.points
  <2>1. scenario \in Scenarios /\ point \in DOMAIN scenario.points
    BY <1>1 DEF TypeInv
  <2>2. DOMAIN scenario.points = 1 .. Len(scenario.points) /\ Len(scenario.points) \in Nat
    BY <2>1, Points
  <2>3. DOMAIN samples = 1 .. Len(samples) /\ Len(samples) \in Nat
    BY <1>1 DEF TypeInv
  <2>4. Len(samples) <= point
    BY <1>1, <2>1, <2>2 DEF TypeInv
  <2>. QED
    BY <2>1, <2>2, <2>3, <2>4
<1>3. ASSUME NEW p \in DOMAIN samples, NEW q \in DOMAIN samples, p < q
      PROVE  samples[q].services \subseteq samples[p].services
  <2>1. /\ AliveRead(scenario, stream, perm, p) /\ AliveRead(scenario, stream, perm, q)
        /\ samples[p].services = ServicesOf(AliveOf(scenario, stream, perm, p) \ scenario.bucketKill)
        /\ samples[q].services = ServicesOf(AliveOf(scenario, stream, perm, q) \ scenario.bucketKill)
    BY <1>1 DEF SamplesInv, SampleRead, SampleOf
  <2>2. AliveOf(scenario, stream, perm, q) \subseteq AliveOf(scenario, stream, perm, p)
    BY <1>1, <1>2, <1>3, <2>1, AliveShrinks DEF TypeInv
  <2>. QED
    BY <2>1, <2>2 DEF ServicesOf
<1>4. ASSUME NEW p \in DOMAIN samples, NEW q \in DOMAIN samples,
             Mode = "independent_replica"
               \/ (scenario.points[p].fixedK > 0 /\ scenario.points[q].fixedK > 0)
      PROVE  samples[p].edges = samples[q].edges
  <2>1. /\ samples[p].edges = EdgesOf(scenario, stream, p, Edges + 1)
        /\ samples[q].edges = EdgesOf(scenario, stream, q, Edges + 1)
    <3>1. \A r \in DOMAIN samples : samples[r] = SampleOf(scenario, stream, perm, r)
      BY <1>1 DEF SamplesInv
    <3>2. \A r : SampleOf(scenario, stream, perm, r).edges = EdgesOf(scenario, stream, r, Edges + 1)
      BY DEF SampleOf
    <3>. QED
      BY <3>1, <3>2
  <2>. QED
    BY <1>2, <1>4, <2>1, EdgesAgree DEF Mode
<1>. QED
  BY <1>3, <1>4 DEF PointsCoupled

\* The coupling of a sweep, for all placements, services and axes: a service that
\* is up at one point was up at every point of less stress, and points that fail
\* anything see the same edges (sweepPointProfile, sampleAdvancedState).
THEOREM SweepsAreCoupled ==
  Spec => []PointsCoupled
BY SamplingInvariant, InvCouples, PTL

-----------------------------------------------------------------------------
(* Exactly k fail.                                                         *)

\* As many values as arguments.
LEMMA InjectiveImage ==
  ASSUME NEW S, IsFiniteSet(S), NEW R, NEW f \in Injection(S, R)
  PROVE  IsFiniteSet({f[x] : x \in S}) /\ Cardinality({f[x] : x \in S}) = Cardinality(S)
<1> DEFINE T == {f[x] : x \in S}
<1>1. f \in Surjection(S, T) /\ f \in Injection(S, T)
  BY DEF Surjection, Injection, IsInjective
<1> HIDE DEF T
<1>2. IsFiniteSet(T) /\ (Cardinality(T) = Cardinality(S) <=> f \in Injection(S, T))
  BY <1>1, FS_Surjection
<1>3. IsFiniteSet(T) /\ Cardinality(T) = Cardinality(S)
  BY <1>1, <1>2
<1>. QED
  BY <1>3 DEF T

\* Numbers give the eligible services their order.
LEMMA CandidateRanks ==
  \A i \in 1 .. Cardinality(Eligible) :
    Candidate(i) \in Eligible /\ Cardinality({t \in Eligible : t <= Candidate(i)}) = i
<1> DEFINE UpTo(s) == {t \in Eligible : t <= s}
           n == Cardinality(Eligible)
           rank == [s \in Eligible |-> Cardinality(UpTo(s))]
<1>1. \A s \in Eligible : s \in Nat
  <2>1. Eligible \subseteq Services
    BY SamplingAssumption
  <2>. QED
    BY <2>1, Data DEF Services
<1>2. \A s \in Eligible : UpTo(s) \subseteq Eligible /\ s \in UpTo(s) /\ IsFiniteSet(UpTo(s))
  <2>1. \A s \in Eligible : UpTo(s) \subseteq Eligible /\ s \in UpTo(s)
    BY <1>1
  <2>. QED
    BY <2>1, EligibleFinite, FS_Subset
<1>3. ASSUME NEW s \in Eligible PROVE rank[s] \in 1 .. n
  <2>1. Cardinality(UpTo(s)) <= n /\ Cardinality(UpTo(s)) \in Nat
    BY <1>2, EligibleFinite, FS_Subset, FS_CardinalityType
  <2>2. Cardinality(UpTo(s)) # 0
    BY <1>2, FS_EmptySet
  <2>. QED
    BY <2>1, <2>2, EligibleFinite
<1>4. ASSUME NEW s \in Eligible, NEW t \in Eligible, s < t PROVE rank[s] # rank[t]
  <2>1. UpTo(s) \subseteq UpTo(t) /\ t \notin UpTo(s)
    BY <1>1, <1>4
  <2>2. UpTo(s) # UpTo(t)
    BY <1>2, <2>1
  <2> HIDE DEF UpTo
  <2>3. Cardinality(UpTo(s)) # Cardinality(UpTo(t))
    BY <1>2, <2>1, <2>2, FS_Subset
  <2>. QED
    BY <2>3
<1>5. rank \in Injection(Eligible, 1 .. n)
  <2>1. \A s, t \in Eligible : s # t => s < t \/ t < s
    BY <1>1
  <2>2. \A s, t \in Eligible : rank[s] = rank[t] => s = t
    BY <1>4, <2>1
  <2>3. rank \in [Eligible -> 1 .. n]
    BY <1>3
  <2> HIDE DEF rank
  <2>. QED
    BY <2>2, <2>3 DEF Injection, IsInjective
<1>6. rank \in Surjection(Eligible, 1 .. n)
  <2>1. IsFiniteSet(1 .. n) /\ Cardinality(1 .. n) = n
    BY EligibleFinite, FS_Interval
  <2> HIDE DEF rank
  <2>2. Cardinality(Eligible) = Cardinality(1 .. n) <=> rank \in Surjection(Eligible, 1 .. n)
    BY <1>5, <2>1, FS_Injection
  <2>. QED
    BY <2>1, <2>2
<1>7. ASSUME NEW i \in 1 .. n PROVE \E s \in Eligible : Cardinality(UpTo(s)) = i
  BY <1>6 DEF Surjection
<1>8. ASSUME NEW i \in 1 .. n
      PROVE  Candidate(i) \in Eligible /\ Cardinality(UpTo(Candidate(i))) = i
  <2>1. Candidate(i) = CHOOSE s \in Eligible : Cardinality(UpTo(s)) = i
    BY DEF Candidate
  <2>2. PICK s \in Eligible : Cardinality(UpTo(s)) = i
    BY <1>7
  <2> HIDE DEF UpTo
  <2>. QED
    BY <2>1, <2>2
<1>. QED
  BY <1>8

\* The first k of a permutation are k.
LEMMA FailedAreK ==
  ASSUME NEW sc \in Scenarios, NEW p \in DOMAIN sc.points, NEW str, NEW prm,
         sc.mode \in FixedKModes, AliveRead(sc, str, prm, p)
  PROVE  /\ FailedOf(sc, prm, p) \subseteq CandidatesOf(sc)
         /\ IsFiniteSet(FailedOf(sc, prm, p))
         /\ Cardinality(FailedOf(sc, prm, p)) = FixedKOf(sc, p)
<1>1. FixedKOf(sc, p) \in Nat
  BY FixedKNat
<1>2. IsFiniteSet(1 .. FixedKOf(sc, p)) /\ Cardinality(1 .. FixedKOf(sc, p)) = FixedKOf(sc, p)
  BY <1>1, FS_Interval
<1>3. CASE FixedKOf(sc, p) = 0
  <2>1. FailedOf(sc, prm, p) = {}
    BY <1>3 DEF FailedOf
  <2>. QED
    BY <1>3, <2>1, FS_EmptySet
<1>4. CASE FixedKOf(sc, p) # 0
  <2>1. FixedKOf(sc, p) \in 1 .. Cardinality(CandidatesOf(sc))
        /\ prm \in Bijection(CandidatesOf(sc), CandidatesOf(sc))
    BY <1>4 DEF AliveRead
  <2>2. 1 .. FixedKOf(sc, p) \subseteq CandidatesOf(sc)
    BY <2>1, CandidatesFinite
  <2>3. prm \in [CandidatesOf(sc) -> CandidatesOf(sc)]
        /\ \A x, y \in CandidatesOf(sc) : prm[x] = prm[y] => x = y
    BY <2>1 DEF Bijection, Injection, IsInjective
  <2> DEFINE prefix == [x \in 1 .. FixedKOf(sc, p) |-> prm[x]]
  <2>4. prefix \in Injection(1 .. FixedKOf(sc, p), CandidatesOf(sc))
    BY <2>2, <2>3 DEF Injection, IsInjective
  <2>5. IsFiniteSet(FailedOf(sc, prm, p))
        /\ Cardinality(FailedOf(sc, prm, p)) = Cardinality(1 .. FixedKOf(sc, p))
    <3>1. FailedOf(sc, prm, p) = {prefix[x] : x \in 1 .. FixedKOf(sc, p)}
      BY DEF FailedOf
    <3> DEFINE prefixes == {prefix[x] : x \in 1 .. FixedKOf(sc, p)}
    <3> HIDE DEF prefix
    <3>2. IsFiniteSet(prefixes) /\ Cardinality(prefixes) = Cardinality(1 .. FixedKOf(sc, p))
      BY <1>2, <2>4, InjectiveImage
    <3>. QED
      BY <3>1, <3>2
  <2>6. FailedOf(sc, prm, p) \subseteq CandidatesOf(sc)
    BY <2>2, <2>3 DEF FailedOf
  <2>. QED
    BY <1>2, <2>5, <2>6
<1>. QED
  BY <1>3, <1>4

\* A bucket has at most as many slots as replicas.
LEMMA SlotsOfBucket ==
  ASSUME NEW F \in SUBSET Slots, NEW b \in BucketIDs
  PROVE  /\ Cardinality({s \in F : SlotBucket[s] = b}) \in Nat
         /\ Cardinality({s \in F : SlotBucket[s] = b}) <= Buckets[b].replicas
         /\ b \notin EligibleBuckets => Cardinality({s \in F : SlotBucket[s] = b}) = 0
<1> DEFINE Own == {s \in F : SlotBucket[s] = b}
           r == Buckets[b].replicas
           Room == Before(b) + 1 .. Before(b) + r
<1>1. r \in Nat /\ Before(b) \in Nat
  BY Data, BeforeStep
<1>2. IsFiniteSet(Room) /\ Cardinality(Room) = r
  <2>0. Before(b) + 1 \in Int /\ Before(b) + r \in Int
    BY <1>1
  <2>1. IsFiniteSet(Room) /\ Cardinality(Room) =
          IF Before(b) + 1 > Before(b) + r THEN 0 ELSE (Before(b) + r) - (Before(b) + 1) + 1
    BY <2>0, FS_Interval
  <2>2. r = IF Before(b) + 1 > Before(b) + r THEN 0 ELSE (Before(b) + r) - (Before(b) + 1) + 1
    BY <1>1
  <2>. QED
    BY <2>1, <2>2
<1>3. Own \subseteq Room
  BY SlotBuckets
<1>4. IsFiniteSet(Own) /\ Cardinality(Own) <= r
  BY <1>2, <1>3, FS_Subset
<1>5. Cardinality(Own) \in Nat
  BY <1>4, FS_CardinalityType
<1>6. ASSUME b \notin EligibleBuckets PROVE Cardinality(Own) = 0
  <2>1. Own = {}
    BY <1>6, SlotBuckets
  <2>. QED
    BY <2>1, FS_EmptySet
<1>. QED
  BY <1>4, <1>5, <1>6

LEMMA DownAreEligible ==
  ASSUME NEW sc \in Scenarios, NEW p \in DOMAIN sc.points, NEW str, NEW prm,
         AliveRead(sc, str, prm, p)
  PROVE  BucketIDs \ AliveOf(sc, str, prm, p) \subseteq EligibleBuckets
<1>1. CASE sc.mode = "independent_replica"
  BY <1>1 DEF AliveOf, ReplicasUp
<1>2. CASE sc.mode = "independent_service"
  BY <1>2 DEF AliveOf, ServicesUp
<1>3. CASE sc.mode \in FixedKModes
  <2> DEFINE F == FailedOf(sc, prm, p)
  <2>1. F \subseteq CandidatesOf(sc) /\ AliveOf(sc, str, prm, p) = SurvivorsOf(sc, F)
    BY <1>3, FailedAreK DEF AliveOf, FixedKModes
  <2>2. ASSUME NEW b \in BucketIDs \ EligibleBuckets PROVE b \in SurvivorsOf(sc, F)
    <3>1. CASE sc.mode = "fixed_k_service_set"
      <4>1. \A i \in F : Candidate(i) \in Eligible
        BY <2>1, <3>1, CandidateRanks DEF CandidatesOf
      <4>2. Buckets[b].service \notin Eligible
        BY DEF EligibleBuckets
      <4> HIDE DEF F
      <4>. QED
        BY <3>1, <4>1, <4>2 DEF SurvivorsOf
    <3>2. CASE sc.mode # "fixed_k_service_set"
      <4>1. F \in SUBSET Slots
        BY <2>1, <3>2 DEF CandidatesOf
      <4> HIDE DEF F
      <4>2. Cardinality({s \in F : SlotBucket[s] = b}) = 0
        BY <4>1, SlotsOfBucket
      <4>3. 0 < Buckets[b].replicas
        BY Data
      <4>. QED
        BY <3>2, <4>2, <4>3 DEF SurvivorsOf
    <3>. QED
      BY <3>1, <3>2
  <2>. QED
    BY <2>1, <2>2
<1>. QED
  BY <1>1, <1>2, <1>3, Points DEF Modes, FixedKModes

\* The failed services are down and nothing else is.
LEMMA ServicesDown ==
  ASSUME NEW sc \in Scenarios, NEW p \in DOMAIN sc.points, NEW str, NEW prm,
         AliveRead(sc, str, prm, p), sc.mode = "fixed_k_service_set"
  PROVE  Cardinality({Buckets[b].service : b \in BucketIDs \ AliveOf(sc, str, prm, p)})
           = FixedKOf(sc, p)
<1> DEFINE F == FailedOf(sc, prm, p)
           down == BucketIDs \ AliveOf(sc, str, prm, p)
           candidate == [i \in F |-> Candidate(i)]
<1>1. /\ F \subseteq 1 .. Cardinality(Eligible) /\ IsFiniteSet(F)
      /\ Cardinality(F) = FixedKOf(sc, p)
      /\ AliveOf(sc, str, prm, p) = SurvivorsOf(sc, F)
  BY FailedAreK DEF AliveOf, FixedKModes, CandidatesOf
<1> HIDE DEF F
<1>2. \A i \in F : Candidate(i) \in Eligible
                     /\ Cardinality({t \in Eligible : t <= Candidate(i)}) = i
  BY <1>1, CandidateRanks
<1>3. candidate \in Injection(F, Eligible)
  <2>1. \A i, j \in F : Candidate(i) = Candidate(j) => i = j
    BY <1>2
  <2>2. candidate \in [F -> Eligible]
    BY <1>2
  <2>. QED
    BY <2>1, <2>2 DEF Injection, IsInjective
<1>4. Eligible \subseteq {Buckets[b].service : b \in BucketIDs}
  BY SamplingAssumption DEF Services
<1>5. down = {b \in BucketIDs : Buckets[b].service \in {Candidate(i) : i \in F}}
  BY <1>1 DEF SurvivorsOf
<1>6. {Buckets[b].service : b \in down} = {Candidate(i) : i \in F}
  <2> HIDE DEF down
  <2>. QED
    BY <1>2, <1>4, <1>5
<1>7. {Candidate(i) : i \in F} = {candidate[i] : i \in F}
  OBVIOUS
<1> HIDE DEF candidate, down
<1>8. Cardinality({candidate[i] : i \in F}) = Cardinality(F)
  BY <1>1, <1>3, InjectiveImage
<1>. QED
  BY <1>1, <1>6, <1>7, <1>8 DEF down

\* The failed slots take down the buckets that lose all of theirs.
LEMMA SlotsDown ==
  ASSUME NEW sc \in Scenarios, NEW p \in DOMAIN sc.points, NEW str, NEW prm,
         AliveRead(sc, str, prm, p), sc.mode = "fixed_k_replica_slots",
         NEW down, down = BucketIDs \ AliveOf(sc, str, prm, p),
         NEW spare, spare = [b \in BucketIDs |-> Buckets[b].replicas - 1]
  PROVE  /\ SumFunctionOnSet(Replicas, down) <= FixedKOf(sc, p)
         /\ FixedKOf(sc, p) - SumFunctionOnSet(Replicas, down)
              <= SumFunctionOnSet(spare, EligibleBuckets \ down)
<1> DEFINE F == FailedOf(sc, prm, p)
           c == [b \in EligibleBuckets |-> Cardinality({s \in F : SlotBucket[s] = b})]
           rest == EligibleBuckets \ down
<1>1. /\ F \in SUBSET Slots /\ IsFiniteSet(F) /\ Cardinality(F) = FixedKOf(sc, p)
      /\ AliveOf(sc, str, prm, p) = SurvivorsOf(sc, F)
  BY FailedAreK DEF AliveOf, FixedKModes, CandidatesOf
<1> HIDE DEF F
<1>2. /\ down \subseteq EligibleBuckets /\ EligibleBuckets \subseteq BucketIDs
      /\ IsFiniteSet(EligibleBuckets) /\ IsFiniteSet(down) /\ IsFiniteSet(rest)
  <2>1. down \subseteq EligibleBuckets /\ EligibleBuckets \subseteq BucketIDs
    BY DownAreEligible, Data
  <2>2. down \in SUBSET BucketIDs /\ rest \in SUBSET BucketIDs /\ EligibleBuckets \in SUBSET BucketIDs
    BY <2>1
  <2>. QED
    BY <2>1, <2>2, ReplicasSummable
<1>3. \A b \in EligibleBuckets :
        c[b] \in Nat /\ c[b] <= Replicas[b] /\ Replicas[b] = Buckets[b].replicas /\ Replicas[b] \in Nat
  <2>1. \A b \in BucketIDs : /\ Cardinality({s \in F : SlotBucket[s] = b}) \in Nat
                             /\ Cardinality({s \in F : SlotBucket[s] = b}) <= Buckets[b].replicas
    BY <1>1, SlotsOfBucket
  <2>. QED
    BY <1>2, <2>1, Data DEF Replicas
<1>4. \A b \in EligibleBuckets : b \in down <=> ~(c[b] < Buckets[b].replicas)
  BY <1>1, <1>2 DEF SurvivorsOf
<1> HIDE DEF c
<1>5. /\ Summable(c, EligibleBuckets) /\ Summable(c, down) /\ Summable(c, rest)
      /\ Summable(Replicas, down) /\ Summable(spare, rest)
  BY <1>2, <1>3 DEF Summable
<1>6. Cardinality(F) = SumFunctionOnSet(c, EligibleBuckets)
  <2>1. \A s \in F : SlotBucket[s] \in EligibleBuckets
    BY <1>1, SlotBuckets
  <2>. QED
    BY <1>1, <1>2, <2>1, PartsSum DEF c
<1>7. SumFunctionOnSet(c, EligibleBuckets) = SumFunctionOnSet(c, down) + SumFunctionOnSet(c, rest)
  BY <1>2, <1>5, SumSplit
<1>8. \A b \in down : Replicas[b] <= c[b] /\ c[b] <= Replicas[b]
  BY <1>2, <1>3, <1>4
<1>9. SumFunctionOnSet(Replicas, down) = SumFunctionOnSet(c, down)
  <2>1. SumFunctionOnSet(Replicas, down) <= SumFunctionOnSet(c, down)
    BY <1>5, <1>8, SumMonotone
  <2>2. SumFunctionOnSet(c, down) <= SumFunctionOnSet(Replicas, down)
    BY <1>5, <1>8, SumMonotone
  <2>3. SumFunctionOnSet(c, down) \in Int /\ SumFunctionOnSet(Replicas, down) \in Int
    BY <1>5, SumStep
  <2>. QED
    BY <2>1, <2>2, <2>3
<1>10. \A b \in rest : c[b] <= spare[b] /\ 0 <= c[b]
  BY <1>2, <1>3, <1>4
<1>11. SumFunctionOnSet(c, rest) <= SumFunctionOnSet(spare, rest)
  BY <1>5, <1>10, SumMonotone
<1>12. 0 <= SumFunctionOnSet(c, rest)
  BY <1>5, <1>10, SumNonNegative
<1>13. /\ SumFunctionOnSet(c, rest) \in Int /\ SumFunctionOnSet(c, down) \in Int
       /\ SumFunctionOnSet(spare, rest) \in Int
  BY <1>5, SumStep
<1> HIDE DEF rest
<1>14. /\ SumFunctionOnSet(Replicas, down) <= FixedKOf(sc, p)
       /\ FixedKOf(sc, p) - SumFunctionOnSet(Replicas, down) <= SumFunctionOnSet(spare, rest)
  BY <1>1, <1>6, <1>7, <1>9, <1>11, <1>12, <1>13
<1>. QED
  BY <1>14 DEF rest

LEMMA InvFailsExactly ==
  ASSUME SamplingInv
  PROVE  ExactFailures
<1> SUFFICES ASSUME pc = "kills" PROVE ExactFailures
  BY DEF ExactFailures
<1> DEFINE down == BucketIDs \ bucketAlive
           spare == [b \in BucketIDs |-> Buckets[b].replicas - 1]
<1>1. /\ scenario \in Scenarios /\ point \in DOMAIN scenario.points
      /\ AliveRead(scenario, stream, perm, point)
      /\ bucketAlive = AliveOf(scenario, stream, perm, point)
  BY DEF SamplingInv, TypeInv, KillsInv
<1>2. down \subseteq EligibleBuckets
  BY <1>1, DownAreEligible
<1>3. Mode = "fixed_k_service_set" => Cardinality({Buckets[b].service : b \in down}) = FixedK
  BY <1>1, ServicesDown, Running
<1>4. Mode = "fixed_k_replica_slots" =>
        /\ SumFunctionOnSet(Replicas, down) <= FixedK
        /\ FixedK - SumFunctionOnSet(Replicas, down)
             <= SumFunctionOnSet(spare, EligibleBuckets \ down)
  <2>1. down = BucketIDs \ AliveOf(scenario, stream, perm, point)
    BY <1>1
  <2>2. spare = [b \in BucketIDs |-> Buckets[b].replicas - 1]
    OBVIOUS
  <2> HIDE DEF down, spare
  <2>. QED
    BY <1>1, <2>1, <2>2, SlotsDown, Running
<1>. QED
  BY <1>2, <1>3, <1>4 DEF ExactFailures

\* Fixed-k fails exactly k, for all placements and services: k of the eligible
\* services, or k slots that take down the buckets they cover and no other
\* (sampleAdvancedState).
THEOREM FailuresAreExact ==
  Spec => []ExactFailures
BY SamplingInvariant, InvFailsExactly, PTL
=============================================================================
