---------------------- MODULE SheaftServiceProofs ----------------------
(***************************************************************************)
(* Proofs about service mode for every set of paths and contents, every    *)
(* watch configuration, every history.max_items and any number of writes   *)
(* and restarts.                                                           *)
(***************************************************************************)
EXTENDS SheaftService, SequenceTheorems, TLAPS

USE ConstantsAssumption DEF CurrentStatus, handleReadyz, handleCurrentReport

-----------------------------------------------------------------------------
(* The history after an append.                                            *)

\* t is a non-empty suffix, of at most MaxItems reports, of h followed by r.
NewestOf(t, h, r) ==
  /\ t \in Seq(Report)
  /\ Len(t) \in 1 .. MaxItems
  /\ t[Len(t)] = r
  /\ \A i \in 1 .. Len(t) - 1 :
       /\ Len(h) + 1 - Len(t) + i \in 1 .. Len(h)
       /\ t[i] = h[Len(h) + 1 - Len(t) + i]

\* What trimming keeps of the old history and the new report.
LEMMA TrimmedAppend ==
  ASSUME NEW h \in Seq(Report), NEW r \in Report, Len(h) <= MaxItems
  PROVE  NewestOf(Trimmed(Append(h, r)), h, r)
<1> DEFINE a == Append(h, r)
           t == Trimmed(a)
<1>1. /\ a \in Seq(Report) /\ Len(a) = Len(h) + 1 /\ Len(h) \in Nat
      /\ a[Len(h) + 1] = r
      /\ \A i \in 1 .. Len(h) : a[i] = h[i]
  BY AppendProperties, LenProperties
<1>2. CASE Len(a) > MaxItems
  <2>1. Len(h) = MaxItems
    BY <1>1, <1>2
  <2>2. t = SubSeq(a, 2, Len(a))
    BY <1>1, <1>2, <2>1 DEF Trimmed
  <2>3. t \in Seq(Report) /\ Len(t) = MaxItems /\ \A i \in 1 .. MaxItems : t[i] = a[i + 1]
    <3>1. Len(a) = MaxItems + 1 /\ \A i \in 2 .. Len(a) : a[i] \in Report
      BY <1>1, <2>1, ElementOfSeq
    <3>. HIDE DEF a
    <3>2. /\ SubSeq(a, 2, Len(a)) \in Seq(Report)
          /\ Len(SubSeq(a, 2, Len(a))) = IF 2 <= Len(a) THEN Len(a) - 2 + 1 ELSE 0
          /\ \A i \in 1 .. Len(a) - 2 + 1 : SubSeq(a, 2, Len(a))[i] = a[2 + i - 1]
      BY <3>1, SubSeqProperties
    <3>. QED
      BY <2>2, <3>1, <3>2
  <2>4. t[Len(t)] = r
    BY <1>1, <2>1, <2>3
  <2>5. ASSUME NEW i \in 1 .. Len(t) - 1
        PROVE  Len(h) + 1 - Len(t) + i \in 1 .. Len(h) /\ t[i] = h[Len(h) + 1 - Len(t) + i]
    <3>1. Len(h) + 1 - Len(t) + i = i + 1 /\ i + 1 \in 1 .. Len(h) /\ i \in 1 .. MaxItems
      BY <1>1, <2>1, <2>3
    <3>. QED
      BY <1>1, <2>3, <3>1
  <2>. QED
    BY <2>3, <2>4, <2>5 DEF NewestOf
<1>3. CASE Len(a) <= MaxItems
  <2>1. t = a
    BY <1>1, <1>3 DEF Trimmed
  <2>2. ASSUME NEW i \in 1 .. Len(t) - 1
        PROVE  Len(h) + 1 - Len(t) + i \in 1 .. Len(h) /\ t[i] = h[Len(h) + 1 - Len(t) + i]
    <3>1. Len(h) + 1 - Len(t) + i = i /\ i \in 1 .. Len(h)
      BY <1>1, <2>1
    <3>. QED
      BY <1>1, <2>1, <3>1
  <2>. QED
    BY <1>1, <1>3, <2>1, <2>2 DEF NewestOf
<1>. QED
  BY <1>1, <1>2, <1>3

-----------------------------------------------------------------------------
(* The inductive invariant.                                                *)

\* Facts about nil that the type invariant is read with.
LEMMA NoneFacts ==
  /\ None \notin Nat /\ None \notin Paths /\ None \notin Loadable /\ None \notin Report
  /\ None \notin Errors
BY DEF Contents

\* A fresh process satisfies the invariant.
LEMMA InitInv == Init => ServiceInv
<1> SUFFICES ASSUME Init PROVE ServiceInv
  OBVIOUS
<1>1. TypeOK
  <2>1. FlagsOK
    BY DEF Init, FlagsOK
  <2>2. EnvironmentOK /\ WorkerOK
    BY DEF Init, EnvironmentOK, WorkerOK, Steps, GenOrNone
  <2>3. BoardOK
    BY EmptySeq DEF Init, BoardOK, NoGauges, GenOrNone, Vectors
  <2>. QED
    BY <2>1, <2>2, <2>3 DEF TypeOK
<1>2. PostureConsistent /\ DiffChain /\ FailedRefreshVisible
  BY DEF Init, PostureConsistent, DiffChain, FailedRefreshVisible, Updating
<1>3. GaugesTrackReport /\ WorkerInv
  BY DEF Init, GaugesTrackReport, WorkerInv, Updating, CurrentGen, NoGauges, SeriesOf
<1>. QED
  BY <1>1, <1>2, <1>3 DEF ServiceInv

\* The producer, the contract files and a cancellation touch nothing that the
\* invariant relates; nor does the start of a process.
LEMMA EnvironmentInv ==
  ASSUME ServiceInv,
         \/ \E p \in Paths, file \in File : WriteArtifact(p, file)
         \/ WriteSideFiles \/ Cancel \/ Restart
  PROVE  ServiceInv'
<1>1. UNCHANGED <<pc, booted, localVars, sources, boardVars, lastError, metricVars, lastAttempt>>
  BY DEF WriteArtifact, WriteSideFiles, Cancel, Restart
<1>2. TypeOK'
  <2>1. WorkerOK' /\ BoardOK'
    BY <1>1 DEF ServiceInv, TypeOK, WorkerOK, BoardOK, localVars, boardVars, metricVars, gaugeVars
  <2>2. ASSUME NEW p \in Paths, NEW file \in File, WriteArtifact(p, file)
        PROVE  FlagsOK' /\ EnvironmentOK'
    <3>1. FlagsOK'
      BY <1>1, <2>2 DEF ServiceInv, TypeOK, FlagsOK, WriteArtifact, Notify, boardVars, procVars
    <3>2. EnvironmentOK'
      BY <2>2 DEF ServiceInv, TypeOK, EnvironmentOK, WriteArtifact, Notify, procVars
    <3>. QED
      BY <3>1, <3>2
  <2>3. CASE WriteSideFiles
    <3>1. FlagsOK'
      BY <2>3 DEF ServiceInv, TypeOK, FlagsOK, WriteSideFiles, boardVars, procVars, queueVars
    <3>2. EnvironmentOK'
      BY <2>3 DEF ServiceInv, TypeOK, EnvironmentOK, WriteSideFiles, procVars, queueVars
    <3>. QED
      BY <2>1, <3>1, <3>2 DEF TypeOK
  <2>4. CASE Cancel \/ Restart
    <3>1. FlagsOK'
      BY <2>4 DEF ServiceInv, TypeOK, FlagsOK, Cancel, Restart, boardVars, envVars, queueVars
    <3>2. EnvironmentOK'
      BY <2>4 DEF ServiceInv, TypeOK, EnvironmentOK, Cancel, Restart, envVars, queueVars
    <3>. QED
      BY <2>1, <3>1, <3>2 DEF TypeOK
  <2>. QED
    BY <2>1, <2>2, <2>3, <2>4 DEF TypeOK
<1>3. PostureConsistent' /\ DiffChain' /\ FailedRefreshVisible'
  BY <1>1 DEF ServiceInv, PostureConsistent, DiffChain, FailedRefreshVisible, Updating,
     CurrentGen, localVars, boardVars
<1>4. GaugesTrackReport' /\ WorkerInv'
  BY <1>1 DEF ServiceInv, GaugesTrackReport, WorkerInv, Updating, CurrentGen,
     localVars, boardVars, metricVars, gaugeVars
<1>. QED
  BY <1>2, <1>3, <1>4 DEF ServiceInv

\* With its memory gone, a process is where the invariant starts.
LEMMA EndInv == ASSUME ServiceInv, ProcessEnds PROVE ServiceInv'
<1>1. TypeOK'
  <2>1. FlagsOK'
    BY DEF ServiceInv, TypeOK, FlagsOK, ProcessEnds, envVars
  <2>2. EnvironmentOK' /\ WorkerOK'
    BY DEF ServiceInv, TypeOK, EnvironmentOK, ProcessEnds, WorkerOK, Steps, GenOrNone, envVars
  <2>3. BoardOK'
    BY EmptySeq DEF ProcessEnds, BoardOK, NoGauges, GenOrNone, Vectors
  <2>. QED
    BY <2>1, <2>2, <2>3 DEF TypeOK
<1>2. PostureConsistent' /\ DiffChain' /\ FailedRefreshVisible'
  BY DEF ProcessEnds, PostureConsistent, DiffChain, FailedRefreshVisible, Updating
<1>3. GaugesTrackReport' /\ WorkerInv'
  BY DEF ProcessEnds, GaugesTrackReport, WorkerInv, Updating, CurrentGen, NoGauges, SeriesOf
<1>. QED
  BY <1>1, <1>2, <1>3 DEF ServiceInv

\* The watch loop itself never touches a report.
LEMMA WatchLoopInv == ASSUME ServiceInv, ArmWatcher \/ Tick \/ FileEvent \/ WatchError \/ LoopDone PROVE ServiceInv'
<1>1. FlagsOK'
  BY DEF ServiceInv, TypeOK, FlagsOK, ArmWatcher, Tick, FileEvent, WatchError, LoopDone,
     envVars, queueVars, procVars, boardVars
<1>2. EnvironmentOK'
  BY DEF ServiceInv, TypeOK, EnvironmentOK, ArmWatcher, Tick, FileEvent, WatchError, LoopDone,
     envVars, queueVars, procVars
<1>3. WorkerOK'
  BY DEF ServiceInv, TypeOK, WorkerOK, Steps, ArmWatcher, Tick, FileEvent, WatchError, LoopDone,
     AfterWatcherFailure, localVars
<1>4. BoardOK'
  BY DEF ServiceInv, TypeOK, BoardOK, Errors, ArmWatcher, Tick, FileEvent, WatchError, LoopDone,
     boardVars, metricVars, gaugeVars
<1>5. PostureConsistent'
  BY DEF ServiceInv, PostureConsistent, ArmWatcher, Tick, FileEvent, WatchError, LoopDone,
     boardVars
<1>6. DiffChain'
  BY DEF ServiceInv, DiffChain, Updating, ArmWatcher, Tick, FileEvent, WatchError, LoopDone,
     AfterWatcherFailure, boardVars
<1>7. FailedRefreshVisible'
  BY DEF ServiceInv, FailedRefreshVisible, Errors, ArmWatcher, Tick, FileEvent, WatchError,
     LoopDone
<1>8. GaugesTrackReport'
  BY DEF ServiceInv, GaugesTrackReport, CurrentGen, Updating, ArmWatcher, Tick, FileEvent,
     WatchError, LoopDone, AfterWatcherFailure, boardVars, metricVars, gaugeVars
<1>9. WorkerInv'
  BY DEF ServiceInv, WorkerInv, Updating, ArmWatcher, Tick, FileEvent, WatchError, LoopDone,
     AfterWatcherFailure, boardVars, metricVars, gaugeVars
<1>. QED
  BY <1>1, <1>2, <1>3, <1>4, <1>5, <1>6, <1>7, <1>8, <1>9 DEF ServiceInv, TypeOK

\* Resolving a path.
LEMMA ResolveInv == ASSUME ServiceInv, ResolveStep PROVE ServiceInv'
<1>1. FlagsOK'
  BY DEF ServiceInv, TypeOK, FlagsOK, ResolveStep, envVars, queueVars, procVars, boardVars
<1>2. EnvironmentOK'
  BY DEF ServiceInv, TypeOK, EnvironmentOK, ResolveStep, envVars, queueVars, procVars
<1>3. WorkerOK'
  BY DEF ServiceInv, TypeOK, WorkerOK, Steps, Errors, ResolveStep, Fail, Resolve,
     resolveDirectory, Present
<1>4. BoardOK'
  BY DEF ServiceInv, TypeOK, BoardOK, ResolveStep, boardVars, metricVars, gaugeVars
<1>5. PostureConsistent'
  BY DEF ServiceInv, PostureConsistent, ResolveStep, boardVars
<1>6. DiffChain'
  BY DEF ServiceInv, DiffChain, Updating, ResolveStep, Fail, boardVars
<1>7. FailedRefreshVisible'
  BY DEF ServiceInv, FailedRefreshVisible, ResolveStep
<1>8. GaugesTrackReport'
  BY DEF ServiceInv, GaugesTrackReport, CurrentGen, Updating, ResolveStep, Fail, boardVars,
     metricVars, gaugeVars
<1>9. WorkerInv'
  BY DEF ServiceInv, WorkerInv, Errors, Updating, ResolveStep, Fail, Resolve, resolveDirectory,
     Present, boardVars, metricVars, gaugeVars
<1>. QED
  BY <1>1, <1>2, <1>3, <1>4, <1>5, <1>6, <1>7, <1>8, <1>9 DEF ServiceInv, TypeOK

\* Reading the artifact: only loadable bytes go on.
LEMMA LoadInv == ASSUME ServiceInv, LoadStep PROVE ServiceInv'
<1>1. FlagsOK'
  BY DEF ServiceInv, TypeOK, FlagsOK, LoadStep, envVars, queueVars, procVars, boardVars
<1>2. EnvironmentOK'
  BY DEF ServiceInv, TypeOK, EnvironmentOK, LoadStep, envVars, queueVars, procVars
<1>3. WorkerOK'
  BY DEF ServiceInv, TypeOK, WorkerOK, Steps, Errors, LoadStep, Fail, Loads
<1>4. BoardOK'
  <2>1. outcomes' \in [success : Nat, error : 0 .. ErrorCap]
    BY DEF ServiceInv, TypeOK, BoardOK, LoadStep, recordOutcome
  <2>. QED
    BY <2>1 DEF ServiceInv, TypeOK, BoardOK, LoadStep, boardVars, gaugeVars
<1>5. PostureConsistent'
  BY DEF ServiceInv, PostureConsistent, LoadStep, boardVars
<1>6. DiffChain'
  BY DEF ServiceInv, DiffChain, Updating, LoadStep, Fail, boardVars
<1>7. FailedRefreshVisible'
  BY DEF ServiceInv, FailedRefreshVisible, LoadStep
<1>8. GaugesTrackReport'
  BY DEF ServiceInv, TypeOK, BoardOK, GaugesTrackReport, CurrentGen, Updating, LoadStep, Fail,
     recordOutcome, boardVars, gaugeVars
<1>9. WorkerInv'
  BY NoneFacts DEF ServiceInv, TypeOK, BoardOK, WorkerInv, Errors, Updating, LoadStep, Fail,
     Loads, recordOutcome, boardVars, gaugeVars
<1>. QED
  BY <1>1, <1>2, <1>3, <1>4, <1>5, <1>6, <1>7, <1>8, <1>9 DEF ServiceInv, TypeOK

\* Comparing with the current report.
LEMMA CheckInv == ASSUME ServiceInv, CheckStep PROVE ServiceInv'
<1>1. FlagsOK'
  BY DEF ServiceInv, TypeOK, FlagsOK, CheckStep, Return, envVars, queueVars, procVars, boardVars
<1>2. EnvironmentOK'
  BY DEF ServiceInv, TypeOK, EnvironmentOK, CheckStep, envVars, queueVars, procVars
<1>3. WorkerOK'
  <2>1. PreviousReport \in GenOrNone
    BY DEF ServiceInv, TypeOK, BoardOK, PreviousReport, GenOrNone, Report
  <2>. QED
    BY <2>1 DEF ServiceInv, TypeOK, WorkerOK, Steps, GenOrNone, CheckStep, Return
<1>4. BoardOK'
  BY DEF ServiceInv, TypeOK, BoardOK, CheckStep, boardVars, metricVars, gaugeVars
<1>5. PostureConsistent'
  BY DEF ServiceInv, PostureConsistent, CheckStep, boardVars
<1>6. DiffChain'
  BY DEF ServiceInv, DiffChain, Updating, CheckStep, Return, boardVars
<1>7. FailedRefreshVisible'
  BY DEF ServiceInv, FailedRefreshVisible, CheckStep
<1>8. GaugesTrackReport'
  BY DEF ServiceInv, GaugesTrackReport, CurrentGen, Updating, CheckStep, Return, boardVars,
     metricVars, gaugeVars
<1>9. WorkerInv'
  BY DEF ServiceInv, WorkerInv, CurrentGen, Updating, CheckStep, PreviousReport, Return,
     SameArtifact, boardVars, metricVars, gaugeVars
<1>. QED
  BY <1>1, <1>2, <1>3, <1>4, <1>5, <1>6, <1>7, <1>8, <1>9 DEF ServiceInv, TypeOK

\* Analysing: a result is numbered and linked to the report before it.
LEMMA AnalyzeInv == ASSUME ServiceInv, AnalyzeStep PROVE ServiceInv'
<1>1. FlagsOK'
  BY DEF ServiceInv, TypeOK, FlagsOK, AnalyzeStep, envVars, queueVars, procVars
<1>2. EnvironmentOK'
  BY DEF ServiceInv, TypeOK, EnvironmentOK, AnalyzeStep, envVars, queueVars, procVars
<1>3. WorkerOK'
  <2>1. path \in Paths /\ previous \in GenOrNone /\ published + 1 \in Nat
        /\ AttributedSource(loaded) \in {"default", "external"}
    BY DEF ServiceInv, TypeOK, WorkerOK, BoardOK, WorkerInv, AnalyzeStep, AttributedSource
  <2>2. result' \in Report \cup {None}
    BY <2>1 DEF ServiceInv, TypeOK, WorkerOK, AnalyzeStep, Report, GenOrNone
  <2>. QED
    BY <2>1, <2>2 DEF ServiceInv, TypeOK, WorkerOK, AnalyzeStep, Fail, Steps, Errors
<1>4. BoardOK'
  <2>1. outcomes \in [success : Nat, error : 0 .. ErrorCap] /\ published \in Nat
    BY DEF ServiceInv, TypeOK, BoardOK
  <2>2. outcomes' \in [success : Nat, error : 0 .. ErrorCap]
    BY <2>1 DEF AnalyzeStep, recordOutcome
  <2>3. published' \in Nat
    BY <2>1 DEF AnalyzeStep
  <2>. QED
    BY <2>2, <2>3 DEF ServiceInv, TypeOK, BoardOK, AnalyzeStep, gaugeVars
<1>5. PostureConsistent'
  BY DEF ServiceInv, PostureConsistent, AnalyzeStep
<1>6. DiffChain'
  BY DEF ServiceInv, DiffChain, WorkerInv, CurrentGen, Updating, AnalyzeStep, Fail
<1>7. FailedRefreshVisible'
  BY DEF ServiceInv, FailedRefreshVisible, AnalyzeStep
<1>8. GaugesTrackReport'
  <2>1. outcomes'.success = IF pc' = "age" THEN outcomes.success + 1 ELSE outcomes.success
    <3>1. outcomes \in [success : Nat, error : 0 .. ErrorCap]
      BY DEF ServiceInv, TypeOK, BoardOK
    <3>. QED
      BY <3>1 DEF AnalyzeStep, Fail, recordOutcome
  <2>2. gaugeVars' = gaugeVars /\ current' = current /\ pc = "analyze" /\ pc' \in {"fail", "age"}
    BY DEF AnalyzeStep, Fail
  <2>3. current # None => CurrentGen \in Nat
    BY DEF ServiceInv, TypeOK, BoardOK, CurrentGen, Report
  <2>. QED
    BY <2>1, <2>2, <2>3 DEF ServiceInv, GaugesTrackReport, CurrentGen, Updating, gaugeVars
<1>9. WorkerInv'
  <2>1. CASE pc' = "fail"
    BY <2>1 DEF ServiceInv, TypeOK, BoardOK, WorkerInv, Updating, Errors, AnalyzeStep, Fail,
       recordOutcome, gaugeVars
  <2>2. CASE pc' = "age"
    <3>1. /\ loaded \in Good
          /\ published' = published + 1
          /\ result' = [gen |-> published + 1, content |-> loaded, path |-> path,
                        prev |-> previous, source |-> AttributedSource(loaded)]
          /\ outcomes' = [outcomes EXCEPT !.success = @ + 1]
      BY <2>2 DEF AnalyzeStep, Fail, recordOutcome
    <3>2. result' # None /\ result'.gen = published' /\ result'.content = loaded /\ result'.path = path
      <4>1. result' \in Report
        <5>1. path \in Paths /\ previous \in GenOrNone /\ published + 1 \in Nat
              /\ AttributedSource(loaded) \in {"default", "external"}
          BY DEF ServiceInv, TypeOK, WorkerOK, BoardOK, WorkerInv, AnalyzeStep, AttributedSource
        <5>. QED
          BY <3>1, <5>1 DEF Report, GenOrNone
      <4>. QED
        BY <3>1, <4>1, NoneFacts
    <3>3. outcomes'.success = published'
      <4>1. outcomes \in [success : Nat, error : 0 .. ErrorCap] /\ outcomes.success = published
        BY DEF ServiceInv, TypeOK, BoardOK, WorkerInv
      <4>. QED
        BY <3>1, <4>1
    <3>. QED
      BY <2>2, <3>2, <3>3 DEF ServiceInv, GaugesTrackReport, WorkerInv, Updating, CurrentGen,
         AnalyzeStep, gaugeVars
  <2>. QED
    BY <2>1, <2>2 DEF AnalyzeStep, Fail
<1>. QED
  BY <1>1, <1>2, <1>3, <1>4, <1>5, <1>6, <1>7, <1>8, <1>9 DEF ServiceInv, TypeOK

\* The sets reach every vector, each once.
LEMMA SetOrderVisitsAll ==
  /\ \A i \in Vectors : SetOrder[i] \in Vectors
  /\ \A i, j \in Vectors : SetOrder[i] = SetOrder[j] => i = j
  /\ \A v \in Vectors : \E i \in Vectors : SetOrder[i] = v
<1>1. Vectors = {1, 2, 3, 4, 5, 6, 7, 8, 9}
  BY DEF Vectors
<1>2. /\ SetOrder[1] = 4 /\ SetOrder[2] = 5 /\ SetOrder[3] = 1 /\ SetOrder[4] = 3
      /\ SetOrder[5] = 2 /\ SetOrder[6] = 6 /\ SetOrder[7] = 7 /\ SetOrder[8] = 8
      /\ SetOrder[9] = 9
  BY DEF SetOrder
<1>3. \A i \in Vectors : SetOrder[i] \in Vectors
  BY <1>1, <1>2
<1>4. \A i, j \in Vectors : SetOrder[i] = SetOrder[j] => i = j
  BY <1>1, <1>2
<1>5. \A v \in Vectors : \E i \in Vectors : SetOrder[i] = v
  BY <1>1, <1>2
<1>. QED
  BY <1>3, <1>4, <1>5

\* The series of one report are all alike.
LEMMA SeriesFacts ==
  ASSUME NEW r \in Report \cup {None}, NEW v
  PROVE  /\ SeriesOf(r, v) \subseteq Nat
         /\ SeriesOf(r, v) \subseteq {IF r = None THEN None ELSE r.gen}
BY DEF SeriesOf, Report

\* A state in which all series come from g shows no two reports.
LEMMA OneReport ==
  ASSUME NEW f, NEW g, \A v \in Vectors : f[v] \subseteq {g}
  PROVE  \A v, w \in Vectors : \A x \in f[v], y \in f[w] : x = y
OBVIOUS

\* The model age gauge runs ahead of the vectors.
LEMMA AgeInv == ASSUME ServiceInv, SetModelAge PROVE ServiceInv'
<1>1. FlagsOK'
  BY DEF ServiceInv, TypeOK, FlagsOK, SetModelAge, envVars, queueVars, procVars, boardVars
<1>2. EnvironmentOK'
  BY DEF ServiceInv, TypeOK, EnvironmentOK, SetModelAge, envVars, queueVars, procVars
<1>3. WorkerOK'
  BY DEF ServiceInv, TypeOK, WorkerOK, Steps, SetModelAge, localVars
<1>5. PostureConsistent'
  BY DEF ServiceInv, PostureConsistent, SetModelAge, boardVars
<1>6. DiffChain'
  BY DEF ServiceInv, DiffChain, CurrentGen, Updating, SetModelAge, localVars, boardVars
<1>7. FailedRefreshVisible'
  BY DEF ServiceInv, FailedRefreshVisible, SetModelAge
<1>4. BoardOK'
  <2>1. result \in Report /\ modelAge' = result.gen /\ at' = 1
    BY DEF ServiceInv, TypeOK, WorkerOK, WorkerInv, Updating, SetModelAge
  <2>2. modelAge' \in GenOrNone /\ at' \in Vectors
    BY <2>1 DEF Report, GenOrNone, Vectors
  <2>. QED
    BY <2>2 DEF ServiceInv, TypeOK, BoardOK, SetModelAge, boardVars
<1>8. GaugesTrackReport'
  BY DEF ServiceInv, GaugesTrackReport, CurrentGen, Updating, SetModelAge, boardVars
<1>9. WorkerInv'
  BY DEF ServiceInv, WorkerInv, Updating, SetModelAge, Vectors, boardVars, localVars
<1>. QED
  BY <1>1, <1>2, <1>3, <1>4, <1>5, <1>6, <1>7, <1>8, <1>9 DEF ServiceInv, TypeOK

\* One more vector is emptied, at last all of them.
LEMMA ResetInv == ASSUME ServiceInv, ResetGauges PROVE ServiceInv'
<1>1. FlagsOK'
  BY DEF ServiceInv, TypeOK, FlagsOK, ResetGauges, envVars, queueVars, procVars, boardVars
<1>2. EnvironmentOK'
  BY DEF ServiceInv, TypeOK, EnvironmentOK, ResetGauges, envVars, queueVars, procVars
<1>3. WorkerOK'
  BY DEF ServiceInv, TypeOK, WorkerOK, Steps, ResetGauges, localVars
<1>5. PostureConsistent'
  BY DEF ServiceInv, PostureConsistent, ResetGauges, boardVars
<1>6. DiffChain'
  BY DEF ServiceInv, DiffChain, CurrentGen, Updating, ResetGauges, localVars, boardVars
<1>7. FailedRefreshVisible'
  BY DEF ServiceInv, FailedRefreshVisible, ResetGauges
<1> DEFINE Old(i, v) == IF v < i THEN {} ELSE SeriesOf(current, v)
<1>a. /\ at \in 1 .. 9 /\ gauges \in [Vectors -> SUBSET Nat] /\ modelAge = result.gen
      /\ \A v \in Vectors : gauges[v] = Old(at, v)
  BY DEF ServiceInv, TypeOK, BoardOK, WorkerInv, ResetGauges, Vectors
<1>b. gauges' \in [Vectors -> SUBSET Nat] /\ \A v \in Vectors : gauges'[v] = Old(at + 1, v)
  <2>1. gauges' = [gauges EXCEPT ![at] = {}] /\ at \in Vectors
    BY <1>a DEF ResetGauges, Reset, Vectors
  <2>2. gauges' \in [Vectors -> SUBSET Nat]
    BY <1>a, <2>1
  <2>3. ASSUME NEW v \in Vectors PROVE gauges'[v] = Old(at + 1, v)
    <3>1. gauges'[v] = IF v = at THEN {} ELSE gauges[v]
      BY <1>a, <2>1
    <3>2. v < at + 1 <=> v < at \/ v = at
      BY <1>a DEF Vectors
    <3>. QED
      BY <1>a, <3>1, <3>2
  <2>. QED
    BY <2>2, <2>3
<1>c. /\ pc = "reset" /\ pc' \in {"reset", "set"} /\ at' \in 1 .. 9
      /\ pc' = "reset" => at' = at + 1
      /\ pc' = "set" => at = 9 /\ at' = 1
      /\ UNCHANGED <<current, result, modelAge, outcomes, published, booted, path, loaded,
                     failure, previous>>
  BY <1>a DEF ResetGauges, boardVars, localVars
<1>d. \A v \in Vectors : gauges'[v] \subseteq {CurrentGen}
  BY <1>b, SeriesFacts DEF ServiceInv, TypeOK, BoardOK, CurrentGen
<1>e. pc' = "set" => \A v \in Vectors : gauges'[v] = {}
  BY <1>b, <1>c DEF Vectors
<1>4. BoardOK'
  BY <1>b, <1>c DEF ServiceInv, TypeOK, BoardOK, ResetGauges, Vectors, boardVars
<1>8. GaugesTrackReport'
  <2>1. \A v, w \in Vectors : \A g \in gauges'[v], h \in gauges'[w] : g = h
    BY <1>d, OneReport
  <2>2. outcomes'.success = IF current' = None THEN 1 ELSE CurrentGen' + 1
    BY <1>c DEF ServiceInv, GaugesTrackReport, Updating, CurrentGen
  <2>. QED
    BY <1>c, <1>e, <2>1, <2>2 DEF GaugesTrackReport, Updating
<1>9. WorkerInv'
  <2>1. pc' = "reset" =>
          \A v \in Vectors : gauges'[v] = IF pc' = "reset" /\ v < at' THEN {} ELSE SeriesOf(current', v)
    BY <1>b, <1>c
  <2>2. pc' = "set" => \A i \in Vectors :
          gauges'[SetOrder[i]] = IF i < at' THEN SeriesOf(result', SetOrder[i]) ELSE {}
    <3>1. \A i \in Vectors : ~(i < 1)
      BY DEF Vectors
    <3>2. \A i \in Vectors : SetOrder[i] \in Vectors
      BY SetOrderVisitsAll
    <3>3. ASSUME pc' = "set", NEW i \in Vectors
          PROVE  gauges'[SetOrder[i]] = {} /\ ~(i < at')
      <4>1. at' = 1
        BY <1>c, <3>3
      <4>2. SetOrder[i] \in Vectors
        BY <3>2
      <4>3. gauges'[SetOrder[i]] = {}
        BY <1>e, <3>3, <4>2
      <4>. QED
        BY <3>1, <4>1, <4>3
    <3>. HIDE DEF Old
    <3>. QED
      BY <3>3
  <2>3. modelAge' = result'.gen
    BY <1>a, <1>c
  <2>. HIDE DEF Old
  <2>. QED
    BY <1>c, <2>1, <2>2, <2>3 DEF ServiceInv, WorkerInv, Updating
<1>. QED
  BY <1>1, <1>2, <1>3, <1>4, <1>5, <1>6, <1>7, <1>8, <1>9 DEF ServiceInv, TypeOK

\* One more vector is filled, at last all of them.
LEMMA SetInv == ASSUME ServiceInv, SetGauges PROVE ServiceInv'
<1>1. FlagsOK'
  BY DEF ServiceInv, TypeOK, FlagsOK, SetGauges, envVars, queueVars, procVars, boardVars
<1>2. EnvironmentOK'
  BY DEF ServiceInv, TypeOK, EnvironmentOK, SetGauges, envVars, queueVars, procVars
<1>3. WorkerOK'
  BY DEF ServiceInv, TypeOK, WorkerOK, Steps, SetGauges, localVars
<1>5. PostureConsistent'
  BY DEF ServiceInv, PostureConsistent, SetGauges, boardVars
<1>6. DiffChain'
  BY DEF ServiceInv, DiffChain, CurrentGen, Updating, SetGauges, localVars, boardVars
<1>7. FailedRefreshVisible'
  BY DEF ServiceInv, FailedRefreshVisible, SetGauges
<1> DEFINE New(i, v) == IF i < v THEN SeriesOf(result, SetOrder[i]) ELSE {}
<1>a. /\ at \in 1 .. 9 /\ gauges \in [Vectors -> SUBSET Nat] /\ modelAge = result.gen
      /\ result \in Report
      /\ \A i \in Vectors : gauges[SetOrder[i]] = New(i, at)
  BY DEF ServiceInv, TypeOK, WorkerOK, BoardOK, WorkerInv, Updating, SetGauges, Vectors
<1>b. /\ \A v \in Vectors : SeriesOf(result, v) \subseteq Nat
      /\ \A v \in Vectors : SeriesOf(result, v) \subseteq {result.gen}
  BY <1>a, SeriesFacts, NoneFacts
<1>c. /\ pc = "set" /\ pc' \in {"set", "publish"} /\ at' \in 1 .. 9
      /\ pc' = "set" => at' = at + 1
      /\ pc' = "publish" => at = 9
      /\ UNCHANGED <<current, result, modelAge, outcomes, published, booted, path, loaded,
                     failure, previous>>
  BY <1>a DEF SetGauges, boardVars, localVars
<1>d. /\ gauges' \in [Vectors -> SUBSET Nat]
      /\ \A i \in Vectors : gauges'[SetOrder[i]] = New(i, at + 1)
  <2>1. gauges' = [gauges EXCEPT ![SetOrder[at]] = gauges[SetOrder[at]] \cup SeriesOf(result, SetOrder[at])]
    BY DEF SetGauges
  <2>2. SetOrder[at] \in Vectors /\ at \in Vectors
    BY <1>a, SetOrderVisitsAll DEF Vectors
  <2>3. gauges' \in [Vectors -> SUBSET Nat]
    BY <1>a, <1>b, <2>1, <2>2
  <2>4. ASSUME NEW i \in Vectors PROVE gauges'[SetOrder[i]] = New(i, at + 1)
    <3>1. SetOrder[i] \in Vectors
      BY SetOrderVisitsAll
    <3>2. CASE i = at
      <4>1. gauges[SetOrder[at]] = {}
        BY <1>a, <2>2
      <4>. QED
        BY <1>a, <2>1, <2>2, <3>2, <4>1
    <3>3. CASE i # at
      <4>1. SetOrder[i] # SetOrder[at]
        BY <2>2, <3>3, SetOrderVisitsAll
      <4>2. i < at <=> i < at + 1
        BY <1>a, <3>3 DEF Vectors
      <4>. QED
        BY <1>a, <2>1, <2>2, <3>1, <4>1, <4>2
    <3>. QED
      BY <3>2, <3>3
  <2>. QED
    BY <2>3, <2>4
<1>e. ASSUME NEW v \in Vectors
      PROVE  gauges'[v] \subseteq {result.gen} /\ (pc' = "publish" => gauges'[v] = SeriesOf(result, v))
  <2>1. PICK i \in Vectors : SetOrder[i] = v
    BY SetOrderVisitsAll
  <2>. QED
    BY <1>b, <1>c, <1>d, <2>1 DEF Vectors
<1>4. BoardOK'
  BY <1>c, <1>d DEF ServiceInv, TypeOK, BoardOK, SetGauges, Vectors, boardVars
<1>8. GaugesTrackReport'
  <2>1. \A v, w \in Vectors : \A g \in gauges'[v], h \in gauges'[w] : g = h
    BY <1>e, OneReport
  <2>2. outcomes'.success = IF current' = None THEN 1 ELSE CurrentGen' + 1
    BY <1>c DEF ServiceInv, GaugesTrackReport, Updating, CurrentGen
  <2>. QED
    BY <1>a, <1>c, <1>e, <2>1, <2>2 DEF GaugesTrackReport, Updating
<1>9. WorkerInv'
  <2>1. pc' = "set" => \A i \in Vectors :
          gauges'[SetOrder[i]] = IF i < at' THEN SeriesOf(result', SetOrder[i]) ELSE {}
    BY <1>c, <1>d
  <2>2. pc' = "publish" => \A v \in Vectors : gauges'[v] = SeriesOf(result', v)
    BY <1>c, <1>e
  <2>3. modelAge' = result'.gen
    BY <1>a, <1>c
  <2>. HIDE DEF New
  <2>. QED
    BY <1>c, <2>1, <2>2, <2>3 DEF ServiceInv, WorkerInv, Updating
<1>. QED
  BY <1>1, <1>2, <1>3, <1>4, <1>5, <1>6, <1>7, <1>8, <1>9 DEF ServiceInv, TypeOK

\* Recording a failure.
LEMMA SetErrorInv == ASSUME ServiceInv, setError PROVE ServiceInv'
<1>1. FlagsOK'
  BY DEF ServiceInv, TypeOK, FlagsOK, setError, Return, envVars, queueVars, procVars, boardVars
<1>2. EnvironmentOK'
  BY DEF ServiceInv, TypeOK, EnvironmentOK, setError, envVars, queueVars, procVars
<1>3. WorkerOK'
  BY DEF ServiceInv, TypeOK, WorkerOK, Steps, GenOrNone, setError, Return
<1>4. BoardOK'
  BY DEF ServiceInv, TypeOK, WorkerOK, BoardOK, setError, boardVars, metricVars, gaugeVars
<1>5. PostureConsistent'
  BY DEF ServiceInv, PostureConsistent, setError, boardVars
<1>6. DiffChain'
  BY DEF ServiceInv, DiffChain, Updating, setError, Return, boardVars
<1>7. FailedRefreshVisible'
  BY DEF ServiceInv, FailedRefreshVisible, WorkerInv, setError
<1>8. GaugesTrackReport'
  BY DEF ServiceInv, GaugesTrackReport, CurrentGen, Updating, setError, Return, boardVars,
     metricVars, gaugeVars
<1>9. WorkerInv'
  BY DEF ServiceInv, WorkerInv, Updating, setError, Return, boardVars, metricVars, gaugeVars
<1>. QED
  BY <1>1, <1>2, <1>3, <1>4, <1>5, <1>6, <1>7, <1>8, <1>9 DEF ServiceInv, TypeOK

\* Publishing: the history grows by the result and keeps its newest entries.
LEMMA PublishInv == ASSUME ServiceInv, PublishStep PROVE ServiceInv'
<1>1. result \in Report /\ Len(history) <= MaxItems /\ history \in Seq(Report)
  BY DEF ServiceInv, TypeOK, WorkerOK, BoardOK, PostureConsistent, WorkerInv, Updating,
     PublishStep
<1>2. NewestOf(history', history, result)
  BY <1>1, TrimmedAppend DEF PublishStep
<1>3. FlagsOK'
  BY DEF ServiceInv, TypeOK, FlagsOK, PublishStep, Return, envVars, queueVars, procVars
<1>4. EnvironmentOK'
  BY DEF ServiceInv, TypeOK, EnvironmentOK, PublishStep, envVars, queueVars, procVars
<1>5. WorkerOK'
  BY DEF ServiceInv, TypeOK, WorkerOK, Steps, GenOrNone, PublishStep, Return
<1>6. BoardOK'
  BY <1>1, <1>2 DEF NewestOf, ServiceInv, TypeOK, BoardOK, PublishStep, metricVars, gaugeVars
<1>7. PostureConsistent'
  BY <1>1, <1>2 DEF NewestOf, PostureConsistent, PublishStep
<1>8. DiffChain'
  <2>1. pc' \in {"arm", "loop"}
    BY DEF PublishStep, Return
  <2>2. ASSUME NEW i \in 1 .. Len(history') - 1
        PROVE  history'[i + 1].prev = history'[i].gen
    <3> DEFINE k == Len(history) + 1 - Len(history')
    <3>1. k \in Int /\ Len(history) \in Nat /\ Len(history') \in Nat
      BY <1>1, <1>2
    <3>2. k + i \in 1 .. Len(history) /\ history'[i] = history[k + i]
      BY <1>2 DEF NewestOf
    <3>3. CASE i = Len(history') - 1
      <4>1. history'[i + 1] = result /\ history'[i] = history[Len(history)] /\ history # << >>
        BY <1>2, <3>1, <3>2, <3>3 DEF NewestOf
      <4>2. current # None /\ history[Len(history)] = current
        BY <4>1 DEF ServiceInv, PostureConsistent
      <4>. QED
        BY <4>1, <4>2 DEF ServiceInv, DiffChain, Updating, CurrentGen, PublishStep
    <3>4. CASE i < Len(history') - 1
      <4>1. i + 1 \in 1 .. Len(history') - 1 /\ k + i \in 1 .. Len(history) - 1
        BY <3>1, <3>2, <3>4
      <4>2. history'[i + 1] = history[k + (i + 1)]
        BY <1>2, <4>1 DEF NewestOf
      <4>3. history[(k + i) + 1].prev = history[k + i].gen
        BY <4>1 DEF ServiceInv, DiffChain
      <4>. QED
        BY <3>1, <3>2, <4>2, <4>3
    <3>. QED
      BY <3>1, <3>3, <3>4
  <2>. QED
    BY <2>1, <2>2 DEF DiffChain, Updating
<1>9. FailedRefreshVisible'
  BY DEF PublishStep, FailedRefreshVisible
<1>10. GaugesTrackReport' /\ WorkerInv'
  <2>1. /\ outcomes'.success = result.gen /\ published' = result.gen /\ modelAge' = result.gen
        /\ \A v \in Vectors : gauges'[v] = SeriesOf(result, v)
    BY DEF ServiceInv, WorkerInv, Updating, PublishStep, metricVars, gaugeVars
  <2>2. current' = result /\ current' # None /\ booted' = TRUE /\ pc' \in {"arm", "loop"}
    BY <1>1 DEF PublishStep, Return
  <2>3. \A v \in Vectors : gauges'[v] \subseteq {result.gen}
    BY <1>1, <2>1, NoneFacts, SeriesFacts
  <2>4. \A v, w \in Vectors : \A g \in gauges'[v], h \in gauges'[w] : g = h
    BY <2>3, OneReport
  <2>. QED
    BY <2>1, <2>2, <2>3, <2>4 DEF GaugesTrackReport, WorkerInv, Updating, CurrentGen
<1>. QED
  BY <1>3, <1>4, <1>5, <1>6, <1>7, <1>8, <1>9, <1>10 DEF ServiceInv, TypeOK

\* Every step preserves the invariant.
LEMMA NextInv == ServiceInv /\ [Next]_vars => ServiceInv'
<1> SUFFICES ASSUME ServiceInv, [Next]_vars PROVE ServiceInv'
  OBVIOUS
<1>1. CASE Environment
  BY <1>1, EnvironmentInv, EndInv DEF Environment
<1>2. CASE Recompute
  BY <1>2, ResolveInv, LoadInv, CheckInv, AnalyzeInv, AgeInv, ResetInv, SetInv, PublishInv,
     SetErrorInv DEF Recompute
<1>3. CASE WatchLoop
  BY <1>3, WatchLoopInv DEF WatchLoop
<1>4. CASE UNCHANGED vars
  BY <1>4 DEF ServiceInv, TypeOK, FlagsOK, EnvironmentOK, WorkerOK, BoardOK, PostureConsistent,
     DiffChain, FailedRefreshVisible, GaugesTrackReport, WorkerInv, Updating, CurrentGen,
     vars, envVars, queueVars, procVars, localVars, boardVars, metricVars, gaugeVars
<1>. QED
  BY <1>1, <1>2, <1>3, <1>4 DEF Next

-----------------------------------------------------------------------------
(* The theorems.                                                           *)

\* The inductive invariant holds in every reachable state of the service.
THEOREM ServiceInvariant == Spec => []ServiceInv
<1>. QED
  BY InitInv, NextInv, PTL DEF Spec

\* Type correctness: in particular every served report describes an artifact
\* that loaded and analysed.
THEOREM TypeCorrect == Spec => []TypeOK
<1>1. ServiceInv => TypeOK
  BY DEF ServiceInv
<1>. QED
  BY <1>1, ServiceInvariant, PTL

\* Readiness, the current report and the bounded history always agree.
THEOREM PostureAlwaysConsistent == Spec => []PostureConsistent
<1>1. ServiceInv => PostureConsistent
  BY DEF ServiceInv
<1>. QED
  BY <1>1, ServiceInvariant, PTL

\* Every report is diffed against the report it replaces.
THEOREM DiffsFormAChain == Spec => []DiffChain
<1>1. ServiceInv => DiffChain
  BY DEF ServiceInv
<1>. QED
  BY <1>1, ServiceInvariant, PTL

\* The label vectors, reset and set one by one without the lock, never hold
\* series of two reports; the model age gauge is ahead of them only until the
\* last reset; outside of an update all agree with the current report.
THEOREM GaugesNeverMix == Spec => []GaugesTrackReport
<1>1. ServiceInv => GaugesTrackReport
  BY DEF ServiceInv
<1>. QED
  BY <1>1, ServiceInvariant, PTL

\* A failed refresh stays visible in /status until a refresh succeeds.
THEOREM FailuresStayVisible == Spec => []FailedRefreshVisible
<1>1. ServiceInv => FailedRefreshVisible
  BY DEF ServiceInv
<1>. QED
  BY <1>1, ServiceInvariant, PTL

-----------------------------------------------------------------------------
(* Refinement.                                                             *)

\* Publishing posts the result on the board.
LEMMA PublishPosts == ASSUME ServiceInv, PublishStep PROVE Board!Post
<1>1. result \in Report /\ current' = result
  BY DEF ServiceInv, TypeOK, WorkerOK, WorkerInv, Updating, PublishStep
<1>2. Board!Follows(result, current)
  <2>1. CASE current = None
    BY <2>1 DEF Board!Follows, ServiceInv, DiffChain, Updating, CurrentGen, PublishStep
  <2>2. CASE current # None
    <3>1. result.prev = current.gen
      BY <2>2 DEF ServiceInv, DiffChain, Updating, CurrentGen, PublishStep
    <3>2. result.gen = current.gen + 1
      BY <2>2 DEF ServiceInv, GaugesTrackReport, CurrentGen, WorkerInv, Updating, PublishStep
    <3>3. result.content # current.content \/ result.path # current.path
      BY <2>2 DEF ServiceInv, WorkerInv, Updating, PublishStep
    <3>. QED
      BY <2>2, <3>1, <3>2, <3>3 DEF Board!Follows
  <2>. QED
    BY <2>1, <2>2
<1>3. history' = Board!Newest(Append(history, current'))
  BY <1>1 DEF PublishStep, Trimmed, Board!Newest
<1>. QED
  BY <1>1, <1>2, <1>3 DEF Board!Post

\* Every other step leaves the board alone, except the end of the process, which clears it.
LEMMA StepImplementsBoard ==
  ServiceInv /\ [Next]_vars => [Board!Next]_(Board!boardVars)
<1> SUFFICES ASSUME ServiceInv, [Next]_vars PROVE [Board!Next]_(Board!boardVars)
  OBVIOUS
<1>1. CASE PublishStep
  BY <1>1, PublishPosts DEF Board!Next
<1>2. CASE ProcessEnds
  BY <1>2 DEF ProcessEnds, Board!Next, Board!Lose
<1>3. CASE UNCHANGED <<current, history>>
  BY <1>3 DEF Board!boardVars
<1>4. PublishStep \/ ProcessEnds \/ UNCHANGED <<current, history>>
  BY DEF Next, vars, boardVars, Environment, WriteArtifact, WriteSideFiles, Cancel, Restart,
     Recompute, ResolveStep, LoadStep, CheckStep, AnalyzeStep, SetModelAge, ResetGauges,
     SetGauges, setError, WatchLoop, ArmWatcher, Tick, FileEvent, WatchError, LoopDone
<1>. QED
  BY <1>1, <1>2, <1>3, <1>4

\* The service implements the posture board.
THEOREM ServiceImplementsBoard == Spec => ImplementsBoard
<1>1. Init => Board!Init
  BY DEF Init, Board!Init
<1>. QED
  BY <1>1, StepImplementsBoard, ServiceInvariant, PTL DEF Spec, Board!Spec, ImplementsBoard
=============================================================================
