---------------------------- MODULE SheaftService ----------------------------
(***************************************************************************)
(* Service mode (`sheaft serve`): internal/service/service.go and the      *)
(* gauges of internal/service/metrics.go.                                  *)
(*                                                                         *)
(* One goroutine at a time recomputes posture: Run does so once, forced,   *)
(* before it starts the HTTP server and the watch loop; from then on only  *)
(* the watch loop calls recomputeIfChanged.  `pc' is the program counter   *)
(* of that goroutine.  A producer rewrites the watched artifact at any     *)
(* moment, the kernel queues file notifications, scrapers read the gauges  *)
(* without a lock, and the process may be cancelled, crash and restart.    *)
(* HTTP handlers only read, so they are state functions, not actions.      *)
(***************************************************************************)
EXTENDS Naturals, Sequences

CONSTANTS
  Paths,        \* artifact paths that match the patterns; their order is < on Nat
  FilePath,     \* the configured path in file and auto mode
  Good,         \* contents that load and analyse
  Refused,      \* contents the contract policy refuses (AnalyzeLoaded's first error)
  Rejected,     \* contents whose simulation or gate evaluation fails
  Broken,       \* contents artifact.Load cannot decode: torn or invalid files
  Annotated,    \* contents that carry service or edge reliability evidence
  Mode,         \* artifact.mode: "file", "auto" (over a file path) or "directory"
  WatchFS,      \* watch_fs
  WatchPolling, \* watch_polling
  MaxItems,     \* history.max_items
  EventCap,     \* capacity of the kernel notification queue
  ErrorCap,     \* saturation of the error counter (bound)
  MaxWrites,    \* producer and contract-file writes (bound)
  MaxTime,      \* modification times are 0..MaxTime (bound)
  MaxRestarts,  \* crashes or shutdowns followed by a restart (bound)
  Absent,       \* the content of a missing file
  None,         \* nil
  Baselines     \* the analysis names baselines, so reports carry baseline gaps

Loadable == Good \cup Refused \cup Rejected
Contents == Loadable \cup Broken

(* Data.                                                                   *)

Missing == [content |-> Absent, mtime |-> 0]
File == [content : Contents, mtime : 0 .. MaxTime] \cup {Missing}

\* A report keeps the artifact it describes (digest and path), the report its
\* previous-diff was computed against, and the source it gives for the
\* reliability parameter.  `gen' identifies the report.
Report == [gen : Nat, content : Good, path : Paths, prev : Nat \cup {None},
           source : {"default", "external"}]

Errors == {"resolve", "load", "analyze", "watch", "overflow"}

Steps == {"resolve", "load", "check", "analyze", "age", "reset", "set",
          "publish", "fail", "arm", "loop", "done"}

GenOrNone == Nat \cup {None}

\* The label vectors, numbered in the order updateCurrent resets them: profile
\* aggregates, endpoint availability, endpoints below threshold, model info,
\* topology version, previous gap (signed, absolute), baseline gap (signed,
\* absolute).
Vectors      == 1 .. 9
PreviousGaps == {6, 7}
BaselineGaps == {8, 9}

\* The order in which updateCurrent first sets a series of each vector.
SetOrder == <<4, 5, 1, 3, 2, 6, 7, 8, 9>>

\* A vector is described by the reports that its series were set from.
NoGauges == [v \in Vectors |-> {}]

ASSUME ConstantsAssumption ==
  /\ Paths \subseteq Nat /\ FilePath \in Paths
  /\ Good \cap (Refused \cup Rejected \cup Broken) = {}
  /\ Loadable \cap Broken = {}
  /\ Annotated \subseteq Loadable
  /\ Absent \notin Contents /\ None \notin Contents \cup Errors \cup Nat \cup Report
  /\ Mode \in {"file", "auto", "directory"}
  /\ WatchFS \in BOOLEAN /\ WatchPolling \in BOOLEAN /\ Baselines \in BOOLEAN
  /\ MaxItems \in Nat \ {0}
  /\ EventCap \in Nat \ {0} /\ ErrorCap \in Nat \ {0}
  /\ MaxWrites \in Nat /\ MaxTime \in Nat /\ MaxRestarts \in Nat

VARIABLES
  \* the environment
  fs,          \* path -> content and modification time
  sideFiles,   \* the predicate, fault, journey and baseline files are readable
  writes,      \* writes so far
  events,      \* notifications queued on the watcher
  overflow,    \* an overflow error is queued on watcher.Errors
  \* the process
  proc,        \* "up" or "down"
  ctxDone,     \* the context of Run is cancelled
  restarts,
  \* the goroutine that recomputes
  pc,
  booted,      \* the initial forced recompute is over
  armed,       \* the watcher is receiving notifications
  path, loaded, previous, result, failure,
  \* the service
  sources,     \* cfg.Sources.Profiles[...].Reliability, a map shared by every analysis
  ready, lastError, current, history,
  gauges,      \* vector -> reports some of its series were set from
  modelAge,    \* the report that the model age gauge was set from
  at,          \* position of updateCurrent in its resets, then in its sets
  outcomes,
  \* history variables
  published,   \* reports produced by this process
  lastAttempt, \* how the last recomputeIfChanged ended
  missed       \* a change since the last load that no notification announces

envVars    == <<fs, sideFiles, writes>>
queueVars  == <<events, overflow>>
procVars   == <<proc, ctxDone, restarts>>
localVars  == <<path, loaded, previous, result, failure>>
boardVars  == <<ready, current, history, published>>
gaugeVars  == <<gauges, modelAge, at>>
metricVars == <<gaugeVars, outcomes>>
vars == <<envVars, queueVars, procVars, pc, booted, armed, localVars, sources,
          boardVars, lastError, metricVars, lastAttempt, missed>>

-----------------------------------------------------------------------------
(* The artifact locator.                                                   *)

Present(f) == {p \in Paths : f[p].content # Absent}

\* Mutant: the greatest name wins, whatever its age.
GreaterName(f, p, q) == p > q

\* resolveDirectory keeps the newest file, the greater path among equals.
Newer(f, p, q) ==
  \/ f[p].mtime > f[q].mtime
  \/ f[p].mtime = f[q].mtime /\ p > q

resolveDirectory(f) == {p \in Present(f) : \A q \in Present(f) \ {p} : Newer(f, p, q)}

\* The path Resolve returns, as a set that is empty when it returns an error.
\* File mode returns the configured path without looking at it; auto mode
\* stats it first.
Resolve(f) ==
  CASE Mode = "file"      -> {FilePath}
    [] Mode = "auto"      -> {FilePath} \cap Present(f)
    [] Mode = "directory" -> resolveDirectory(f)

-----------------------------------------------------------------------------
(* What the HTTP handlers answer; each takes the read lock once.           *)

CurrentStatus ==
  [ready |-> ready, lastError |-> lastError, historySize |-> Len(history),
   artifact |-> IF current = None THEN None ELSE current.content]

handleReadyz == [code |-> IF CurrentStatus.ready THEN 200 ELSE 503, body |-> CurrentStatus]

handleCurrentReport ==
  IF current = None THEN [code |-> 503, body |-> None] ELSE [code |-> 200, body |-> current]

-----------------------------------------------------------------------------
(* Starting and stopping.                                                  *)

Init ==
  /\ fs \in [Paths -> File]
  /\ sideFiles \in BOOLEAN
  /\ writes = 0
  /\ events = 0 /\ overflow = FALSE
  /\ proc = "up" /\ ctxDone = FALSE /\ restarts = 0
  /\ pc = "resolve" /\ booted = FALSE /\ armed = FALSE /\ missed = FALSE
  /\ path = None /\ loaded = None /\ previous = None /\ result = None /\ failure = None
  /\ ready = FALSE /\ current = None /\ history = << >> /\ lastError = None
  /\ gauges = NoGauges /\ modelAge = None /\ at = 1 /\ outcomes = [success |-> 0, error |-> 0]
  /\ published = 0 /\ sources = "default" /\ lastAttempt = "none"

\* SIGINT cancels the context that Run and the watch loop share.
Cancel ==
  /\ proc = "up" /\ ~ctxDone
  /\ ctxDone' = TRUE
  /\ UNCHANGED <<envVars, queueVars, proc, restarts, pc, booted, armed, localVars, sources,
                 boardVars, lastError, metricVars, lastAttempt, missed>>

\* Run returns when its context is done, or when ListenAndServe fails, without
\* waiting for the watch loop; a crash ends the process at any step.  Its memory
\* is gone, and newWithDeps reads nothing back from the on-disk history.
ProcessEnds ==
  /\ proc = "up"
  /\ proc' = "down" /\ ctxDone' = FALSE
  /\ events' = 0 /\ overflow' = FALSE
  /\ pc' = "resolve" /\ booted' = FALSE /\ armed' = FALSE /\ missed' = FALSE
  /\ path' = None /\ loaded' = None /\ previous' = None /\ result' = None /\ failure' = None
  /\ ready' = FALSE /\ current' = None /\ history' = << >> /\ lastError' = None
  /\ gauges' = NoGauges /\ modelAge' = None /\ at' = 1 /\ outcomes' = [success |-> 0, error |-> 0]
  /\ published' = 0 /\ sources' = "default" /\ lastAttempt' = "none"
  /\ UNCHANGED <<envVars, restarts>>

\* newWithDeps, then Run.
Restart ==
  /\ proc = "down" /\ restarts < MaxRestarts
  /\ proc' = "up" /\ restarts' = restarts + 1
  /\ UNCHANGED <<envVars, queueVars, ctxDone, pc, booted, armed, localVars, sources,
                 boardVars, lastError, metricVars, lastAttempt, missed>>

-----------------------------------------------------------------------------
(* The environment: the artifact producer and the kernel queue.            *)

\* inotify queues an event for the watched directory, or drops it and queues
\* one overflow error.
Notify ==
  /\ events'   = IF armed /\ events < EventCap THEN events + 1 ELSE events
  /\ overflow' = (overflow \/ (armed /\ events = EventCap))

\* A file is created, rewritten (with Broken: not yet completely), or removed;
\* its modification time may be older than that of other files.
WriteArtifact(p, file) ==
  /\ writes < MaxWrites
  /\ fs' = [fs EXCEPT ![p] = file]
  /\ writes' = writes + 1
  /\ Notify
  /\ missed' = (missed \/ (~armed /\ pc # "resolve"))
  /\ UNCHANGED <<sideFiles, procVars, pc, booted, armed, localVars, sources,
                 boardVars, lastError, metricVars, lastAttempt>>

\* A contract or baseline file appears, breaks or is repaired.  These are read
\* by every analysis and watched by nothing.
WriteSideFiles ==
  /\ writes < MaxWrites
  /\ sideFiles' = ~sideFiles
  /\ writes' = writes + 1
  /\ missed' = TRUE
  /\ UNCHANGED <<fs, queueVars, procVars, pc, booted, armed, localVars, sources,
                 boardVars, lastError, metricVars, lastAttempt>>

-----------------------------------------------------------------------------
(* recomputeIfChanged, one action per step that others can interleave with. *)

\* Back in Run (which then starts the watch loop) or in the watch loop; the
\* locals are gone.
Return ==
  /\ pc' = IF booted THEN "loop" ELSE "arm"
  /\ booted' = TRUE
  /\ path' = None /\ loaded' = None /\ previous' = None /\ result' = None /\ failure' = None

recordOutcome(outcome) ==
  outcomes' = IF outcome = "success"
              THEN [outcomes EXCEPT !.success = @ + 1]
              ELSE [outcomes EXCEPT !.error = IF @ < ErrorCap THEN @ + 1 ELSE @]

\* Mutant: the caller returns on a load error without recording it.
FailUnlessLoad(err) ==
  IF err = "load" THEN pc' = "loop" /\ failure' = failure ELSE pc' = "fail" /\ failure' = err

Fail(err) == pc' = "fail" /\ failure' = err

\* Mutant: Load accepts whatever bytes it finds.
LoadsAnything(c) == c # Absent

\* artifact.Load decodes and validates the bytes it read.
Loads(c) == c \in Loadable

ResolveStep ==
  /\ proc = "up" /\ pc = "resolve"
  /\ \/ Resolve(fs) = {} /\ Fail("resolve") /\ UNCHANGED path
     \/ path' \in Resolve(fs) /\ pc' = "load" /\ UNCHANGED failure
  /\ UNCHANGED <<envVars, queueVars, procVars, booted, armed, loaded, previous, result,
                 sources, boardVars, lastError, metricVars, lastAttempt, missed>>

LoadStep ==
  /\ proc = "up" /\ pc = "load"
  /\ LET c == fs[path].content IN
       IF Loads(c)
       THEN loaded' = c /\ pc' = "check" /\ UNCHANGED <<failure, outcomes>>
       ELSE Fail("load") /\ recordOutcome("error") /\ UNCHANGED loaded
  /\ UNCHANGED <<envVars, queueVars, procVars, booted, armed, path, previous, result,
                 sources, boardVars, lastError, gaugeVars, lastAttempt, missed>>

\* Mutant: every trigger recomputes.
NeverSame == FALSE

\* The skip test; the initial recompute is forced.  An unchanged artifact
\* returns nil without touching lastError.
SameArtifact == booted /\ current # None /\ current.content = loaded /\ current.path = path

\* The report the next one is compared with, read under the read lock.
PreviousReport == IF current = None THEN None ELSE current.gen

CheckStep ==
  /\ proc = "up" /\ pc = "check"
  /\ IF SameArtifact
     THEN Return /\ lastAttempt' = "ok"
     ELSE /\ pc' = "analyze" /\ previous' = PreviousReport
          /\ UNCHANGED <<booted, lastAttempt, path, loaded, result, failure>>
  /\ UNCHANGED <<envVars, queueVars, procVars, armed, sources, boardVars, lastError,
                 metricVars, missed>>

\* AnalyzeLoaded.  The contract policy and the contract files come first; then
\* artifact reliability is merged, which rewrites the shared source map even
\* when the simulation, a baseline file or the gate fails afterwards.
AttributedSource(c) == IF c \in Annotated THEN "external" ELSE sources

AnalyzeStep ==
  /\ proc = "up" /\ pc = "analyze"
  /\ \/ /\ loaded \in Refused \/ ~sideFiles
        /\ Fail("analyze") /\ recordOutcome("error")
        /\ UNCHANGED <<sources, result, published>>
     \/ /\ loaded \in Rejected \/ (loaded \in Good /\ ~sideFiles)
        /\ sources' = AttributedSource(loaded)
        /\ Fail("analyze") /\ recordOutcome("error")
        /\ UNCHANGED <<result, published>>
     \/ /\ loaded \in Good /\ sideFiles
        /\ sources' = AttributedSource(loaded)
        /\ published' = published + 1
        /\ result' = [gen |-> published + 1, content |-> loaded, path |-> path,
                      prev |-> previous, source |-> AttributedSource(loaded)]
        /\ pc' = "age"
        /\ recordOutcome("success")
        /\ UNCHANGED failure
  /\ UNCHANGED <<envVars, queueVars, procVars, booted, armed, path, loaded, previous,
                 ready, current, history, lastError, gaugeVars, lastAttempt, missed>>

\* metrics.updateCurrent runs outside the mutex; every call it makes on a gauge
\* is a step that a scrape can see.  It first sets the model age, ...
SetModelAge ==
  /\ proc = "up" /\ pc = "age"
  /\ modelAge' = result.gen
  /\ pc' = "reset" /\ at' = 1
  /\ UNCHANGED <<envVars, queueVars, procVars, booted, armed, localVars, sources,
                 boardVars, lastError, gauges, outcomes, lastAttempt, missed>>

\* Mutant: the endpoint vector is not reset.
ResetNotEndpoints(v) == [gauges EXCEPT ![v] = IF v = 2 THEN @ ELSE {}]

Reset(v) == [gauges EXCEPT ![v] = {}]

\* ... then resets the vectors one after the other, ...
ResetGauges ==
  /\ proc = "up" /\ pc = "reset"
  /\ gauges' = Reset(at)
  /\ IF at < 9 THEN at' = at + 1 /\ pc' = pc ELSE at' = 1 /\ pc' = "set"
  /\ UNCHANGED <<envVars, queueVars, procVars, booted, armed, localVars, sources,
                 boardVars, lastError, modelAge, outcomes, lastAttempt, missed>>

\* The reports that the series of v come from when it is filled from rep alone:
\* the first report has no previous gap, and without baselines there are none
\* of theirs.
SeriesOf(rep, v) ==
  IF \/ rep = None
     \/ v \in PreviousGaps /\ rep.prev = None
     \/ v \in BaselineGaps /\ ~Baselines
  THEN {} ELSE {rep.gen}

\* ... then sets them series by series.  The later series of a vector, of other
\* profiles, endpoints and baselines, come from the same report as its first.
SetGauges ==
  /\ proc = "up" /\ pc = "set"
  /\ gauges' = [gauges EXCEPT ![SetOrder[at]] = @ \cup SeriesOf(result, SetOrder[at])]
  /\ IF at < 9 THEN at' = at + 1 /\ pc' = pc ELSE at' = 1 /\ pc' = "publish"
  /\ UNCHANGED <<envVars, queueVars, procVars, booted, armed, localVars, sources,
                 boardVars, lastError, modelAge, outcomes, lastAttempt, missed>>

\* Mutant: one report too many is kept.
TrimmedLate(h) ==
  IF Len(h) > MaxItems + 1 THEN SubSeq(h, Len(h) - MaxItems, Len(h)) ELSE h

Trimmed(h) == IF Len(h) > MaxItems THEN SubSeq(h, Len(h) - MaxItems + 1, Len(h)) ELSE h

\* The critical section under the write lock.  store.Save runs inside it, but
\* its result is discarded and nothing reads the files back.
PublishStep ==
  /\ proc = "up" /\ pc = "publish"
  /\ ready' = TRUE
  /\ lastError' = None
  /\ current' = result
  /\ history' = Trimmed(Append(history, result))
  /\ Return
  /\ lastAttempt' = "ok"
  /\ UNCHANGED <<envVars, queueVars, procVars, armed, sources, published, metricVars, missed>>

\* The caller's s.setError(err).
setError ==
  /\ proc = "up" /\ pc = "fail"
  /\ lastError' = failure
  /\ Return
  /\ lastAttempt' = "failed"
  /\ UNCHANGED <<envVars, queueVars, procVars, armed, sources, boardVars, metricVars, missed>>

-----------------------------------------------------------------------------
(* watchLoop.                                                              *)

\* Mutant: a failed watcher always ends the loop.
StopAfterWatcherFailure == "done"

\* A failed watcher ends the loop unless polling can carry on.
AfterWatcherFailure == IF WatchPolling THEN "loop" ELSE "done"

\* Watcher set-up: not wanted, succeeding, or failing.
ArmWatcher ==
  /\ proc = "up" /\ pc = "arm"
  /\ \/ ~WatchFS /\ pc' = "loop" /\ UNCHANGED <<armed, lastError>>
     \/ WatchFS /\ armed' = TRUE /\ pc' = "loop" /\ UNCHANGED lastError
     \/ /\ WatchFS
        /\ lastError' = "watch"
        /\ pc' = AfterWatcherFailure
        /\ UNCHANGED armed
  /\ UNCHANGED <<envVars, queueVars, procVars, booted, localVars, sources, boardVars,
                 metricVars, lastAttempt, missed>>

\* Mutant: a tick takes back the error before it retries.
TickClearsError ==
  /\ proc = "up" /\ pc = "loop" /\ WatchPolling
  /\ pc' = "resolve"
  /\ missed' = FALSE /\ lastError' = None
  /\ UNCHANGED <<envVars, queueVars, procVars, booted, armed, localVars, sources,
                 boardVars, metricVars, lastAttempt>>

Tick ==
  /\ proc = "up" /\ pc = "loop" /\ WatchPolling
  /\ pc' = "resolve"
  /\ missed' = FALSE
  /\ UNCHANGED <<envVars, queueVars, procVars, booted, armed, localVars, sources,
                 boardVars, lastError, metricVars, lastAttempt>>

FileEvent ==
  /\ proc = "up" /\ pc = "loop" /\ events > 0
  /\ events' = events - 1
  /\ pc' = "resolve"
  /\ missed' = FALSE
  /\ UNCHANGED <<envVars, overflow, procVars, booted, armed, localVars, sources,
                 boardVars, lastError, metricVars, lastAttempt>>

WatchError ==
  /\ proc = "up" /\ pc = "loop" /\ overflow
  /\ overflow' = FALSE
  /\ lastError' = "overflow"
  /\ UNCHANGED <<envVars, events, procVars, pc, booted, armed, localVars, sources,
                 boardVars, metricVars, lastAttempt, missed>>

\* Mutant: the context is looked at only when nothing else is ready.
DoneWhenIdle ==
  /\ proc = "up" /\ pc = "loop" /\ ctxDone /\ ~WatchPolling /\ events = 0 /\ ~overflow
  /\ pc' = "done"
  /\ armed' = FALSE
  /\ UNCHANGED <<envVars, queueVars, procVars, booted, localVars, sources, boardVars,
                 lastError, metricVars, lastAttempt, missed>>

\* The loop selects ctx.Done and closes its watcher.
LoopDone ==
  /\ proc = "up" /\ pc = "loop" /\ ctxDone
  /\ pc' = "done"
  /\ armed' = FALSE /\ events' = 0 /\ overflow' = FALSE
  /\ UNCHANGED <<envVars, procVars, booted, localVars, sources, boardVars, lastError,
                 metricVars, lastAttempt, missed>>

-----------------------------------------------------------------------------
Environment ==
  \/ \E p \in Paths, file \in File : WriteArtifact(p, file)
  \/ WriteSideFiles
  \/ Cancel
  \/ ProcessEnds
  \/ Restart

Recompute ==
  \/ ResolveStep \/ LoadStep \/ CheckStep \/ AnalyzeStep
  \/ SetModelAge \/ ResetGauges \/ SetGauges
  \/ PublishStep \/ setError

WatchLoop == ArmWatcher \/ Tick \/ FileEvent \/ WatchError \/ LoopDone

Next == Environment \/ Recompute \/ WatchLoop

\* The Go scheduler runs a runnable goroutine eventually; the ticker fires again
\* and again; a ready case of the select is eventually chosen (the choice among
\* ready cases is random, so each case is treated fairly on its own).
Fairness ==
  /\ WF_vars(Recompute)
  /\ WF_vars(ArmWatcher)
  /\ SF_vars(Tick) /\ SF_vars(FileEvent) /\ SF_vars(WatchError) /\ SF_vars(LoopDone)

Spec == Init /\ [][Next]_vars
FairSpec == Spec /\ Fairness

-----------------------------------------------------------------------------
(* Safety.                                                                 *)

FlagsOK ==
  {sideFiles, overflow, ctxDone, booted, armed, ready, missed} \subseteq BOOLEAN

EnvironmentOK ==
  /\ fs \in [Paths -> File] /\ writes \in 0 .. MaxWrites /\ events \in 0 .. EventCap
  /\ proc \in {"up", "down"} /\ restarts \in 0 .. MaxRestarts

WorkerOK ==
  /\ pc \in Steps
  /\ path \in Paths \cup {None} /\ loaded \in Loadable \cup {None}
  /\ previous \in GenOrNone /\ result \in Report \cup {None}
  /\ failure \in Errors \cup {None}
  /\ sources \in {"default", "external"}
  /\ lastAttempt \in {"none", "ok", "failed"}

BoardOK ==
  /\ lastError \in Errors \cup {None} /\ published \in Nat
  /\ current \in Report \cup {None} /\ history \in Seq(Report)
  /\ gauges \in [Vectors -> SUBSET Nat] /\ modelAge \in GenOrNone /\ at \in Vectors
  /\ outcomes \in [success : Nat, error : 0 .. ErrorCap]

\* The type invariant.  A served report describes an artifact that loaded and
\* analysed, whatever was read from the file in between.
TypeOK == FlagsOK /\ EnvironmentOK /\ WorkerOK /\ BoardOK

CurrentGen == IF current = None THEN None ELSE current.gen

\* metrics.updateCurrent has begun and the critical section has not.
Updating == pc \in {"age", "reset", "set", "publish"}

\* /readyz, /current-report and /history tell one story: the service is ready
\* exactly when it has a current report, which is the newest of a history that
\* never exceeds history.max_items.
PostureConsistent ==
  /\ handleReadyz.code = handleCurrentReport.code
  /\ ready <=> current # None
  /\ current = None => history = << >>
  /\ current # None => history # << >> /\ history[Len(history)] = current
  /\ Len(history) <= MaxItems

\* Every retained report was compared with the one published just before it,
\* although the previous report is read before the analysis and stored after.
DiffChain ==
  /\ \A i \in 1 .. Len(history) - 1 : history[i + 1].prev = history[i].gen
  /\ Updating => result.prev = CurrentGen

\* The gauges are written one by one without the lock, yet at no moment do the
\* series of all vectors together come from two reports.  The model age gauge is
\* the exception: it is ahead of the vectors until the last one is reset, and
\* never after.  Outside of an update every gauge shows exactly the current
\* report, and the success counter is ahead of the reports a client can fetch by
\* at most the one being published.
GaugesTrackReport ==
  /\ \A v, w \in Vectors : \A g \in gauges[v], h \in gauges[w] : g = h
  /\ pc # "reset" => \A v \in Vectors : gauges[v] \subseteq {modelAge}
  /\ ~Updating => /\ modelAge = CurrentGen
                  /\ \A v \in Vectors : gauges[v] = SeriesOf(current, v)
                  /\ outcomes.success = (IF current = None THEN 0 ELSE CurrentGen)
  /\ Updating => outcomes.success = (IF current = None THEN 1 ELSE CurrentGen + 1)

\* While the last finished refresh failed, /status says so: neither a retry in
\* progress, nor a watcher error, nor a skipped refresh hides it.
FailedRefreshVisible == lastAttempt = "failed" => handleReadyz.body.lastError # None

\* What the recomputing goroutine knows at each step; the part of the inductive
\* invariant that the properties above do not say.
WorkerInv ==
  /\ pc \in {"arm", "loop", "done"} => booted
  /\ ~booted => current = None
  /\ pc \in {"load", "check", "analyze"} => path # None
  /\ pc \in {"check", "analyze"} => loaded # None
  /\ pc = "fail" => failure # None
  /\ pc = "analyze" =>
       /\ previous = CurrentGen
       /\ current # None => loaded # current.content \/ path # current.path
  /\ Updating => /\ result # None /\ result.gen = published
                 /\ current # None =>
                      result.content # current.content \/ result.path # current.path
  /\ outcomes.success = published
  /\ pc \in {"age", "reset"} =>
       \A v \in Vectors : gauges[v] = IF pc = "reset" /\ v < at THEN {} ELSE SeriesOf(current, v)
  /\ pc = "age" => modelAge = CurrentGen
  /\ pc \in {"reset", "set", "publish"} => modelAge = result.gen
  /\ pc = "set" => \A i \in Vectors :
       gauges[SetOrder[i]] = IF i < at THEN SeriesOf(result, SetOrder[i]) ELSE {}
  /\ pc = "publish" => \A v \in Vectors : gauges[v] = SeriesOf(result, v)

ServiceInv ==
  TypeOK /\ PostureConsistent /\ DiffChain /\ GaugesTrackReport /\ FailedRefreshVisible /\ WorkerInv

-----------------------------------------------------------------------------
(* Refinement.                                                             *)

Board == INSTANCE PostureBoard WITH posture <- current, log <- history

\* The service implements the posture board: whatever the interleaving of
\* writes, notifications and restarts, clients see reports replaced one at a
\* time, history and current together, each for a changed artifact.
ImplementsBoard == Board!Spec

-----------------------------------------------------------------------------
(* Liveness, under FairSpec.                                               *)

\* The artifact to serve: the configured file, or the last of the newest files
\* of the directory.
Candidates ==
  LET newest == {p \in Present(fs) : \A q \in Present(fs) : fs[q].mtime <= fs[p].mtime}
  IN  IF Mode # "directory" THEN {FilePath} \cap Present(fs)
      ELSE {p \in newest : \A q \in newest : q <= p}

Target == IF Candidates = {} THEN None ELSE CHOOSE p \in Paths : p \in Candidates

Settled    == Target # None /\ fs[Target].content \in Good /\ sideFiles
Unservable == \A p \in Candidates : fs[p].content \notin Good
UpToDate == current # None /\ current.path = Target /\ current.content = fs[Target].content
Watching == proc = "up" /\ ~ctxDone

\* With polling, a valid artifact is eventually the one served, whatever the
\* watcher did and whatever was on disk before.
PollingConverges == (Settled /\ Watching) ~> (UpToDate \/ ~Settled \/ ~Watching)

\* With polling, an artifact that cannot be resolved, loaded or analysed
\* eventually shows in /status as an error.
BadArtifactReported ==
  (Watching /\ Unservable) ~> (lastError # None \/ ~Unservable \/ ~Watching)

\* A cancelled watch loop stops, although select may prefer notifications and,
\* with polling, ticks that are always ready.
CancelledLoopStops == ctxDone ~> (pc = "done" \/ proc = "down")

\* With notifications alone, an artifact change the watcher was there to see is
\* eventually served, though events are dropped when the queue is full.
NotifiedChangeServed ==
  (Settled /\ Watching /\ armed /\ ~missed)
    ~> (UpToDate \/ ~Settled \/ ~Watching \/ missed)

-----------------------------------------------------------------------------
(* Statements of the repository that the code does not meet.               *)

\* docs/observability-mode.md: "Artifact changes are detected by path selection
\* plus content digest changes."  With notifications alone, a change between
\* the initial load and the watcher's registration is never detected.
ArtifactChangeDetected ==
  [](sideFiles) => ((Settled /\ Watching /\ armed) ~> (UpToDate \/ ~Settled \/ ~Watching))

\* docs/v1-major-semantics.md: "The implementation is deterministic for a fixed
\* artifact, analysis config, and seed."  The reliability source a report gives
\* depends on the artifacts analysed before it.
SourceDependsOnArtifact ==
  current # None => current.source = (IF current.content \in Annotated THEN "external" ELSE "default")
=============================================================================
