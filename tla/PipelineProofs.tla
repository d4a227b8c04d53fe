--------------------------- MODULE PipelineProofs ---------------------------
(***************************************************************************)
(* What the output files tell, for all sequences of commands, all stored   *)
(* files and all configurations: loading, normalisation and analysis stay  *)
(* closed in the proofs of the first part, which assume nothing of what    *)
(* they return.  The second part opens them: what happens to an accepted   *)
(* configuration until its gate.  The third part follows the parameters    *)
(* from the file of the user to what is simulated and reported.            *)
(***************************************************************************)
EXTENDS Pipeline, TLAPS

Stages == {"start", "config", "load", "analyze", "baselines", "model", "report", "summary",
           "mkdir", "simulation", "serving", "done", "end"}

Codes == {0, 1, 2, 137}

\* The stages in which a run has written nothing yet.
Fresh == {"start", "config", "load", "analyze", "baselines", "model"}

TypeInv ==
  /\ run \in Nat \ {0} /\ exit \in Codes /\ stage \in Stages
  /\ DOMAIN disk = Outputs
  /\ \A f \in Outputs : disk[f].run \in 0 .. run

\* Which command is in which stage.
StageInv ==
  /\ stage \in {"config", "load", "analyze", "baselines"} => Batch
  /\ stage \in {"model", "report", "summary"} => job.command = "run"
  /\ stage \in {"mkdir", "simulation"} => job.command = "simulate"
  /\ stage = "serving" => job.command = "serve"

Complete(f) == disk[f].kind # "torn" /\ disk[f].run = run

\* How far a run has come with its outputs.
WrittenInv ==
  /\ stage \in Fresh => \A f \in RunOutputs : disk[f].run < run
  /\ stage = "report" => Complete("model.json") /\ \A f \in {"report.json", "summary.md"} : disk[f].run < run
  /\ stage = "summary" => /\ Complete("model.json") /\ Complete("report.json")
                          /\ disk["report.json"].decision = decision /\ disk["summary.md"].run < run

Compared(r) ==
  /\ r.baseline \in DOMAIN references /\ r.sweep \in DOMAIN references[r.baseline]
  /\ references[r.baseline][r.sweep] = Sweeps[r.sweep]

AllCompared ==
  \A r \in Range(config.gate.boundaryRules) :
    r.regression # Nil /\ IndeterminateAction(r) = "fail" => Compared(r)

\* A decision exists once the gate was evaluated, and stands for its rules.
DecisionInv ==
  /\ stage \in {"start", "config", "load", "analyze", "baselines", "serving", "end"} => decision = ""
  /\ decision \notin {"", "fail"} /\ config.gate.mode = "fail" => AllCompared
  /\ stage = "done" /\ exit = 0 => decision # "fail"

PipelineInv ==
  TypeInv /\ StageInv /\ WrittenInv /\ DecisionInv /\ ExitTellsOutputs /\ OutputsInOrder

-----------------------------------------------------------------------------
\* The steps that write nothing and leave the command where it is: those of a
\* stage that comes before the gate, and those that end a command early.
LEMMA EarlyStep ==
  ASSUME PipelineInv, UNCHANGED <<plan, run, disk>>, decision' = "", exit' \in {0, 1, 2, 137},
         stage \in {"start", "config", "load", "analyze", "baselines", "serving"},
         \/ stage' \in {"config", "load", "analyze", "baselines"} /\ Batch
         \/ stage' = "serving" /\ job.command = "serve"
         \/ stage' = "done" /\ (exit' = 1 \/ (exit' = 0 /\ job.command = "serve"))
  PROVE  PipelineInv'
<1>1. job' = job
  BY DEF job
<1>2. TypeInv'
  BY DEF PipelineInv, TypeInv, Stages, Fresh, Codes
<1>3. StageInv'
  BY <1>1 DEF StageInv, Batch
<1>4. WrittenInv'
  <2>1. stage' \in Fresh => stage \in Fresh
    BY <1>1 DEF PipelineInv, StageInv, Fresh, Batch
  <2>. QED
    BY <2>1 DEF PipelineInv, WrittenInv, Fresh
<1>5. DecisionInv'
  BY DEF DecisionInv
<1>6. ExitTellsOutputs'
  <2>1. SUFFICES ASSUME stage' = "done", job'.command = "run" PROVE exit' \notin {0, 2}
    BY DEF ExitTellsOutputs
  <2>2. job.command # "serve"
    BY <1>1, <2>1
  <2>3. exit' = 1
    BY <2>1, <2>2
  <2>. QED
    BY ONLY <2>3
<1>7. OutputsInOrder'
  BY DEF PipelineInv, OutputsInOrder
<1>. QED
  BY <1>2, <1>3, <1>4, <1>5, <1>6, <1>7 DEF PipelineInv

\* A command that fails or is killed may leave one torn file behind, the one it
\* was writing.
LEMMA BrokenOff ==
  ASSUME PipelineInv, UNCHANGED <<plan, run, locals>>, stage' = "done", exit' \in {1, 137},
         \/ UNCHANGED disk
         \/ stage = "model" /\ disk' = [disk EXCEPT !["model.json"] = Torn]
         \/ stage = "report" /\ disk' = [disk EXCEPT !["report.json"] = Torn]
         \/ stage = "summary" /\ disk' = [disk EXCEPT !["summary.md"] = Torn]
         \/ stage = "simulation" /\ disk' = [disk EXCEPT !["simulation.json"] = Torn]
  PROVE  PipelineInv'
<1>. USE DEF Outputs, RunOutputs
<1>1. TypeInv'
  <2>1. /\ run \in Nat \ {0} /\ DOMAIN disk = Outputs /\ \A f \in Outputs : disk[f].run \in 0 .. run
    BY DEF PipelineInv, TypeInv
  <2>2. Torn.run = run
    BY DEF Torn
  <2>3. run \in 0 .. run
    BY <2>1
  <2>4. DOMAIN disk' = Outputs /\ \A f \in Outputs : disk'[f].run \in 0 .. run
    BY <2>1, <2>2, <2>3
  <2>. QED
    BY <2>1, <2>4 DEF TypeInv, Codes, Stages
<1>2. StageInv'
  BY DEF StageInv
<1>3. WrittenInv'
  BY DEF WrittenInv, Fresh
<1>4. DecisionInv'
  <2>1. decision' = decision /\ config' = config /\ references' = references /\ loaded' = loaded
    BY DEF locals
  <2>2. AllCompared => AllCompared'
    BY <2>1 DEF AllCompared, Compared, Sweeps, IndeterminateAction
  <2>3. stage' \notin {"start", "config", "load", "analyze", "baselines", "serving", "end"} /\ exit' # 0
    OBVIOUS
  <2>4. decision' \notin {"", "fail"} /\ config'.gate.mode = "fail" => AllCompared'
    BY <2>1, <2>2 DEF PipelineInv, DecisionInv
  <2>. QED
    BY <2>3, <2>4 DEF DecisionInv
<1>5. ExitTellsOutputs'
  BY DEF ExitTellsOutputs
<1>6. OutputsInOrder'
  <2>1. Torn.run = run /\ run \in Nat /\ DOMAIN disk = Outputs /\ \A f \in Outputs : disk[f].run \in 0 .. run
    BY DEF PipelineInv, TypeInv, Torn
  <2>2. OutputsInOrder
    BY DEF PipelineInv
  <2>3. CASE UNCHANGED disk
    BY <2>2, <2>3 DEF OutputsInOrder
  <2>4. CASE stage = "model" /\ disk' = [disk EXCEPT !["model.json"] = Torn]
    BY <2>1, <2>2, <2>4 DEF OutputsInOrder
  <2>5. CASE stage = "report" /\ disk' = [disk EXCEPT !["report.json"] = Torn]
    <3>1. disk["model.json"].run = run
      BY <2>5 DEF PipelineInv, WrittenInv, Complete
    <3>. QED
      BY <2>1, <2>2, <2>5, <3>1 DEF OutputsInOrder
  <2>6. CASE stage = "summary" /\ disk' = [disk EXCEPT !["summary.md"] = Torn]
    <3>1. disk["model.json"].run = run /\ disk["report.json"].run = run
      BY <2>6 DEF PipelineInv, WrittenInv, Complete
    <3>. QED
      BY <2>1, <2>2, <2>6, <3>1 DEF OutputsInOrder
  <2>7. CASE stage = "simulation" /\ disk' = [disk EXCEPT !["simulation.json"] = Torn]
    BY <2>1, <2>2, <2>7 DEF OutputsInOrder
  <2>. QED
    BY <2>3, <2>4, <2>5, <2>6, <2>7
<1>. QED
  BY <1>1, <1>2, <1>3, <1>4, <1>5, <1>6 DEF PipelineInv

\* A file of `run' that is written completely.
LEMMA RunWrites ==
  ASSUME PipelineInv, UNCHANGED <<plan, run, locals>>,
         \/ /\ stage = "model" /\ stage' = "report" /\ exit' = exit
            /\ disk' = [disk EXCEPT !["model.json"] = Model]
         \/ /\ stage = "report" /\ stage' = "summary" /\ exit' = exit
            /\ disk' = [disk EXCEPT !["report.json"] = Report]
         \/ /\ stage = "summary" /\ stage' = "done" /\ exit' = decisionExitCode(decision)
            /\ disk' = [disk EXCEPT !["summary.md"] = Summary]
  PROVE  PipelineInv'
<1>. USE DEF Outputs, RunOutputs
<1>1. /\ run \in Nat \ {0} /\ DOMAIN disk = Outputs /\ \A f \in Outputs : disk[f].run \in 0 .. run
      /\ exit \in Codes /\ run' = run /\ run \in 0 .. run
  BY DEF PipelineInv, TypeInv
<1>2. job' = job /\ job.command = "run" /\ decision' = decision
  BY DEF PipelineInv, StageInv, job, locals
<1>3. /\ Model.run = run /\ Model.kind = "artifact"
      /\ Report.run = run /\ Report.kind = "report" /\ Report.decision = decision
      /\ Summary.run = run /\ Summary.kind = "summary" /\ Summary.decision = decision
  BY DEF Model, Report, Summary
<1>4. /\ decisionExitCode(decision) \in {0, 1, 2}
      /\ decisionExitCode(decision) = 2 <=> decision = "fail"
  BY DEF decisionExitCode
<1>5. TypeInv'
  <2>1. DOMAIN disk' = Outputs /\ \A f \in Outputs : disk'[f].run \in 0 .. run
    BY <1>1, <1>3
  <2>2. exit' \in Codes /\ stage' \in Stages
    BY <1>1, <1>4 DEF Codes, Stages
  <2>. QED
    BY <1>1, <2>1, <2>2 DEF TypeInv
<1>6. StageInv'
  BY <1>2 DEF StageInv
<1>7. WrittenInv'
  <2>1. CASE stage' = "report"
    BY <1>1, <1>3, <2>1 DEF PipelineInv, WrittenInv, Complete, Fresh
  <2>2. CASE stage' = "summary"
    BY <1>1, <1>2, <1>3, <2>2 DEF PipelineInv, WrittenInv, Complete, Fresh
  <2>3. CASE stage' = "done"
    BY <2>3 DEF WrittenInv, Fresh
  <2>. QED
    BY <2>1, <2>2, <2>3
<1>8. DecisionInv'
  <2>1. config' = config /\ references' = references /\ loaded' = loaded
    BY DEF locals
  <2>2. AllCompared => AllCompared'
    BY <2>1 DEF AllCompared, Compared, Sweeps, IndeterminateAction
  <2>3. stage' \notin {"start", "config", "load", "analyze", "baselines", "serving", "end"}
    OBVIOUS
  <2>4. decision' \notin {"", "fail"} /\ config'.gate.mode = "fail" => AllCompared'
    BY <1>2, <2>1, <2>2 DEF PipelineInv, DecisionInv
  <2>5. stage' = "done" /\ exit' = 0 => decision' # "fail"
    BY <1>2, <1>4
  <2>. QED
    BY <2>3, <2>4, <2>5 DEF DecisionInv
<1>9. ExitTellsOutputs'
  <2>1. CASE stage' = "done"
    <3>1. Complete("model.json") /\ Complete("report.json") /\ disk["report.json"].decision = decision
      BY <2>1 DEF PipelineInv, WrittenInv
    <3>2. disk' = [disk EXCEPT !["summary.md"] = Summary] /\ exit' = decisionExitCode(decision)
      BY <2>1
    <3>3. \A f \in RunOutputs : disk'[f].kind # "torn" /\ disk'[f].run = run'
      BY <1>1, <1>3, <3>1, <3>2 DEF Complete
    <3>4. \A f \in {"report.json", "summary.md"} : disk'[f].decision = decision'
      BY <1>1, <1>2, <1>3, <3>1, <3>2
    <3>5. exit' = 2 <=> decision' = "fail"
      BY <1>2, <1>4, <3>2
    <3>. QED
      BY <3>3, <3>4, <3>5 DEF ExitTellsOutputs
  <2>2. CASE stage' # "done"
    BY <2>2 DEF ExitTellsOutputs
  <2>. QED
    BY <2>1, <2>2
<1>10. OutputsInOrder'
  <2>1. OutputsInOrder
    BY DEF PipelineInv
  <2>2. CASE stage = "model"
    BY <1>1, <1>3, <2>1, <2>2 DEF OutputsInOrder
  <2>3. CASE stage = "report"
    <3>1. disk["model.json"].run = run
      BY <2>3 DEF PipelineInv, WrittenInv, Complete
    <3>. QED
      BY <1>1, <1>3, <2>1, <2>3, <3>1 DEF OutputsInOrder
  <2>4. CASE stage = "summary"
    <3>1. disk["model.json"].run = run /\ disk["report.json"].run = run
      BY <2>4 DEF PipelineInv, WrittenInv, Complete
    <3>. QED
      BY <1>1, <1>3, <2>1, <2>4, <3>1 DEF OutputsInOrder
  <2>. QED
    BY <2>2, <2>3, <2>4
<1>. QED
  BY <1>5, <1>6, <1>7, <1>8, <1>9, <1>10 DEF PipelineInv

\* In fail mode a rule that lacks its baseline makes the decision.
LEMMA GateFails ==
  ASSUME EvaluateGate, config.gate.mode = "fail", decision' # "fail",
         NEW r \in Range(config.gate.boundaryRules), r.regression # Nil, IndeterminateAction(r) = "fail"
  PROVE  Compared(r)
<1>. DEFINE rules == config.gate.boundaryRules
<1>1. SUFFICES ASSUME ~Compared(r) PROVE decision' = "fail"
  OBVIOUS
<1>2. PICK profiles \in {"pass", config.gate.mode}, statuses \in [DOMAIN rules -> {"pass", "warn", "fail"}] :
        /\ \A i \in DOMAIN statuses : statuses[i] \in RuleStatuses(rules[i])
        /\ decision' = mergeBoundaryDecision(profiles, Range(statuses))
  BY DEF EvaluateGate
<1>3. PICK i \in DOMAIN rules : r = rules[i]
  BY DEF Range
<1>4. RuleStatuses(r) = {"fail"}
  BY <1>1 DEF RuleStatuses, Severity, Comparable, Compared
<1>5. statuses[i] = "fail"
  BY <1>2, <1>3, <1>4
<1>6. "fail" \in Range(statuses)
  BY <1>3, <1>5 DEF Range
<1>. QED
  BY <1>2, <1>6 DEF mergeBoundaryDecision

LEMMA GateStep ==
  ASSUME PipelineInv, EvaluateGate
  PROVE  PipelineInv'
<1>1. /\ UNCHANGED <<plan, run, exit, disk, config, loaded, references>> /\ Batch
      /\ stage' = IF job.command = "run" THEN "model" ELSE "mkdir"
  BY DEF EvaluateGate, Continues, PipelineInv, StageInv
<1>2. job' = job
  BY <1>1 DEF job
<1>3. TypeInv'
  BY <1>1 DEF PipelineInv, TypeInv, Stages
<1>4. StageInv'
  BY <1>1, <1>2 DEF StageInv, Batch
<1>5. WrittenInv'
  BY <1>1 DEF PipelineInv, WrittenInv, EvaluateGate, Fresh
<1>6. DecisionInv'
  <2>1. decision' # "fail" /\ config.gate.mode = "fail" => AllCompared
    BY GateFails DEF AllCompared
  <2>2. AllCompared => AllCompared'
    BY <1>1 DEF AllCompared, Compared, Sweeps, IndeterminateAction
  <2>3. stage' \notin {"start", "config", "load", "analyze", "baselines", "serving", "end", "done"}
    BY <1>1
  <2>4. decision' \notin {"", "fail"} /\ config'.gate.mode = "fail" => AllCompared'
    BY <1>1, <2>1, <2>2
  <2>. QED
    BY <2>3, <2>4 DEF DecisionInv
<1>7. ExitTellsOutputs'
  <2>1. stage' # "done"
    BY <1>1
  <2>. QED
    BY <2>1 DEF ExitTellsOutputs
<1>8. OutputsInOrder'
  BY <1>1 DEF PipelineInv, OutputsInOrder
<1>. QED
  BY <1>3, <1>4, <1>5, <1>6, <1>7, <1>8 DEF PipelineInv

\* `simulate' does not touch the outputs of `run'.
LEMMA SimulateStep ==
  ASSUME PipelineInv, UNCHANGED <<plan, run, locals>>,
         \/ stage = "mkdir" /\ stage' = "simulation" /\ UNCHANGED <<exit, disk>>
         \/ /\ stage = "simulation" /\ stage' = "done" /\ exit' = decisionExitCode(decision)
            /\ disk' = [disk EXCEPT !["simulation.json"] = Report]
  PROVE  PipelineInv'
<1>1. job' = job /\ job.command = "simulate" /\ decision' = decision
  BY DEF PipelineInv, StageInv, job, locals
<1>2. Report.run = run
  BY DEF Report
<1>3. /\ decisionExitCode(decision) \in {0, 1, 2}
      /\ decisionExitCode(decision) = 0 => decision # "fail"
  BY DEF decisionExitCode
<1>4. TypeInv'
  <2>1. /\ run \in Nat \ {0} /\ DOMAIN disk = Outputs /\ \A f \in Outputs : disk[f].run \in 0 .. run
        /\ exit \in Codes /\ run' = run /\ run \in 0 .. run
    BY DEF PipelineInv, TypeInv
  <2>2. DOMAIN disk' = Outputs /\ \A f \in Outputs : disk'[f].run \in 0 .. run
    BY <1>2, <2>1 DEF Outputs
  <2>3. exit' \in Codes /\ stage' \in Stages
    BY <1>3, <2>1 DEF Codes, Stages
  <2>. QED
    BY <2>1, <2>2, <2>3 DEF TypeInv
<1>5. StageInv'
  BY <1>1 DEF StageInv
<1>6. WrittenInv'
  BY DEF WrittenInv, Fresh
<1>7. DecisionInv'
  <2>1. config' = config /\ references' = references /\ loaded' = loaded
    BY DEF locals
  <2>2. AllCompared => AllCompared'
    BY <2>1 DEF AllCompared, Compared, Sweeps, IndeterminateAction
  <2>3. stage' \notin {"start", "config", "load", "analyze", "baselines", "serving", "end"}
    OBVIOUS
  <2>4. decision' \notin {"", "fail"} /\ config'.gate.mode = "fail" => AllCompared'
    BY <1>1, <2>1, <2>2 DEF PipelineInv, DecisionInv
  <2>5. stage' = "done" /\ exit' = 0 => decision' # "fail"
    BY <1>1, <1>3
  <2>. QED
    BY <2>3, <2>4, <2>5 DEF DecisionInv
<1>8. ExitTellsOutputs'
  <2>1. job'.command # "run"
    BY <1>1
  <2>. QED
    BY <2>1 DEF ExitTellsOutputs
<1>9. OutputsInOrder'
  <2>1. DOMAIN disk = Outputs
    BY DEF PipelineInv, TypeInv
  <2>2. \A f \in RunOutputs : disk'[f] = disk[f]
    BY <2>1 DEF RunOutputs, Outputs
  <2>. QED
    BY <2>2 DEF PipelineInv, OutputsInOrder, RunOutputs
<1>. QED
  BY <1>4, <1>5, <1>6, <1>7, <1>8, <1>9 DEF PipelineInv

LEMMA NextCommandStep ==
  ASSUME PipelineInv, NextCommand
  PROVE  PipelineInv'
<1>1. /\ disk' = disk /\ decision' = "" /\ stage' \in {"start", "end"}
  BY DEF NextCommand, Cleared
<1>2. /\ run' \in Nat \ {0} /\ exit' \in Codes
      /\ \A f \in Outputs : disk[f].run \in 0 .. run' /\ disk[f].run < run'
  <2>1. run' = run + 1 /\ exit' = 0
    BY DEF NextCommand
  <2>2. run \in Nat \ {0} /\ \A f \in Outputs : disk[f].run \in 0 .. run
    BY DEF PipelineInv, TypeInv
  <2>3. \A f \in Outputs : disk[f].run \in 0 .. run' /\ disk[f].run < run'
    BY ONLY <2>1, <2>2
  <2>4. run' \in Nat \ {0} /\ exit' \in Codes
    BY ONLY <2>1, <2>2 DEF Codes
  <2>. QED
    BY <2>3, <2>4
<1>3. TypeInv'
  <2>1. stage' \in Stages
    BY <1>1 DEF Stages
  <2>2. DOMAIN disk' = Outputs
    BY <1>1 DEF PipelineInv, TypeInv
  <2>. QED
    BY <1>1, <1>2, <2>1, <2>2 DEF TypeInv
<1>4. StageInv'
  BY <1>1 DEF StageInv
<1>5. WrittenInv'
  <2>1. \A f \in RunOutputs : disk'[f].run < run'
    BY <1>1, <1>2 DEF RunOutputs, Outputs
  <2>2. stage' \notin {"report", "summary"}
    BY <1>1
  <2>. QED
    BY <2>1, <2>2 DEF WrittenInv
<1>6. DecisionInv'
  BY <1>1 DEF DecisionInv
<1>7. ExitTellsOutputs'
  <2>1. stage' # "done"
    BY <1>1
  <2>. QED
    BY <2>1 DEF ExitTellsOutputs
<1>8. OutputsInOrder'
  BY <1>1 DEF PipelineInv, OutputsInOrder
<1>. QED
  BY <1>3, <1>4, <1>5, <1>6, <1>7, <1>8 DEF PipelineInv

-----------------------------------------------------------------------------
LEMMA InitInv == Init => PipelineInv
<1>. SUFFICES ASSUME Init PROVE PipelineInv
  OBVIOUS
<1>1. run = 1 /\ exit = 0 /\ stage = "start" /\ decision = "" /\ disk = [f \in Outputs |-> Absent]
  BY DEF Init
<1>2. \A f \in Outputs : disk[f].run = 0
  BY <1>1 DEF Absent
<1>3. TypeInv
  <2>1. run \in Nat \ {0} /\ \A f \in Outputs : disk[f].run \in 0 .. run
    <3>1. run = 1
      BY <1>1
    <3>. QED
      BY ONLY <1>2, <3>1
  <2>2. exit \in Codes /\ stage \in Stages /\ DOMAIN disk = Outputs
    BY <1>1 DEF Codes, Stages
  <2>. QED
    BY <2>1, <2>2 DEF TypeInv
<1>4. StageInv
  BY <1>1 DEF StageInv
<1>5. WrittenInv
  <2>1. \A f \in RunOutputs : disk[f].run < run
    <3>1. run = 1
      BY <1>1
    <3>. QED
      BY ONLY <1>2, <3>1 DEF RunOutputs, Outputs
  <2>2. stage \notin {"report", "summary"}
    BY <1>1
  <2>. QED
    BY <2>1, <2>2 DEF WrittenInv
<1>6. DecisionInv
  BY <1>1 DEF DecisionInv
<1>7. ExitTellsOutputs
  <2>1. stage # "done"
    BY <1>1
  <2>. QED
    BY <2>1 DEF ExitTellsOutputs
<1>8. OutputsInOrder
  <2>1. \A f \in {"summary.md", "report.json", "model.json"} : disk[f].run = 0
    BY <1>2 DEF Outputs
  <2>. QED
    BY <2>1 DEF OutputsInOrder
<1>. QED
  BY <1>3, <1>4, <1>5, <1>6, <1>7, <1>8 DEF PipelineInv

\* A writing step completes its file, leaves it torn or does not touch it.
LEMMA WriteStep ==
  ASSUME PipelineInv, WriteModel \/ WriteReport \/ WriteSummary \/ WriteSimulation
  PROVE  PipelineInv'
<1>1. CASE WriteModel
  <2>1. CASE ValidModel(loaded.model)
    BY <1>1, <2>1, RunWrites, BrokenOff DEF WriteModel, Writes
  <2>2. CASE ~ValidModel(loaded.model)
    BY <1>1, <2>2, BrokenOff DEF WriteModel, Exits
  <2>. QED
    BY <2>1, <2>2
<1>2. CASE WriteReport
  <2>0. stage = "report" /\ Writes("report.json", Report, "summary")
    BY <1>2 DEF WriteReport
  <2>1. UNCHANGED <<plan, run, locals>>
    BY <2>0 DEF Writes
  <2>2. CASE disk' = [disk EXCEPT !["report.json"] = Report] /\ stage' = "summary" /\ exit' = exit
    BY <2>0, <2>1, <2>2, RunWrites
  <2>3. CASE disk' \in {disk, [disk EXCEPT !["report.json"] = Torn]} /\ stage' = "done" /\ exit' = 1
    BY <2>0, <2>1, <2>3, BrokenOff
  <2>. QED
    BY <2>0, <2>2, <2>3 DEF Writes
<1>3. CASE WriteSummary
  <2>0. stage = "summary" /\ Writes("summary.md", Summary, "done")
    BY <1>3 DEF WriteSummary
  <2>1. UNCHANGED <<plan, run, locals>>
    BY <2>0 DEF Writes
  <2>2. CASE disk' = [disk EXCEPT !["summary.md"] = Summary] /\ stage' = "done" /\ exit' = decisionExitCode(decision)
    BY <2>0, <2>1, <2>2, RunWrites
  <2>3. CASE disk' \in {disk, [disk EXCEPT !["summary.md"] = Torn]} /\ stage' = "done" /\ exit' = 1
    BY <2>0, <2>1, <2>3, BrokenOff
  <2>. QED
    BY <2>0, <2>2, <2>3 DEF Writes
<1>4. CASE WriteSimulation
  <2>0. stage = "simulation" /\ Writes("simulation.json", Report, "done")
    BY <1>4 DEF WriteSimulation
  <2>1. UNCHANGED <<plan, run, locals>>
    BY <2>0 DEF Writes
  <2>2. CASE disk' = [disk EXCEPT !["simulation.json"] = Report] /\ stage' = "done" /\ exit' = decisionExitCode(decision)
    BY <2>0, <2>1, <2>2, SimulateStep
  <2>3. CASE disk' \in {disk, [disk EXCEPT !["simulation.json"] = Torn]} /\ stage' = "done" /\ exit' = 1
    BY <2>0, <2>1, <2>3, BrokenOff
  <2>. QED
    BY <2>0, <2>2, <2>3 DEF Writes
<1>. QED
  BY <1>1, <1>2, <1>3, <1>4

LEMMA NextInv == PipelineInv /\ [Next]_vars => PipelineInv'
<1>. SUFFICES ASSUME PipelineInv, [Next]_vars PROVE PipelineInv'
  OBVIOUS
<1>1. /\ exit \in {0, 1, 2, 137}
      /\ stage \in {"start", "config", "load", "analyze", "baselines", "serving"} => decision = ""
      /\ stage \in {"config", "load", "analyze", "baselines"} => Batch
      /\ stage = "serving" => job.command = "serve"
  BY DEF PipelineInv, TypeInv, Codes, DecisionInv, StageInv
<1>2. CASE Start
  BY <1>1, <1>2, EarlyStep DEF Start, Continues, Exits, locals
<1>3. CASE Configure
  BY <1>1, <1>3, EarlyStep DEF Configure, Continues, Exits, locals
<1>4. CASE LoadArtifact
  BY <1>1, <1>4, EarlyStep DEF LoadArtifact, Continues, Exits
<1>5. CASE Analyze
  BY <1>1, <1>5, EarlyStep DEF Analyze, Continues, Exits
<1>6. CASE LoadBaseline
  BY <1>1, <1>6, EarlyStep DEF LoadBaseline, Continues, Exits, locals
<1>7. CASE EvaluateGate
  BY <1>7, GateStep
<1>8. CASE WriteModel \/ WriteReport \/ WriteSummary \/ WriteSimulation
  BY <1>8, WriteStep
<1>9. CASE MakeDirectory
  BY <1>9, SimulateStep, BrokenOff DEF MakeDirectory, Continues, Exits
<1>10. CASE Serve
  BY <1>1, <1>10, EarlyStep DEF Serve, Continues, Exits, locals
<1>11. CASE StopServing
  BY <1>1, <1>11, EarlyStep DEF StopServing, Exits, locals
<1>12. CASE Killed
  BY <1>12, BrokenOff DEF Killed, Outputs
<1>13. CASE NextCommand
  BY <1>13, NextCommandStep
<1>14. CASE UNCHANGED vars
  <2>1. UNCHANGED <<plan, run, stage, config, loaded, references, decision, exit, disk>>
    BY <1>14 DEF vars, locals
  <2>2. job' = job
    BY <2>1 DEF job
  <2>. QED
    BY <2>1, <2>2 DEF PipelineInv, TypeInv, StageInv, Batch, WrittenInv, Complete, DecisionInv, AllCompared,
                      Compared, Sweeps, IndeterminateAction, ExitTellsOutputs, OutputsInOrder
<1>. QED
  BY <1>2, <1>3, <1>4, <1>5, <1>6, <1>7, <1>8, <1>9, <1>10, <1>11, <1>12, <1>13, <1>14 DEF Next

\* The invariant, for all sequences of commands, stored files and contents.
THEOREM PipelineInvariant == Spec => []PipelineInv
<1>. QED
  BY InitInv, NextInv, PTL DEF Spec

\* What the exit code of `run' says of its outputs (app.go:286-316).
THEOREM ExitCodeTellsOutputs == Spec => []ExitTellsOutputs
<1>1. PipelineInv => ExitTellsOutputs
  BY DEF PipelineInv
<1>. QED
  BY <1>1, PipelineInvariant, PTL

\* No output file is older than the one it was derived from, whatever fails.
THEOREM OutputsStayInOrder == Spec => []OutputsInOrder
<1>1. PipelineInv => OutputsInOrder
  BY DEF PipelineInv
<1>. QED
  BY <1>1, PipelineInvariant, PTL

\* A strict gate on regressions passes against comparable baselines only,
\* whatever the configuration, the baselines and the simulation are.
THEOREM PassWasCompared == Spec => []PassMeansCompared
<1>1. PipelineInv => PassMeansCompared
  <2>. SUFFICES ASSUME PipelineInv, stage = "done", Batch, exit = 0, decision # "", config.gate.mode = "fail"
                PROVE  AllCompared
    BY DEF PassMeansCompared, AllCompared, Compared
  <2>. QED
    BY DEF PipelineInv, DecisionInv
<1>. QED
  BY <1>1, PipelineInvariant, PTL

-----------------------------------------------------------------------------
(* Configurations: normalising twice is normalising once, and what loading *)
(* has accepted stays accepted after all that a command does to it.        *)

\* The fields of a configuration.
Fields == {"version", "seed", "trials", "mode", "failure", "reliability", "fixedK", "journeys",
           "predicates", "faultContract", "weights", "profiles", "sweeps", "importance",
           "baselines", "policy", "gate", "sources"}

Kept == {"reliability", "fixedK", "journeys", "predicates", "faultContract", "weights", "baselines", "sources"}

Scalars(c, d) ==
  /\ d.version = Or(c.version, 0, 10) /\ d.seed = Or(c.seed, 0, 42)
  /\ d.trials = Positive(c.trials, DefaultTrials) /\ d.mode = Or(c.mode, "", "independent_replica")
  /\ d.failure = Or(c.failure, 0, 5)
  /\ d.policy = NormalizedPolicy(c.policy) /\ d.gate = NormalizedGate(c.gate)

LEMMA DefaultsAre ==
  ASSUME NEW c, DOMAIN c = Fields
  PROVE  /\ DOMAIN WithDefaults(c) = Fields
         /\ Scalars(c, WithDefaults(c))
         /\ \A x \in Kept \cup {"profiles", "sweeps", "importance"} : WithDefaults(c)[x] = c[x]
<1>. DEFINE n == WithDefaults(c)
<1>1. DOMAIN n = Fields
  BY DEF WithDefaults
<1>2. n.version = Or(c.version, 0, 10) /\ n.seed = Or(c.seed, 0, 42)
  BY DEF WithDefaults, Fields
<1>3. n.trials = Positive(c.trials, DefaultTrials) /\ n.mode = Or(c.mode, "", "independent_replica")
  BY DEF WithDefaults, Fields
<1>4. n.failure = Or(c.failure, 0, 5)
  BY DEF WithDefaults, Fields
<1>5. n.policy = NormalizedPolicy(c.policy) /\ n.gate = NormalizedGate(c.gate)
  BY DEF WithDefaults, Fields
<1>6. \A x \in Kept \cup {"profiles", "sweeps", "importance"} : n[x] = c[x]
  <2>1. \A x \in Fields \ {"version", "seed", "trials", "mode", "failure", "policy", "gate"} : n[x] = c[x]
    BY DEF WithDefaults, Fields
  <2>. HIDE DEF n
  <2>. QED
    BY <2>1 DEF Fields, Kept
<1>. HIDE DEF n
<1>7. Scalars(c, n)
  BY <1>2, <1>3, <1>4, <1>5 DEF Scalars
<1>. QED
  BY <1>1, <1>6, <1>7 DEF n

LEMMA NormalizedIs ==
  ASSUME NEW c, DOMAIN c = Fields
  PROVE  /\ DOMAIN Normalized(c) = Fields
         /\ Normalized(c) = [x \in Fields |-> Normalized(c)[x]]
         /\ Scalars(c, Normalized(c))
         /\ Normalized(c).profiles = NormalizedProfiles(c) /\ Normalized(c).sweeps = NormalizedSweeps(c)
         /\ Normalized(c).importance = NormalizedImportance(c)
         /\ \A x \in Kept : Normalized(c)[x] = c[x]
<1>. DEFINE d == WithDefaults(c)
            n == [d EXCEPT !.profiles = NormalizedProfiles(c), !.sweeps = NormalizedSweeps(c),
                           !.importance = NormalizedImportance(c)]
<1>1. Normalized(c) = n
  BY DEF Normalized
<1>2. DOMAIN d = Fields
  BY DefaultsAre
<1>. HIDE DEF d
<1>3. /\ DOMAIN n = Fields /\ n = [x \in Fields |-> n[x]]
      /\ n.profiles = NormalizedProfiles(c) /\ n.sweeps = NormalizedSweeps(c)
      /\ n.importance = NormalizedImportance(c)
      /\ \A x \in Fields \ {"profiles", "sweeps", "importance"} : n[x] = d[x]
  BY <1>2 DEF Fields
<1>. HIDE DEF n
<1>4. \A x \in Kept \cup {"version", "seed", "trials", "mode", "failure", "policy", "gate"} : n[x] = d[x]
  BY <1>3 DEF Fields, Kept
<1>5. Scalars(c, n)
  <2>1. Scalars(c, d)
    BY DefaultsAre DEF d
  <2>. QED
    BY <1>4, <2>1 DEF Scalars
<1>6. \A x \in Kept : n[x] = c[x]
  <2>1. \A x \in Kept : d[x] = c[x]
    BY DefaultsAre DEF d
  <2>. QED
    BY <1>4, <2>1
<1>. QED
  BY <1>1, <1>3, <1>5, <1>6

LEMMA GateIs ==
  ASSUME NEW g, DOMAIN g = DOMAIN EmptyGate
  PROVE  /\ DOMAIN NormalizedGate(g) = DOMAIN g
         /\ NormalizedGate(g) = [x \in DOMAIN g |-> NormalizedGate(g)[x]]
         /\ NormalizedGate(g).mode = Or(g.mode, "", "warn")
         /\ NormalizedGate(g).defaultAction = Or(g.defaultAction, "", Or(g.mode, "", "warn"))
         /\ NormalizedGate(g).rule = Or(g.rule, "", "all_profiles")
         /\ NormalizedGate(g).global = Or(g.global, 0, 99)
         /\ \A x \in DOMAIN g \ {"mode", "defaultAction", "rule", "global"} : NormalizedGate(g)[x] = g[x]
<1>. DEFINE m == Or(g.mode, "", "warn")
<1>1. "mode" \in DOMAIN g /\ "defaultAction" \in DOMAIN g /\ "rule" \in DOMAIN g /\ "global" \in DOMAIN g
  BY DEF EmptyGate
<1>2. NormalizedGate(g) = [g EXCEPT !.mode = m, !.defaultAction = Or(@, "", m),
                             !.rule = Or(@, "", "all_profiles"), !.global = Or(@, 0, 99)]
  BY DEF NormalizedGate
<1>. HIDE DEF m
<1>3. QED
  BY <1>1, <1>2 DEF m

LEMMA GateTwice ==
  ASSUME NEW g, DOMAIN g = DOMAIN EmptyGate
  PROVE  NormalizedGate(NormalizedGate(g)) = NormalizedGate(g)
<1>. DEFINE n == NormalizedGate(g)
            nn == NormalizedGate(n)
<1>1. DOMAIN n = DOMAIN g /\ DOMAIN nn = DOMAIN g
  BY GateIs
<1>2. \A x \in DOMAIN g : nn[x] = n[x]
  <2>0. /\ n.mode = Or(g.mode, "", "warn")
        /\ n.defaultAction = Or(g.defaultAction, "", Or(g.mode, "", "warn"))
        /\ n.rule = Or(g.rule, "", "all_profiles") /\ n.global = Or(g.global, 0, 99)
    BY GateIs
  <2>1. /\ nn.mode = Or(n.mode, "", "warn")
        /\ nn.defaultAction = Or(n.defaultAction, "", Or(n.mode, "", "warn"))
        /\ nn.rule = Or(n.rule, "", "all_profiles") /\ nn.global = Or(n.global, 0, 99)
    BY <1>1, GateIs
  <2>2. \A x \in DOMAIN g \ {"mode", "defaultAction", "rule", "global"} : nn[x] = n[x]
    BY <1>1, GateIs
  <2>. HIDE DEF n, nn
  <2>3. nn.mode = n.mode /\ nn.defaultAction = n.defaultAction /\ nn.rule = n.rule /\ nn.global = n.global
    BY <2>0, <2>1 DEF Or
  <2>. QED
    BY <2>3, <2>2
<1>3. n = [x \in DOMAIN g |-> n[x]] /\ nn = [x \in DOMAIN g |-> nn[x]]
  BY <1>1, GateIs
<1>. HIDE DEF n, nn
<1>4. n = nn
  BY <1>2, <1>3
<1>. QED
  BY <1>4 DEF n, nn

LEMMA PolicyTwice ==
  ASSUME NEW p
  PROVE  NormalizedPolicy(NormalizedPolicy(p)) = NormalizedPolicy(p)
BY DEF NormalizedPolicy, Or

LEMMA EntriesTwice ==
  ASSUME NEW f, NEW g
  PROVE  Over(Over(f, g), g) = Over(f, g)
<1>. DEFINE h == Over(f, g)
<1>1. DOMAIN h = DOMAIN f \cup DOMAIN g /\ h = [x \in DOMAIN h |-> h[x]]
  BY DEF Over
<1>2. Over(h, g) = [x \in DOMAIN h \cup DOMAIN g |-> IF x \in DOMAIN h THEN h[x] ELSE g[x]]
  BY DEF Over
<1>. HIDE DEF h
<1>3. DOMAIN h \cup DOMAIN g = DOMAIN h
  BY <1>1
<1>4. Over(h, g) = [x \in DOMAIN h |-> h[x]]
  BY <1>2, <1>3
<1>. QED
  BY <1>1, <1>4 DEF h

LEMMA ReliabilityTwice ==
  ASSUME NEW parent, NEW own
  PROVE  normalizeProfileReliability(parent, normalizeProfileReliability(parent, own))
           = normalizeProfileReliability(parent, own)
<1>. DEFINE r == normalizeProfileReliability(parent, own)
            twice == normalizeProfileReliability(parent, r)
<1>1. /\ r.node = Or(own.node, Nil, parent.node) /\ r.edge = Or(own.edge, Nil, parent.edge)
      /\ r.services = Over(own.services, parent.services) /\ r.edges = Over(own.edges, parent.edges)
  BY DEF normalizeProfileReliability
<1>2. twice = [node |-> Or(r.node, Nil, parent.node), edge |-> Or(r.edge, Nil, parent.edge),
               services |-> Over(r.services, parent.services), edges |-> Over(r.edges, parent.edges)]
  BY DEF normalizeProfileReliability
<1>3. Or(r.node, Nil, parent.node) = r.node /\ Or(r.edge, Nil, parent.edge) = r.edge
  BY <1>1 DEF Or
<1>4. Over(r.services, parent.services) = r.services /\ Over(r.edges, parent.edges) = r.edges
  BY <1>1, EntriesTwice
<1>5. r = [node |-> r.node, edge |-> r.edge, services |-> r.services, edges |-> r.edges]
  BY DEF normalizeProfileReliability
<1>. HIDE DEF r
<1>. QED
  BY <1>2, <1>3, <1>4, <1>5 DEF r

\* What a profile inherits.
Inherited(c) == <<c.trials, c.mode, c.failure, c.fixedK, c.reliability>>

LEMMA ProfileTwice ==
  ASSUME NEW c, NEW d, NEW p, Inherited(d) = Inherited(c)
  PROVE  /\ NormalizedProfile(d, p) = NormalizedProfile(c, p)
         /\ NormalizedProfile(c, NormalizedProfile(c, p)) = NormalizedProfile(c, p)
<1>1. /\ d.trials = c.trials /\ d.mode = c.mode /\ d.failure = c.failure /\ d.fixedK = c.fixedK
      /\ d.reliability = c.reliability
  BY DEF Inherited
<1>2. NormalizedProfile(d, p) = NormalizedProfile(c, p)
  BY <1>1 DEF NormalizedProfile
<1>. DEFINE n == NormalizedProfile(c, p)
            m == NormalizedProfile(c, n)
            Set == {"trials", "mode", "failure", "fixedK", "reliability"}
<1>3. /\ DOMAIN n = DOMAIN p /\ n = [x \in DOMAIN p |-> n[x]]
      /\ \A x \in DOMAIN p \ Set : n[x] = p[x]
  BY DEF NormalizedProfile
<1>4. /\ "trials" \in DOMAIN p => n.trials = Positive(p.trials, c.trials)
      /\ "mode" \in DOMAIN p => n.mode = Or(p.mode, "", c.mode)
      /\ "failure" \in DOMAIN p => n.failure = Or(p.failure, 0, c.failure)
      /\ "fixedK" \in DOMAIN p => n.fixedK = Or(p.fixedK, 0, c.fixedK)
      /\ "reliability" \in DOMAIN p => n.reliability = normalizeProfileReliability(c.reliability, p.reliability)
  BY DEF NormalizedProfile
<1>5. /\ DOMAIN m = DOMAIN n /\ m = [x \in DOMAIN n |-> m[x]]
      /\ \A x \in DOMAIN n \ Set : m[x] = n[x]
  <2>. HIDE DEF n
  <2>. QED
    BY DEF NormalizedProfile
<1>6. /\ "trials" \in DOMAIN n => m.trials = Positive(n.trials, c.trials)
      /\ "mode" \in DOMAIN n => m.mode = Or(n.mode, "", c.mode)
      /\ "failure" \in DOMAIN n => m.failure = Or(n.failure, 0, c.failure)
      /\ "fixedK" \in DOMAIN n => m.fixedK = Or(n.fixedK, 0, c.fixedK)
      /\ "reliability" \in DOMAIN n => m.reliability = normalizeProfileReliability(c.reliability, n.reliability)
  <2>. HIDE DEF n
  <2>. QED
    BY DEF NormalizedProfile
<1>. HIDE DEF n, m
<1>7. /\ "trials" \in DOMAIN n => m.trials = n.trials
      /\ "mode" \in DOMAIN n => m.mode = n.mode
      /\ "failure" \in DOMAIN n => m.failure = n.failure
      /\ "fixedK" \in DOMAIN n => m.fixedK = n.fixedK
  BY <1>3, <1>4, <1>6 DEF Or, Positive
<1>8. "reliability" \in DOMAIN n => m.reliability = n.reliability
  <2>. DEFINE r == normalizeProfileReliability(c.reliability, p.reliability)
  <2>1. normalizeProfileReliability(c.reliability, r) = r
    BY ReliabilityTwice
  <2>. HIDE DEF r
  <2>2. SUFFICES ASSUME "reliability" \in DOMAIN n PROVE m.reliability = n.reliability
    OBVIOUS
  <2>3. n.reliability = r
    BY <1>3, <1>4, <2>2 DEF r
  <2>4. m.reliability = normalizeProfileReliability(c.reliability, n.reliability)
    BY <1>6, <2>2
  <2>. QED
    BY <2>1, <2>3, <2>4
<1>9. \A x \in DOMAIN n : m[x] = n[x]
  BY <1>5, <1>7, <1>8
<1>10. m = n
  BY <1>3, <1>5, <1>9
<1>. QED
  BY <1>2, <1>10 DEF n, m

IsProfile(p) == DOMAIN p = DOMAIN Unconfigured("")

Shaped(c) ==
  /\ DOMAIN c = Fields /\ DOMAIN c.gate = DOMAIN EmptyGate
  /\ c.profiles \in Seq(Range(c.profiles)) /\ c.baselines \in Seq(Range(c.baselines))
  /\ \A p \in Range(c.profiles) : IsProfile(p)

\* The profiles before they inherit.
Own(c) == IF c.profiles = << >> THEN <<DefaultProfile(WithDefaults(c))>> ELSE c.profiles

LEMMA OwnProfiles ==
  ASSUME NEW c, Shaped(c)
  PROVE  /\ Own(c) # << >> /\ Own(c) \in Seq(Range(Own(c))) /\ \A p \in Range(Own(c)) : IsProfile(p)
         /\ NormalizedProfiles(c) = [i \in DOMAIN Own(c) |-> NormalizedProfile(WithDefaults(c), Own(c)[i])]
<1>1. NormalizedProfiles(c) = [i \in DOMAIN Own(c) |-> NormalizedProfile(WithDefaults(c), Own(c)[i])]
  BY DEF NormalizedProfiles, Own
<1>2. CASE c.profiles = << >>
  <2>. DEFINE p == DefaultProfile(WithDefaults(c))
  <2>1. Own(c) = <<p>>
    BY <1>2 DEF Own
  <2>0. IsProfile(p)
    BY DEF IsProfile, DefaultProfile, Unconfigured
  <2>. HIDE DEF p
  <2>2. DOMAIN <<p>> = 1 .. 1 /\ <<p>>[1] = p /\ <<p>> # << >>
    OBVIOUS
  <2>3. Range(<<p>>) = {p}
    BY <2>2 DEF Range
  <2>. QED
    BY <1>1, <2>0, <2>1, <2>2, <2>3
<1>3. CASE c.profiles # << >>
  BY <1>1, <1>3 DEF Own, Shaped
<1>. QED
  BY <1>2, <1>3

LEMMA ProfilesTwice ==
  ASSUME NEW c, Shaped(c), NEW d, d.profiles = NormalizedProfiles(c),
         Inherited(WithDefaults(d)) = Inherited(WithDefaults(c))
  PROVE  NormalizedProfiles(d) = NormalizedProfiles(c)
<1>. DEFINE own == Own(c)
            n == [i \in DOMAIN own |-> NormalizedProfile(WithDefaults(c), own[i])]
<1>1. d.profiles = n /\ NormalizedProfiles(c) = n
  BY OwnProfiles
<1>2. n # << >>
  <2>1. own # << >> /\ own \in Seq(Range(own))
    BY OwnProfiles
  <2>. HIDE DEF own
  <2>2. 1 \in DOMAIN own
    BY <2>1
  <2>3. DOMAIN n = DOMAIN own
    OBVIOUS
  <2>. HIDE DEF n
  <2>. QED
    BY <2>2, <2>3
<1>3. \A i \in DOMAIN n : NormalizedProfile(WithDefaults(d), n[i]) = n[i]
  <2>1. TAKE i \in DOMAIN n
  <2>2. NormalizedProfile(WithDefaults(c), NormalizedProfile(WithDefaults(c), own[i])) = NormalizedProfile(WithDefaults(c), own[i])
    BY ProfileTwice
  <2>3. n[i] = NormalizedProfile(WithDefaults(c), own[i])
    BY <2>1
  <2>4. NormalizedProfile(WithDefaults(d), n[i]) = NormalizedProfile(WithDefaults(c), n[i])
    BY ProfileTwice
  <2>. QED
    BY <2>2, <2>3, <2>4
<1>4. NormalizedProfiles(d) = [i \in DOMAIN d.profiles |-> NormalizedProfile(WithDefaults(d), d.profiles[i])]
  BY <1>1, <1>2 DEF NormalizedProfiles
<1>5. n = [i \in DOMAIN n |-> n[i]]
  OBVIOUS
<1>. HIDE DEF n
<1>. QED
  BY <1>1, <1>3, <1>4, <1>5

LEMMA SweepsTwice ==
  ASSUME NEW c, NEW d, d.sweeps = NormalizedSweeps(c)
  PROVE  NormalizedSweeps(d) = NormalizedSweeps(c)
<1>. DEFINE N(s) == [s EXCEPT !.level = Or(@, 0, 95)]
            n == [i \in DOMAIN c.sweeps |-> N(c.sweeps[i])]
<1>1. \A s : N(N(s)) = N(s)
  BY DEF Or
<1>2. NormalizedSweeps(c) = n /\ NormalizedSweeps(d) = [i \in DOMAIN n |-> N(n[i])]
  BY DEF NormalizedSweeps
<1>3. \A i \in DOMAIN n : N(n[i]) = n[i]
  <2>. HIDE DEF N
  <2>. QED
    BY <1>1
<1>4. n = [i \in DOMAIN n |-> n[i]]
  OBVIOUS
<1>. HIDE DEF n, N
<1>. QED
  BY <1>2, <1>3, <1>4

LEMMA ImportanceTwice ==
  ASSUME NEW c, NEW d, d.importance = NormalizedImportance(c)
  PROVE  NormalizedImportance(d) = NormalizedImportance(c)
<1>. DEFINE N(s) == [s EXCEPT !.method = Or(@, "", "birnbaum"), !.level = Or(@, 0, 95),
                              !.kinds = Or(@, << >>, <<"service", "edge">>)]
            n == [i \in DOMAIN c.importance |-> N(c.importance[i])]
<1>1. ASSUME NEW s PROVE N(N(s)) = N(s)
  <2>. DEFINE a == N(s)
              b == N(a)
  <2>1. /\ DOMAIN a = DOMAIN s /\ a = [x \in DOMAIN s |-> a[x]]
        /\ "method" \in DOMAIN s => a.method = Or(s.method, "", "birnbaum")
        /\ "level" \in DOMAIN s => a.level = Or(s.level, 0, 95)
        /\ "kinds" \in DOMAIN s => a.kinds = Or(s.kinds, << >>, <<"service", "edge">>)
        /\ \A x \in DOMAIN s \ {"method", "level", "kinds"} : a[x] = s[x]
    OBVIOUS
  <2>. HIDE DEF a
  <2>2. /\ DOMAIN b = DOMAIN a /\ b = [x \in DOMAIN a |-> b[x]]
        /\ "method" \in DOMAIN a => b.method = Or(a.method, "", "birnbaum")
        /\ "level" \in DOMAIN a => b.level = Or(a.level, 0, 95)
        /\ "kinds" \in DOMAIN a => b.kinds = Or(a.kinds, << >>, <<"service", "edge">>)
        /\ \A x \in DOMAIN a \ {"method", "level", "kinds"} : b[x] = a[x]
    OBVIOUS
  <2>. HIDE DEF b
  <2>3. \A x \in DOMAIN a : b[x] = a[x]
    BY <2>1, <2>2 DEF Or
  <2>4. b = a
    BY <2>1, <2>2, <2>3
  <2>. QED
    BY <2>4 DEF a, b
<1>2. NormalizedImportance(c) = n /\ NormalizedImportance(d) = [i \in DOMAIN n |-> N(n[i])]
  BY DEF NormalizedImportance
<1>3. \A i \in DOMAIN n : N(n[i]) = n[i]
  <2>. HIDE DEF N
  <2>. QED
    BY <1>1
<1>4. n = [i \in DOMAIN n |-> n[i]]
  OBVIOUS
<1>. HIDE DEF n, N
<1>. QED
  BY <1>2, <1>3, <1>4

LEMMA PositiveTwice == \A x, d : Positive(Positive(x, d), d) = Positive(x, d)
BY DEF Positive

\* Normalising an analysis once more changes nothing.
LEMMA NormalizedTwice ==
  ASSUME NEW c, Shaped(c)
  PROVE  Shaped(Normalized(c)) /\ Normalized(Normalized(c)) = Normalized(c)
<1>. DEFINE n == Normalized(c)
            nn == Normalized(n)
<1>1. DOMAIN c = Fields /\ DOMAIN c.gate = DOMAIN EmptyGate
  BY DEF Shaped
<1>2. /\ DOMAIN n = Fields /\ n = [x \in Fields |-> n[x]] /\ Scalars(c, n)
      /\ n.profiles = NormalizedProfiles(c) /\ n.sweeps = NormalizedSweeps(c)
      /\ n.importance = NormalizedImportance(c) /\ \A x \in Kept : n[x] = c[x]
  BY <1>1, NormalizedIs
<1>. HIDE DEF n
<1>3. /\ DOMAIN nn = Fields /\ nn = [x \in Fields |-> nn[x]] /\ Scalars(n, nn)
      /\ nn.profiles = NormalizedProfiles(n) /\ nn.sweeps = NormalizedSweeps(n)
      /\ nn.importance = NormalizedImportance(n) /\ \A x \in Kept : nn[x] = n[x]
  BY <1>2, NormalizedIs
<1>. HIDE DEF nn
<1>4. n.gate = NormalizedGate(c.gate) /\ n.policy = NormalizedPolicy(c.policy)
  BY <1>2 DEF Scalars
<1>5. DOMAIN n.gate = DOMAIN EmptyGate
  BY <1>1, <1>4, GateIs
<1>6. /\ n.version = Or(c.version, 0, 10) /\ n.seed = Or(c.seed, 0, 42)
      /\ n.trials = Positive(c.trials, DefaultTrials) /\ n.mode = Or(c.mode, "", "independent_replica")
      /\ n.failure = Or(c.failure, 0, 5)
  BY <1>2 DEF Scalars
<1>7. /\ nn.version = n.version /\ nn.seed = n.seed /\ nn.trials = n.trials
      /\ nn.mode = n.mode /\ nn.failure = n.failure
  <2>1. /\ nn.version = Or(n.version, 0, 10) /\ nn.seed = Or(n.seed, 0, 42)
        /\ nn.trials = Positive(n.trials, DefaultTrials) /\ nn.mode = Or(n.mode, "", "independent_replica")
        /\ nn.failure = Or(n.failure, 0, 5)
    BY <1>3 DEF Scalars
  <2>2. nn.version = n.version /\ nn.seed = n.seed /\ nn.failure = n.failure
    BY <1>6, <2>1 DEF Or
  <2>3. nn.mode = n.mode
    BY <1>6, <2>1 DEF Or
  <2>4. nn.trials = n.trials
    BY <1>6, <2>1, PositiveTwice
  <2>. QED
    BY <2>2, <2>3, <2>4
<1>8. nn.policy = n.policy /\ nn.gate = n.gate
  <2>1. nn.policy = NormalizedPolicy(n.policy) /\ nn.gate = NormalizedGate(n.gate)
    BY <1>3 DEF Scalars
  <2>. QED
    BY <1>1, <1>4, <2>1, PolicyTwice, GateTwice
<1>9. nn.profiles = n.profiles
  <2>1. Inherited(WithDefaults(n)) = Inherited(n)
    <3>. DEFINE d == WithDefaults(n)
    <3>1. Scalars(n, d) /\ \A x \in Kept : d[x] = n[x]
      BY <1>2, DefaultsAre
    <3>2. Scalars(n, nn)
      BY <1>3
    <3>. HIDE DEF d
    <3>3. d.trials = nn.trials /\ d.mode = nn.mode /\ d.failure = nn.failure
      BY <3>1, <3>2 DEF Scalars
    <3>4. d.fixedK = n.fixedK /\ d.reliability = n.reliability
      BY <3>1 DEF Kept
    <3>5. Inherited(d) = Inherited(n)
      BY <1>7, <3>3, <3>4 DEF Inherited
    <3>. QED
      BY <3>5 DEF d
  <2>2. Inherited(WithDefaults(c)) = Inherited(n)
    <3>. DEFINE d == WithDefaults(c)
    <3>1. Scalars(c, d) /\ \A x \in Kept : d[x] = c[x]
      BY <1>1, DefaultsAre
    <3>. HIDE DEF d
    <3>3. d.trials = n.trials /\ d.mode = n.mode /\ d.failure = n.failure
      BY <1>2, <3>1 DEF Scalars
    <3>4. d.fixedK = n.fixedK /\ d.reliability = n.reliability
      BY <1>2, <3>1 DEF Kept
    <3>5. Inherited(d) = Inherited(n)
      BY <3>3, <3>4 DEF Inherited
    <3>. QED
      BY <3>5 DEF d
  <2>. QED
    BY <1>2, <1>3, <2>1, <2>2, ProfilesTwice
<1>10. nn.sweeps = n.sweeps /\ nn.importance = n.importance
  BY <1>2, <1>3, SweepsTwice, ImportanceTwice
<1>11. \A x \in Fields : nn[x] = n[x]
  BY <1>3, <1>7, <1>8, <1>9, <1>10 DEF Fields, Kept
<1>12. nn = n
  BY <1>2, <1>3, <1>11
<1>13. n.profiles \in Seq(Range(n.profiles)) /\ \A p \in Range(n.profiles) : IsProfile(p)
  <2>. DEFINE own == Own(c)
              q == [i \in DOMAIN own |-> NormalizedProfile(WithDefaults(c), own[i])]
  <2>1. own \in Seq(Range(own)) /\ n.profiles = q /\ \A p \in Range(own) : IsProfile(p)
    BY <1>2, OwnProfiles
  <2>. HIDE DEF own
  <2>2. DOMAIN own = 1 .. Len(own) /\ Len(own) \in Nat
    BY <2>1
  <2>3. DOMAIN q = 1 .. Len(own) /\ \A i \in DOMAIN q : q[i] \in Range(q)
    BY <2>2 DEF Range
  <2>0. \A p \in Range(q) : IsProfile(p)
    <3>1. SUFFICES ASSUME NEW i \in DOMAIN own PROVE IsProfile(NormalizedProfile(WithDefaults(c), own[i]))
      BY DEF Range
    <3>2. IsProfile(own[i])
      BY <2>1 DEF Range
    <3>3. DOMAIN NormalizedProfile(WithDefaults(c), own[i]) = DOMAIN own[i]
      BY DEF NormalizedProfile
    <3>. QED
      BY <3>2, <3>3 DEF IsProfile
  <2>4. q = [i \in 1 .. Len(own) |-> q[i]]
    BY <2>2
  <2>. HIDE DEF q
  <2>5. q \in Seq(Range(q))
    BY <2>2, <2>3, <2>4
  <2>. QED
    BY <2>0, <2>1, <2>5
<1>14. n.baselines \in Seq(Range(n.baselines))
  BY <1>2 DEF Kept, Shaped
<1>. QED
  BY <1>2, <1>5, <1>12, <1>13, <1>14 DEF Shaped, n, nn

-----------------------------------------------------------------------------
(* What a command changes in an accepted configuration.                    *)

\* What validation looks at, beside the policy, the gate and the baselines.
Judged == {"version", "trials", "mode", "failure", "reliability", "fixedK", "faultContract", "weights",
           "profiles", "sweeps", "importance"}

Alike(c, d) == \A x \in Judged : d[x] = c[x]

LEMMA AlikeNormalized ==
  ASSUME NEW c, NEW d, Shaped(c), Shaped(d), Alike(c, d)
  PROVE  Alike(Normalized(c), Normalized(d))
<1>1. /\ DOMAIN c = Fields /\ DOMAIN d = Fields
      /\ d.version = c.version /\ d.trials = c.trials /\ d.mode = c.mode /\ d.failure = c.failure
  BY DEF Shaped, Alike, Judged
<1>2. /\ d.reliability = c.reliability /\ d.fixedK = c.fixedK /\ d.weights = c.weights
      /\ d.faultContract = c.faultContract
      /\ d.profiles = c.profiles /\ d.sweeps = c.sweeps /\ d.importance = c.importance
  BY DEF Alike, Judged
<1>. DEFINE m == Normalized(c)
            n == Normalized(d)
<1>3. /\ Scalars(c, m) /\ m.profiles = NormalizedProfiles(c) /\ m.sweeps = NormalizedSweeps(c)
      /\ m.importance = NormalizedImportance(c) /\ \A x \in Kept : m[x] = c[x]
  BY <1>1, NormalizedIs
<1>4. /\ Scalars(d, n) /\ n.profiles = NormalizedProfiles(d) /\ n.sweeps = NormalizedSweeps(d)
      /\ n.importance = NormalizedImportance(d) /\ \A x \in Kept : n[x] = d[x]
  BY <1>1, NormalizedIs
<1>. HIDE DEF m, n
<1>5. n.version = m.version /\ n.trials = m.trials /\ n.mode = m.mode /\ n.failure = m.failure
  BY <1>1, <1>3, <1>4 DEF Scalars
<1>6. /\ n.reliability = m.reliability /\ n.fixedK = m.fixedK /\ n.weights = m.weights
      /\ n.faultContract = m.faultContract
  BY <1>2, <1>3, <1>4 DEF Kept
<1>7. n.sweeps = m.sweeps /\ n.importance = m.importance
  <2>1. NormalizedSweeps(d) = NormalizedSweeps(c)
    BY <1>2 DEF NormalizedSweeps
  <2>2. NormalizedImportance(d) = NormalizedImportance(c)
    BY <1>2 DEF NormalizedImportance
  <2>. QED
    BY <1>3, <1>4, <2>1, <2>2
<1>8. n.profiles = m.profiles
  <2>. DEFINE p == WithDefaults(c)
              q == WithDefaults(d)
  <2>1. Scalars(c, p) /\ \A x \in Kept : p[x] = c[x]
    BY <1>1, DefaultsAre
  <2>2. Scalars(d, q) /\ \A x \in Kept : q[x] = d[x]
    BY <1>1, DefaultsAre
  <2>. HIDE DEF p, q
  <2>3. q.trials = p.trials /\ q.mode = p.mode /\ q.failure = p.failure
    BY <1>1, <2>1, <2>2 DEF Scalars
  <2>4. q.fixedK = p.fixedK /\ q.reliability = p.reliability /\ q.weights = p.weights
    BY <1>2, <2>1, <2>2 DEF Kept
  <2>5. Inherited(q) = Inherited(p)
    BY <2>3, <2>4 DEF Inherited
  <2>6. DefaultProfile(q) = DefaultProfile(p)
    BY <2>3, <2>4 DEF DefaultProfile
  <2>7. Own(c) = Own(d)
    BY <1>2, <2>6 DEF Own, p, q
  <2>8. \A i \in DOMAIN Own(c) : NormalizedProfile(q, Own(d)[i]) = NormalizedProfile(p, Own(c)[i])
    BY <2>5, <2>7, ProfileTwice
  <2>9. /\ NormalizedProfiles(c) = [i \in DOMAIN Own(c) |-> NormalizedProfile(p, Own(c)[i])]
        /\ NormalizedProfiles(d) = [i \in DOMAIN Own(d) |-> NormalizedProfile(q, Own(d)[i])]
    BY OwnProfiles DEF p, q
  <2>. QED
    BY <1>3, <1>4, <2>7, <2>8, <2>9
<1>9. Alike(m, n)
  BY <1>5, <1>6, <1>7, <1>8 DEF Alike, Judged
<1>. QED
  BY <1>9 DEF m, n

LEMMA AlikeValid ==
  ASSUME NEW c, NEW d, Alike(c, d), Validate(c), ValidPolicy(d.policy), ValidGate(d.gate),
         \/ d.baselines = c.baselines /\ d.gate.boundaryRules = c.gate.boundaryRules
         \/ d.baselines = << >> /\ d.gate.boundaryRules = << >>
  PROVE  Validate(d)
<1>1. /\ d.version = c.version /\ d.reliability = c.reliability /\ d.weights = c.weights
      /\ d.faultContract = c.faultContract
      /\ d.profiles = c.profiles /\ d.sweeps = c.sweeps /\ d.importance = c.importance
  BY DEF Alike, Judged
<1>2. ValidVersion(d)
  BY <1>1 DEF Validate, ValidVersion
<1>3. \A p : ValidProfile(d, p) <=> ValidProfile(c, p)
  BY <1>1 DEF ValidProfile
<1>4. \A s : validateSweep(d, s) <=> validateSweep(c, s)
  BY <1>1 DEF validateSweep, ProfileNames
<1>5. /\ \A r \in Range(d.gate.boundaryRules) : validateBoundaryRule(d, r)
      /\ \A b \in Range(d.baselines) : b.name # "" /\ b.path # ""
  <2>1. CASE d.baselines = c.baselines /\ d.gate.boundaryRules = c.gate.boundaryRules
    <3>1. \A r : validateBoundaryRule(d, r) <=> validateBoundaryRule(c, r)
      BY <1>1, <2>1 DEF validateBoundaryRule, BaselineNames
    <3>. QED
      BY <2>1, <3>1 DEF Validate
  <2>2. CASE d.baselines = << >> /\ d.gate.boundaryRules = << >>
    BY <2>2 DEF Range
  <2>. QED
    BY <2>1, <2>2
<1>6. \A i : validateImportance(d, i) <=> validateImportance(c, i)
  BY <1>1 DEF validateImportance
<1>. QED
  BY <1>1, <1>2, <1>3, <1>4, <1>5, <1>6 DEF Validate

LEMMA PolicyStaysValid == \A p : ValidPolicy(NormalizedPolicy(p)) <=> ValidPolicy(p)
<1>1. SUFFICES ASSUME NEW p PROVE ValidPolicy(NormalizedPolicy(p)) <=> ValidPolicy(p)
  OBVIOUS
<1>. DEFINE n == NormalizedPolicy(p)
<1>2. n.kinds = p.kinds /\ n.allowed = p.allowed /\ n.deprecated = p.deprecated
  BY DEF NormalizedPolicy
<1>3. NormalizedPolicy(n) = n
  BY PolicyTwice
<1>. HIDE DEF n
<1>4. ValidPolicy(n) <=> ValidPolicy(p)
  BY <1>2, <1>3 DEF ValidPolicy, n
<1>. QED
  BY <1>4 DEF n

\* An analysis that differs from an accepted one in what validation does not
\* look at is accepted, with any valid policy.
LEMMA StaysAccepted ==
  ASSUME NEW c, NEW d, Shaped(c), Shaped(d), Alike(c, d), Validate(Normalized(c)), ValidPolicy(d.policy),
         \/ d.baselines = c.baselines /\ d.gate = c.gate
         \/ d.baselines = << >> /\ d.gate = [c.gate EXCEPT !.boundaryRules = << >>]
  PROVE  Validate(Normalized(d))
<1>. DEFINE m == Normalized(c)
            n == Normalized(d)
<1>1. /\ m.gate = NormalizedGate(c.gate) /\ m.baselines = c.baselines
  BY NormalizedIs DEF Shaped, Scalars, Kept
<1>2. /\ n.policy = NormalizedPolicy(d.policy) /\ n.gate = NormalizedGate(d.gate) /\ n.baselines = d.baselines
  BY NormalizedIs DEF Shaped, Scalars, Kept
<1>3. Alike(m, n)
  BY AlikeNormalized
<1>4. ValidPolicy(n.policy)
  BY <1>2, PolicyStaysValid
<1>. HIDE DEF m, n
<1>5. ValidGate(m.gate)
  BY DEF Validate, m
<1>6. CASE d.baselines = c.baselines /\ d.gate = c.gate
  <2>1. n.baselines = m.baselines /\ n.gate = m.gate
    BY <1>1, <1>2, <1>6
  <2>. QED
    BY <1>3, <1>4, <1>5, <2>1, AlikeValid DEF m, n
<1>7. CASE d.baselines = << >> /\ d.gate = [c.gate EXCEPT !.boundaryRules = << >>]
  <2>. DEFINE g == d.gate
  <2>1. DOMAIN c.gate = DOMAIN EmptyGate /\ "boundaryRules" \in DOMAIN EmptyGate
    BY DEF Shaped, EmptyGate
  <2>2. /\ DOMAIN g = DOMAIN EmptyGate /\ g.boundaryRules = << >>
        /\ \A x \in DOMAIN EmptyGate \ {"boundaryRules"} : g[x] = c.gate[x]
    BY <1>7, <2>1
  <2>. HIDE DEF g
  <2>3. g.mode = c.gate.mode /\ g.defaultAction = c.gate.defaultAction /\ g.rule = c.gate.rule
        /\ g.global = c.gate.global
    BY <2>2 DEF EmptyGate
  <2>4. /\ n.gate.mode = m.gate.mode /\ n.gate.defaultAction = m.gate.defaultAction
        /\ n.gate.rule = m.gate.rule /\ n.gate.global = m.gate.global
    <3>1. /\ m.gate.mode = Or(c.gate.mode, "", "warn")
          /\ m.gate.defaultAction = Or(c.gate.defaultAction, "", Or(c.gate.mode, "", "warn"))
          /\ m.gate.rule = Or(c.gate.rule, "", "all_profiles") /\ m.gate.global = Or(c.gate.global, 0, 99)
      BY <1>1, <2>1, GateIs
    <3>2. n.gate = NormalizedGate(g)
      BY <1>2 DEF g
    <3>3. /\ n.gate.mode = Or(g.mode, "", "warn")
          /\ n.gate.defaultAction = Or(g.defaultAction, "", Or(g.mode, "", "warn"))
          /\ n.gate.rule = Or(g.rule, "", "all_profiles") /\ n.gate.global = Or(g.global, 0, 99)
      BY <2>2, <3>2, GateIs
    <3>. QED
      BY <2>3, <3>1, <3>3
  <2>5. \A x \in DOMAIN EmptyGate \ {"mode", "defaultAction", "rule", "global"} :
          n.gate[x] = g[x] /\ m.gate[x] = c.gate[x]
    <3>1. \A x \in DOMAIN g \ {"mode", "defaultAction", "rule", "global"} : NormalizedGate(g)[x] = g[x]
      BY <2>2, GateIs
    <3>2. \A x \in DOMAIN c.gate \ {"mode", "defaultAction", "rule", "global"} : NormalizedGate(c.gate)[x] = c.gate[x]
      BY <2>1, GateIs
    <3>. QED
      BY <1>1, <1>2, <2>1, <2>2, <3>1, <3>2 DEF g
  <2>6. /\ n.gate.aggregate = m.gate.aggregate /\ n.gate.cross = m.gate.cross
        /\ n.gate.endpoints = m.gate.endpoints /\ n.gate.profileAggregates = m.gate.profileAggregates
        /\ n.gate.profileEndpoints = m.gate.profileEndpoints
    BY <2>2, <2>5 DEF EmptyGate
  <2>7. n.gate.boundaryRules = << >> /\ n.baselines = << >>
    BY <1>2, <1>7, <2>1, <2>2, <2>5
  <2>8. ValidGate(n.gate)
    BY <1>5, <2>4, <2>6 DEF ValidGate
  <2>. QED
    BY <1>3, <1>4, <2>7, <2>8, AlikeValid DEF m, n
<1>. QED
  BY <1>6, <1>7

-----------------------------------------------------------------------------
(* Everything that loading returns is usable.                              *)

\* A loaded configuration has its shape, and normalising it makes it valid.
Usable(c) == Shaped(c) /\ Validate(Normalized(c))

LEMMA ShapedAnalyses == \A a : IsAnalysis(a) => Shaped(a)
<1>1. DOMAIN EmptyAnalysis = Fields
  BY DEF EmptyAnalysis, Fields
<1>. QED
  BY <1>1 DEF IsAnalysis, Shaped, IsProfile

LEMMA PositiveIs == /\ \A x, d : x > 0 /\ d > 0 => Positive(x, d) > 0
                    /\ \A x : x > 0 => Positive(x, DefaultTrials) > 0
BY DEF Positive, DefaultTrials

LEMMA UnitOr ==
  ASSUME NEW x, InUnit(x)
  PROVE  /\ \A d : InUnit(d) => InUnit(Or(x, 0, d))
         /\ InUnit(Or(x, 0, 5)) /\ InUnit(Or(x, 0, 99))
BY DEF InUnit, Percent, Or

LEMMA NoPolicyValid == ValidPolicy(NoPolicy)
<1>1. DOMAIN << >> = {} /\ Range(<< >>) = {} /\ IsInjective(<< >>)
  BY DEF Range, IsInjective
<1>2. NoPolicy.kinds = << >> /\ NoPolicy.allowed = << >> /\ NoPolicy.deprecated = << >>
  BY DEF NoPolicy
<1>3. NormalizedPolicy(NoPolicy).deprecatedAction = "warn"
  BY DEF NormalizedPolicy, NoPolicy, Or
<1>. QED
  BY <1>1, <1>2, <1>3 DEF ValidPolicy

LEMMA PolicyUsable ==
  ASSUME NEW p, ValidPolicyFile(p)
  PROVE  Usable(ToAnalysisConfig(p))
<1>. DEFINE profile == [Unconfigured("default") EXCEPT !.trials = p.trials, !.failure = p.failure,
                                                       !.mode = "independent_replica"]
            gate == [EmptyGate EXCEPT !.mode = p.mode, !.defaultAction = p.defaultAction,
                          !.rule = "all_profiles", !.global = p.global, !.endpoints = p.endpoints]
            c == [EmptyAnalysis EXCEPT
                    !.version = 10, !.seed = 42, !.trials = p.trials, !.failure = p.failure,
                    !.mode = "independent_replica", !.profiles = <<profile>>, !.gate = gate]
            d == [c EXCEPT !.sources = BuildPolicyParameterSources(c)]
<1>1. ToAnalysisConfig(p) = d
  BY DEF ToAnalysisConfig
<1>2. /\ profile.name = "default" /\ profile.trials = p.trials /\ profile.failure = p.failure
      /\ profile.mode = "independent_replica" /\ profile.reliability = NoReliability
      /\ profile.fixedK = 0 /\ profile.fault = "" /\ profile.weights = << >>
  BY DEF Unconfigured
<1>3. /\ gate.mode = p.mode /\ gate.defaultAction = p.defaultAction /\ gate.rule = "all_profiles"
      /\ gate.global = p.global /\ gate.endpoints = p.endpoints /\ gate.aggregate = Nil /\ gate.cross = Nil
      /\ gate.profileAggregates = << >> /\ gate.profileEndpoints = << >> /\ gate.boundaryRules = << >>
      /\ DOMAIN gate = DOMAIN EmptyGate
  BY DEF EmptyGate
<1>. HIDE DEF profile, gate
<1>4. /\ DOMAIN c = Fields /\ c.version = 10 /\ c.trials = p.trials /\ c.failure = p.failure
      /\ c.mode = "independent_replica" /\ c.profiles = <<profile>> /\ c.gate = gate
      /\ c.reliability = NoReliability /\ c.fixedK = 0 /\ c.faultContract = Nil /\ c.weights = << >>
      /\ c.sweeps = << >> /\ c.importance = << >> /\ c.baselines = << >> /\ c.policy = NoPolicy
  BY DEF EmptyAnalysis, Fields
<1>. HIDE DEF c
<1>5. /\ DOMAIN d = Fields /\ d.version = 10 /\ d.trials = p.trials /\ d.failure = p.failure
      /\ d.mode = "independent_replica" /\ d.profiles = <<profile>> /\ d.gate = gate
      /\ d.reliability = NoReliability /\ d.fixedK = 0 /\ d.faultContract = Nil /\ d.weights = << >>
      /\ d.sweeps = << >> /\ d.importance = << >> /\ d.baselines = << >> /\ d.policy = NoPolicy
  BY <1>4 DEF Fields
<1>. HIDE DEF d
<1>6. Shaped(d)
  <2>1. Range(<<profile>>) = {profile} /\ <<profile>> \in Seq({profile})
    BY DEF Range
  <2>2. IsProfile(profile)
    BY DEF IsProfile, profile, Unconfigured
  <2>3. << >> \in Seq(Range(<< >>))
    OBVIOUS
  <2>. QED
    BY <1>3, <1>5, <2>1, <2>2, <2>3 DEF Shaped
<1>. DEFINE n == Normalized(d)
<1>7. /\ Scalars(d, n) /\ n.profiles = NormalizedProfiles(d) /\ n.sweeps = NormalizedSweeps(d)
      /\ n.importance = NormalizedImportance(d) /\ \A x \in Kept : n[x] = d[x]
  BY <1>5, NormalizedIs
<1>. HIDE DEF n
<1>8. /\ n.version = 10 /\ n.policy = NormalizedPolicy(NoPolicy) /\ n.gate = NormalizedGate(gate)
      /\ n.mode = "independent_replica"
  BY <1>5, <1>7 DEF Scalars, Or
<1>9. /\ n.reliability = NoReliability /\ n.fixedK = 0 /\ n.faultContract = Nil /\ n.weights = << >>
      /\ n.baselines = << >>
  BY <1>5, <1>7 DEF Kept
<1>10. n.sweeps = << >> /\ n.importance = << >>
  BY <1>5, <1>7 DEF NormalizedSweeps, NormalizedImportance
<1>11. DOMAIN << >> = {} /\ Range(<< >>) = {} /\ ValidShares(<< >>) /\ ValidWeights(<< >>)
  BY DEF Range, ValidShares, ValidWeights
<1>12. ValidVersion(n) /\ ValidWeights(n.weights)
  BY <1>8, <1>9, <1>10, <1>11 DEF ValidVersion
<1>13. validateReliability(NoReliability)
  BY <1>11 DEF validateReliability, NoReliability, OptInUnit
<1>15. ValidGate(n.gate) /\ n.gate.boundaryRules = << >>
  <2>1. /\ n.gate.mode = Or(p.mode, "", "warn")
        /\ n.gate.defaultAction = Or(p.defaultAction, "", Or(p.mode, "", "warn"))
        /\ n.gate.rule = "all_profiles" /\ n.gate.global = Or(p.global, 0, 99)
    <3>1. NormalizedGate(gate).rule = Or(gate.rule, "", "all_profiles")
      BY <1>3, GateIs
    <3>2. Or(gate.rule, "", "all_profiles") = "all_profiles"
      BY <1>3 DEF Or
    <3>3. /\ NormalizedGate(gate).mode = Or(gate.mode, "", "warn")
          /\ NormalizedGate(gate).defaultAction = Or(gate.defaultAction, "", Or(gate.mode, "", "warn"))
          /\ NormalizedGate(gate).global = Or(gate.global, 0, 99)
      BY <1>3, GateIs
    <3>. QED
      BY <1>3, <1>8, <3>1, <3>2, <3>3
  <2>2. \A x \in DOMAIN EmptyGate \ {"mode", "defaultAction", "rule", "global"} : n.gate[x] = gate[x]
    <3>1. \A x \in DOMAIN gate \ {"mode", "defaultAction", "rule", "global"} : NormalizedGate(gate)[x] = gate[x]
      BY <1>3, GateIs
    <3>. QED
      BY <1>3, <1>8, <3>1
  <2>3. /\ n.gate.aggregate = Nil /\ n.gate.cross = Nil /\ n.gate.endpoints = p.endpoints
        /\ n.gate.profileAggregates = << >> /\ n.gate.profileEndpoints = << >> /\ n.gate.boundaryRules = << >>
    BY <1>3, <2>2 DEF EmptyGate
  <2>4. p.mode \in Modes /\ p.defaultAction \in Modes /\ InUnit(p.global) /\ ValidShares(p.endpoints)
    BY DEF ValidPolicyFile
  <2>5. n.gate.mode \in Modes /\ n.gate.defaultAction \in Modes
    BY <2>1, <2>4 DEF Modes, Or
  <2>6. InUnit(n.gate.global)
    BY <2>1, <2>4, UnitOr
  <2>. QED
    BY <1>11, <2>1, <2>3, <2>4, <2>5, <2>6 DEF ValidGate, OptInUnit
<1>. DEFINE w == WithDefaults(d)
            np == NormalizedProfile(w, profile)
<1>16. n.profiles = <<np>>
  <2>1. Own(d) = <<profile>>
    BY <1>5 DEF Own
  <2>2. NormalizedProfiles(d) = [i \in DOMAIN <<profile>> |-> NormalizedProfile(w, <<profile>>[i])]
    BY <1>6, <2>1, OwnProfiles
  <2>. HIDE DEF w
  <2>. QED
    BY <1>7, <2>2
<1>17. /\ w.trials = Positive(p.trials, DefaultTrials) /\ w.failure = Or(p.failure, 0, 5)
       /\ w.mode = "independent_replica" /\ w.reliability = NoReliability
  <2>1. Scalars(d, w) /\ \A x \in Kept : w[x] = d[x]
    BY <1>5, DefaultsAre
  <2>. HIDE DEF w
  <2>. QED
    BY <1>5, <2>1 DEF Scalars, Kept, Or
<1>. HIDE DEF w
<1>18. /\ np.name = "default" /\ np.trials = Positive(p.trials, w.trials)
       /\ np.failure = Or(p.failure, 0, w.failure) /\ np.mode = "independent_replica"
       /\ np.reliability = normalizeProfileReliability(NoReliability, NoReliability)
       /\ np.fault = "" /\ np.weights = << >>
  <2>1. DOMAIN profile = DOMAIN Unconfigured("default")
    BY DEF profile
  <2>2. {"name", "trials", "failure", "mode", "reliability", "fault", "weights"} \subseteq DOMAIN profile
    BY <2>1 DEF Unconfigured
  <2>. QED
    BY <1>2, <1>17, <2>2 DEF NormalizedProfile, Or
<1>. HIDE DEF np
<1>19. ValidProfile(n, np)
  <2>1. np.trials > 0
    <3>1. p.trials > 0
      BY DEF ValidPolicyFile
    <3>2. w.trials > 0
      BY <1>17, <3>1, PositiveIs
    <3>. QED
      BY <1>18, <3>1, <3>2, PositiveIs
  <2>2. InUnit(np.failure)
    <3>1. InUnit(p.failure)
      BY DEF ValidPolicyFile
    <3>2. InUnit(w.failure)
      BY <1>17, <3>1, UnitOr
    <3>. QED
      BY <1>18, <3>1, <3>2, UnitOr
  <2>3. validateReliability(np.reliability)
    <3>1. normalizeProfileReliability(NoReliability, NoReliability).node = Nil
      BY DEF normalizeProfileReliability, NoReliability, Or
    <3>2. normalizeProfileReliability(NoReliability, NoReliability).edge = Nil
      BY DEF normalizeProfileReliability, NoReliability, Or
    <3>3. ValidShares(Over(<< >>, << >>))
      BY <1>11 DEF Over, ValidShares
    <3>4. /\ normalizeProfileReliability(NoReliability, NoReliability).services = Over(<< >>, << >>)
          /\ normalizeProfileReliability(NoReliability, NoReliability).edges = Over(<< >>, << >>)
      BY DEF normalizeProfileReliability, NoReliability
    <3>. QED
      BY <1>18, <3>1, <3>2, <3>3, <3>4 DEF validateReliability, OptInUnit
  <2>. QED
    BY <1>11, <1>18, <2>1, <2>2, <2>3 DEF ValidProfile, SamplingModes
<1>20. n.profiles # << >> /\ Range(n.profiles) = {np} /\ Unique(n.profiles)
  BY <1>16 DEF Range, Unique, IsInjective
<1>21. Unique(n.sweeps) /\ Unique(n.importance)
  BY <1>10, <1>11 DEF Unique, IsInjective
<1>22. ValidPolicy(n.policy)
  BY <1>8, NoPolicyValid, PolicyStaysValid
<1>23. Validate(n)
  BY <1>9, <1>10, <1>11, <1>12, <1>13, <1>15, <1>19, <1>20, <1>21, <1>22 DEF Validate
<1>. QED
  BY <1>1, <1>6, <1>23 DEF Usable, n, d

\* What a command adds to the configuration of its file is not judged.
LEMMA StaysUsable ==
  ASSUME NEW c, NEW d, Usable(c), DOMAIN d = Fields, Alike(c, d), d.policy = c.policy \/ ValidPolicy(d.policy),
         \/ d.baselines = c.baselines /\ d.gate = c.gate
         \/ d.baselines = << >> /\ d.gate = [c.gate EXCEPT !.boundaryRules = << >>]
  PROVE  Usable(d)
<1>1. Shaped(d)
  <2>1. DOMAIN d.gate = DOMAIN c.gate /\ d.profiles = c.profiles
    BY DEF Alike, Judged
  <2>2. << >> \in Seq(Range(<< >>))
    OBVIOUS
  <2>. QED
    BY <2>1, <2>2 DEF Usable, Shaped
<1>2. ValidPolicy(c.policy)
  <2>1. Normalized(c).policy = NormalizedPolicy(c.policy)
    BY NormalizedIs DEF Usable, Shaped, Scalars
  <2>. QED
    BY <2>1, PolicyStaysValid DEF Usable, Validate
<1>. QED
  BY <1>1, <1>2, StaysAccepted DEF Usable

LEMMA SourcesUsable ==
  ASSUME NEW c, Usable(c), NEW s
  PROVE  Usable([c EXCEPT !.sources = s])
<1>. DEFINE d == [c EXCEPT !.sources = s]
<1>1. DOMAIN c = Fields
  BY DEF Usable, Shaped
<1>2. DOMAIN d = Fields /\ \A x \in Fields \ {"sources"} : d[x] = c[x]
  BY <1>1
<1>. HIDE DEF d
<1>3. Alike(c, d) /\ d.policy = c.policy /\ d.baselines = c.baselines /\ d.gate = c.gate
  BY <1>2 DEF Alike, Judged, Fields
<1>4. Usable(d)
  BY <1>2, <1>3, StaysUsable
<1>. QED
  BY <1>4 DEF d

LEMMA NormalizedUsable ==
  ASSUME NEW c, Usable(c)
  PROVE  Usable(Normalized(c))
BY NormalizedTwice DEF Usable

LEMMA AttributedUsable ==
  ASSUME NEW a, IsAnalysis(a), Validate(Normalized(a))
  PROVE  Usable(Attributed(a))
<1>1. Usable(a)
  BY ShapedAnalyses DEF Usable
<1>. QED
  BY <1>1, NormalizedUsable, SourcesUsable DEF Attributed

LEMMA AnalysisUsable ==
  ASSUME NEW file, IsAnalysis(file.analysis), LoadAnalysis(file) # Nil
  PROVE  Usable(LoadAnalysis(file))
<1>1. CASE file.analysis.profiles = << >> /\ file.analysis.version = 0
  <2>. DEFINE p == LoadPolicy(file)
  <2>1. p # Nil /\ LoadAnalysis(file) = Normalized(ToAnalysisConfig(p))
    BY <1>1 DEF LoadAnalysis
  <2>2. ValidPolicyFile(p)
    BY <2>1 DEF LoadPolicy
  <2>. HIDE DEF p
  <2>. QED
    BY <2>1, <2>2, PolicyUsable, NormalizedUsable
<1>2. CASE ~(file.analysis.profiles = << >> /\ file.analysis.version = 0)
  <2>1. LoadAnalysis(file) = Attributed(file.analysis) /\ Validate(Normalized(file.analysis))
    BY <1>2 DEF LoadAnalysis
  <2>. QED
    BY <2>1, AttributedUsable
<1>. QED
  BY <1>1, <1>2

LEMMA FileUsable ==
  ASSUME NEW j, \A a \in AnalysesOf(j) : IsAnalysis(a), FileConfig(j) # Nil
  PROVE  Usable(FileConfig(j))
<1>1. CASE j.analysis # Nil
  <2>1. IsAnalysis(j.analysis.analysis)
    BY <1>1 DEF AnalysesOf
  <2>2. FileConfig(j) = LoadAnalysis(j.analysis)
    BY <1>1 DEF FileConfig
  <2>. QED
    BY <2>1, <2>2, AnalysisUsable
<1>2. CASE j.analysis = Nil
  <2>1. LoadPolicy(j.policy) # Nil /\ FileConfig(j) = ToAnalysisConfig(LoadPolicy(j.policy))
    BY <1>2 DEF FileConfig
  <2>2. ValidPolicyFile(LoadPolicy(j.policy))
    BY <2>1 DEF LoadPolicy
  <2>. QED
    BY <2>1, <2>2, PolicyUsable
<1>. QED
  BY <1>1, <1>2

LEMMA ContractPolicyUsable ==
  ASSUME NEW j, ContractPolicyLoads(j), NEW c, Usable(c)
  PROVE  Usable(WithContractPolicy(c, j.contractPolicy))
<1>1. CASE j.contractPolicy = Nil
  BY <1>1 DEF WithContractPolicy
<1>2. CASE j.contractPolicy # Nil
  <2>. DEFINE p == LoadContractPolicy(j.contractPolicy)
              d == [c EXCEPT !.policy = p]
  <2>1. ValidPolicy(p)
    BY <1>2, PolicyStaysValid DEF ContractPolicyLoads, LoadContractPolicy
  <2>2. WithContractPolicy(c, j.contractPolicy) = d
    BY <1>2 DEF WithContractPolicy
  <2>3. DOMAIN c = Fields
    BY DEF Usable, Shaped
  <2>. HIDE DEF p
  <2>4. DOMAIN d = Fields /\ d.policy = p /\ \A x \in Fields \ {"policy"} : d[x] = c[x]
    BY <2>3 DEF Fields
  <2>. HIDE DEF d
  <2>5. Alike(c, d) /\ d.baselines = c.baselines /\ d.gate = c.gate
    BY <2>4 DEF Alike, Judged, Fields
  <2>. QED
    BY <2>1, <2>2, <2>4, <2>5, StaysUsable
<1>. QED
  BY <1>1, <1>2

LEMMA SeedUsable ==
  ASSUME NEW c, Usable(c), NEW seed
  PROVE  Usable(WithSeed(c, seed))
<1>1. CASE seed = Nil
  BY <1>1 DEF WithSeed
<1>2. CASE seed # Nil
  <2>. DEFINE d == [c EXCEPT !.seed = seed, !.sources.seed = "override"]
  <2>1. WithSeed(c, seed) = d
    BY <1>2 DEF WithSeed
  <2>2. DOMAIN c = Fields
    BY DEF Usable, Shaped
  <2>3. DOMAIN d = Fields /\ \A x \in Fields \ {"seed", "sources"} : d[x] = c[x]
    BY <2>2
  <2>. HIDE DEF d
  <2>4. Alike(c, d) /\ d.policy = c.policy /\ d.baselines = c.baselines /\ d.gate = c.gate
    BY <2>3 DEF Alike, Judged, Fields
  <2>. QED
    BY <2>1, <2>3, <2>4, StaysUsable
<1>. QED
  BY <1>1, <1>2

\* A configuration in force: normalised, and accepted as it stands.
Steady(c) == Shaped(c) /\ Normalized(c) = c /\ Validate(c)

LEMMA NormalizedSteady ==
  ASSUME NEW c, Usable(c)
  PROVE  Steady(Normalized(c))
BY NormalizedTwice DEF Usable, Steady

LEMMA ExecutionSteady ==
  ASSUME NEW j, \A a \in AnalysesOf(j) : IsAnalysis(a), loadExecutionConfig(j) # Nil
  PROVE  Steady(loadExecutionConfig(j))
<1>. DEFINE c == WithSeed(WithContractPolicy(FileConfig(j), j.contractPolicy), j.seed)
            d == [c EXCEPT !.journeys = Or(j.journeys, Nil, @)]
<1>1. FileConfig(j) # Nil /\ ContractPolicyLoads(j) /\ loadExecutionConfig(j) = Normalized(d)
  BY DEF loadExecutionConfig
<1>2. Usable(c)
  BY <1>1, FileUsable, ContractPolicyUsable, SeedUsable
<1>. HIDE DEF c
<1>3. DOMAIN d = Fields /\ \A x \in Fields \ {"journeys"} : d[x] = c[x]
  BY <1>2 DEF Usable, Shaped
<1>. HIDE DEF d
<1>4. Alike(c, d) /\ d.policy = c.policy /\ d.baselines = c.baselines /\ d.gate = c.gate
  BY <1>3 DEF Alike, Judged, Fields
<1>. QED
  BY <1>1, <1>2, <1>3, <1>4, StaysUsable, NormalizedSteady

LEMMA ServeUsable ==
  ASSUME NEW j, \A a \in AnalysesOf(j) : IsAnalysis(a), j.serve # Nil => IsServe(j.serve), ServeConfig(j) # Nil
  PROVE  Usable(ServeConfig(j))
<1>1. CASE j.serve = Nil
  <2>1. ServeConfig(j) = loadExecutionConfig(j) /\ loadExecutionConfig(j) # Nil
    BY <1>1 DEF ServeConfig
  <2>. QED
    BY <2>1, ExecutionSteady DEF Steady, Usable
<1>2. CASE j.serve # Nil
  <2>. DEFINE s == LoadServeConfig(j.serve)
              c == IF s.analysisFile # Nil THEN LoadAnalysis(s.analysisFile) ELSE InlineConfig(s)
  <2>1. s # Nil /\ ContractPolicyLoads(j) /\ c # Nil /\ ServeConfig(j) = WithContractPolicy(c, j.contractPolicy)
    BY <1>2 DEF ServeConfig
  <2>2. s = NormalizedServe(j.serve)
    BY <2>1 DEF LoadServeConfig
  <2>3. s.analysisFile = j.serve.analysisFile /\ s.analysis = j.serve.analysis
    BY <1>2, <2>2 DEF NormalizedServe, IsServe
  <2>. HIDE DEF s
  <2>4. IsAnalysis(s.analysis)
    BY <1>2, <2>3 DEF AnalysesOf
  <2>5. CASE s.analysisFile # Nil
    <3>1. IsAnalysis(s.analysisFile.analysis)
      BY <1>2, <2>3, <2>5 DEF AnalysesOf
    <3>2. c = LoadAnalysis(s.analysisFile)
      BY <2>5
    <3>. QED
      BY <2>1, <3>1, <3>2, AnalysisUsable, ContractPolicyUsable
  <2>6. CASE s.analysisFile = Nil
    <3>1. c = InlineConfig(s)
      BY <2>6
    <3>2. c = Attributed(s.analysis) /\ Validate(Normalized(s.analysis))
      BY <2>1, <3>1 DEF InlineConfig
    <3>3. Usable(c)
      BY <2>4, <3>2, AttributedUsable
    <3>. QED
      BY <2>1, <3>3, ContractPolicyUsable
  <2>. QED
    BY <2>5, <2>6
<1>. QED
  BY <1>1, <1>2

LEMMA BaselineUsable ==
  ASSUME NEW c, Usable(c)
  PROVE  Usable(BaselineConfig(c))
<1>. DEFINE d == BaselineConfig(c)
<1>1. DOMAIN c = Fields
  BY DEF Usable, Shaped
<1>2. /\ DOMAIN d = Fields /\ d.baselines = << >> /\ d.policy = NoPolicy
      /\ d.gate = [c.gate EXCEPT !.boundaryRules = << >>]
      /\ \A x \in Fields \ {"baselines", "policy", "gate"} : d[x] = c[x]
  BY <1>1 DEF BaselineConfig, Fields
<1>. HIDE DEF d
<1>3. Alike(c, d)
  BY <1>2 DEF Alike, Judged, Fields
<1>4. Usable(d)
  BY <1>2, <1>3, NoPolicyValid, StaysUsable
<1>. QED
  BY <1>4 DEF d

\* An analysis writes the sources only, which normalising does not read.
LEMMA SourcesSteady ==
  ASSUME NEW c, Steady(c), NEW s
  PROVE  Steady([c EXCEPT !.sources = s])
<1>. DEFINE d == [c EXCEPT !.sources = s]
            n == Normalized(d)
<1>1. DOMAIN c = Fields /\ DOMAIN c.gate = DOMAIN EmptyGate /\ Normalized(c) = c
  BY DEF Steady, Shaped
<1>2. DOMAIN d = Fields /\ d = [x \in Fields |-> d[x]] /\ \A x \in Fields \ {"sources"} : d[x] = c[x]
  BY <1>1
<1>3. Usable(d)
  BY SourcesUsable DEF Usable, Steady
<1>. HIDE DEF d
<1>4. Alike(c, d) /\ d.policy = c.policy /\ d.gate = c.gate /\ d.seed = c.seed
  BY <1>2 DEF Alike, Judged, Fields
<1>5. DOMAIN n = Fields /\ n = [x \in Fields |-> n[x]] /\ Scalars(d, n) /\ \A x \in Kept : n[x] = d[x]
  BY <1>2, NormalizedIs
<1>6. Alike(c, n)
  <2>1. Shaped(d) /\ Shaped(c)
    BY <1>3 DEF Usable, Steady
  <2>2. Alike(Normalized(c), n)
    BY <1>4, <2>1, AlikeNormalized
  <2>. QED
    BY <1>1, <2>2
<1>7. Scalars(c, c)
  BY <1>1, NormalizedIs
<1>. HIDE DEF n
<1>8. n.policy = d.policy /\ n.gate = d.gate /\ n.seed = d.seed
  BY <1>4, <1>5, <1>7 DEF Scalars
<1>9. \A x \in Judged : n[x] = d[x]
  BY <1>4, <1>6 DEF Alike
<1>10. \A x \in Fields : n[x] = d[x]
  BY <1>5, <1>8, <1>9 DEF Fields, Kept, Judged
<1>11. n = d
  BY <1>2, <1>5, <1>10
<1>. QED
  BY <1>3, <1>11 DEF Steady, Usable, d, n

-----------------------------------------------------------------------------
(* The configuration in force, and what baselines are compared by.         *)

Jobs == UNION {Range(p) : p \in Plans}

Configured == {"load", "analyze", "baselines", "model", "report", "summary", "mkdir", "simulation", "serving"}
HasLoaded == Configured \ {"load", "serving"}
HasBaselines == HasLoaded \ {"analyze"}

PlanInv == plan \in Seq(Jobs) /\ (stage # "end" => plan # << >>)

ConfigInv == stage \in Configured => Steady(config)

LoadInv == stage \in HasLoaded => loaded # Nil /\ loaded = Load(job.artifact)

\* Baselines are loaded in order; `refs' are those that remain.
RefsInv ==
  stage \in HasBaselines =>
    /\ config.baselines \in Seq(Range(config.baselines)) /\ refs \in Seq(Range(config.baselines))
    /\ Len(refs) <= Len(config.baselines)
    /\ \A i \in 1 .. Len(refs) : refs[i] = config.baselines[Len(config.baselines) - Len(refs) + i]

\* Only model.json is ever an artifact, and it is nothing else.
KindInv ==
  /\ DOMAIN disk = Outputs
  /\ disk["model.json"].kind \in {"absent", "torn", "artifact"}
  /\ \A f \in Outputs \ {"model.json"} : disk[f].kind # "artifact"

OneOfItsName(b) == \A k, l \in DOMAIN config.baselines :
                     config.baselines[k].name = b.name /\ config.baselines[l].name = b.name => k = l

\* What a loaded baseline was compared by: the sweeps of an artifact, or of a
\* report in a file that never becomes an artifact.
Answers(b) ==
  /\ b.name \in DOMAIN references
  /\ \/ references[b.name] = Sweeps
     \/ Content(b.path).kind # "artifact" /\ b.path # "model.json"

ReferencesInv ==
  stage \in HasBaselines =>
    \A i \in 1 .. Len(config.baselines) - Len(refs) :
      OneOfItsName(config.baselines[i]) => Answers(config.baselines[i])

ConfiguredInv == PlanInv /\ ConfigInv /\ LoadInv /\ RefsInv /\ KindInv /\ ReferencesInv

LEMMA JobFits ==
  ASSUME PlanInv, stage # "end"
  PROVE  /\ \A a \in AnalysesOf(job) : IsAnalysis(a)
         /\ job.serve # Nil => IsServe(job.serve)
<1>1. job \in Jobs
  BY DEF PlanInv, job
<1>. QED
  BY <1>1, PlanAssumption DEF Jobs

LEMMA LoadedValid == \A file : Load(file) # Nil => ValidModel(Load(file).model)
<1>1. SUFFICES ASSUME NEW file, Load(file) # Nil PROVE ValidModel(Load(file).model)
  OBVIOUS
<1>2. ASSUME NEW contract, NEW model, NEW weights, NEW source
      PROVE  Loaded(contract, model, weights, source).model = model
  BY DEF Loaded
<1>3. \A contract : loadModel(file, contract) # Nil => ValidModel(loadModel(file, contract).model)
  BY <1>2 DEF loadModel
<1>4. \A contract : loadSnapshot(file, contract) # Nil => ValidModel(loadSnapshot(file, contract).model)
  <2>1. TAKE contract
  <2>. DEFINE model == [file.nested EXCEPT !.topology = Or(@, "", file.topology)]
  <2>2. SUFFICES ASSUME loadSnapshot(file, contract) # Nil PROVE ValidModel(loadSnapshot(file, contract).model)
    OBVIOUS
  <2>3. /\ ValidModel(model)
        /\ loadSnapshot(file, contract) = Loaded(contract, model, SnapshotWeights(file),
                IF DOMAIN file.discovery = {} THEN "model" ELSE "snapshot")
    BY <2>2 DEF loadSnapshot
  <2>. HIDE DEF model
  <2>. QED
    BY <1>2, <2>3
<1>5. \/ \E contract : Load(file) = loadModel(file, contract)
      \/ \E contract : Load(file) = loadSnapshot(file, contract)
  BY <1>1 DEF Load
<1>. QED
  BY <1>1, <1>3, <1>4, <1>5

\* The sweeps of a report do not depend on the model, nor on the sources.
LEMMA SweepsAlike ==
  ASSUME NEW m, NEW n, NEW c, NEW d, Steady(c),
         d.sweeps = c.sweeps, d.profiles = c.profiles, d.seed = c.seed
  PROVE  SweepOutputs(m, c) = SweepOutputs(n, d)
<1>. DEFINE Names == {s.name : s \in Range(c.sweeps)}
            I(name) == CHOOSE i \in DOMAIN c.sweeps : c.sweeps[i].name = name
            Digest(x, e, name) == sweepFingerprint(e.sweeps[I(name)], BaseProfile(x, e, e.sweeps[I(name)].profile),
                                                   derivedSeed(e.seed, name, I(name)))
<1>1. ASSUME NEW name \in Names PROVE Digest(m, c, name) = Digest(n, d, name)
  <2>. DEFINE s == c.sweeps[I(name)]
              p == CHOOSE p \in Range(c.profiles) : p.name = s.profile
  <2>1. I(name) \in DOMAIN c.sweeps
    BY DEF Range
  <2>2. s.profile \in ProfileNames(c)
    <3>1. s \in Range(c.sweeps)
      BY <2>1 DEF Range
    <3>2. validateSweep(c, s)
      BY <3>1 DEF Steady, Validate
    <3>. QED
      BY <3>2 DEF validateSweep
  <2>. HIDE DEF s
  <2>3. p \in Range(c.profiles)
    BY <2>2 DEF ProfileNames
  <2>4. IsProfile(p)
    BY <2>3 DEF Steady, Shaped
  <2>5. BaseProfile(m, c, s.profile) = SimulationProfile(m, p) /\ BaseProfile(n, d, s.profile) = SimulationProfile(n, p)
    BY DEF BaseProfile
  <2>. HIDE DEF p
  <2>6. \A x : LET q == SimulationProfile(x, p) IN q.name = p.name /\ q.trials = p.trials /\ q.fault = p.fault
    BY <2>4 DEF SimulationProfile, IsProfile, Unconfigured
  <2>. QED
    BY <2>5, <2>6 DEF sweepFingerprint, s
<1>2. SweepOutputs(m, c) = [name \in Names |-> Digest(m, c, name)]
  BY DEF SweepOutputs
<1>3. SweepOutputs(n, d) = [name \in Names |-> Digest(n, d, name)]
  BY DEF SweepOutputs
<1>. HIDE DEF Names, Digest
<1>. QED
  BY <1>1, <1>2, <1>3

-----------------------------------------------------------------------------
(* The steps of a command.                                                 *)

LEMMA ConfiguredAtFirst == Init => ConfiguredInv
<1>. SUFFICES ASSUME Init PROVE ConfiguredInv
  OBVIOUS
<1>1. PlanInv
  <2>1. plan \in Plans
    BY DEF Init
  <2>2. plan # << >> /\ plan \in Seq(Range(plan))
    BY <2>1, PlanAssumption
  <2>3. Range(plan) \subseteq Jobs
    BY <2>1 DEF Jobs
  <2>. QED
    BY <2>2, <2>3 DEF PlanInv
<1>2. KindInv
  BY DEF Init, KindInv, Outputs, Absent
<1>3. ConfigInv /\ LoadInv /\ RefsInv /\ ReferencesInv
  BY DEF Init, ConfigInv, LoadInv, RefsInv, ReferencesInv, Configured, HasLoaded, HasBaselines
<1>. QED
  BY <1>1, <1>2, <1>3 DEF ConfiguredInv

\* What has been compared stays so as long as model.json is the only artifact.
LEMMA AnswersKept ==
  ASSUME KindInv', NEW b, Answers(b), Sweeps' = Sweeps,
         b.name \in DOMAIN references', references'[b.name] = references[b.name]
  PROVE  Answers(b)'
<1>1. CASE references[b.name] = Sweeps
  BY <1>1 DEF Answers
<1>2. CASE Content(b.path).kind # "artifact" /\ b.path # "model.json"
  <2>1. CASE b.path \in Outputs
    <3>1. disk'[b.path].kind # "artifact"
      BY <1>2, <2>1 DEF KindInv
    <3>. QED
      BY <1>2, <2>1, <3>1 DEF Answers, Content
  <2>2. CASE b.path \notin Outputs
    BY <1>2, <2>2 DEF Answers, Content
  <2>. QED
    BY <2>1, <2>2
<1>. QED
  BY <1>1, <1>2 DEF Answers

\* A step that leaves the command and its data alone.
LEMMA LocalsKept ==
  ASSUME ConfiguredInv, UNCHANGED <<plan, locals>>, KindInv', stage # "end",
         stage' \in Configured => stage \in Configured,
         stage' \in HasLoaded => stage \in HasLoaded,
         stage' \in HasBaselines => stage \in HasBaselines
  PROVE  ConfiguredInv'
<1>1. /\ plan' = plan /\ config' = config /\ loaded' = loaded /\ refs' = refs /\ references' = references
      /\ job' = job
  BY DEF locals, job
<1>2. PlanInv'
  BY <1>1 DEF ConfiguredInv, PlanInv
<1>3. ConfigInv'
  BY <1>1 DEF ConfiguredInv, ConfigInv
<1>4. LoadInv'
  BY <1>1 DEF ConfiguredInv, LoadInv
<1>5. RefsInv'
  BY <1>1 DEF ConfiguredInv, RefsInv
<1>6. ReferencesInv'
  <2>1. Sweeps' = Sweeps
    BY <1>1 DEF Sweeps
  <2>2. \A b : Answers(b) => Answers(b)'
    BY <1>1, <2>1, AnswersKept DEF Answers
  <2>3. \A b : OneOfItsName(b)' => OneOfItsName(b)
    BY <1>1 DEF OneOfItsName
  <2>. QED
    BY <1>1, <2>2, <2>3 DEF ConfiguredInv, ReferencesInv, Answers, OneOfItsName, Sweeps
<1>. QED
  BY <1>2, <1>3, <1>4, <1>5, <1>6 DEF ConfiguredInv

LEMMA OutputsKept ==
  ASSUME KindInv,
         \/ disk' = disk
         \/ \E file \in Outputs : disk' = [disk EXCEPT ![file] = Torn]
         \/ disk' = [disk EXCEPT !["model.json"] = Model]
         \/ disk' = [disk EXCEPT !["report.json"] = Report]
         \/ disk' = [disk EXCEPT !["summary.md"] = Summary]
         \/ disk' = [disk EXCEPT !["simulation.json"] = Report]
  PROVE  KindInv'
<1>1. Torn.kind = "torn"
  BY DEF Torn
<1>2. Model.kind = "artifact"
  BY DEF Model
<1>3. Report.kind = "report"
  BY DEF Report
<1>4. Summary.kind = "summary"
  BY DEF Summary
<1>. QED
  BY <1>1, <1>2, <1>3, <1>4 DEF KindInv, Outputs

\* The steps that leave the command and its data alone.
Passing ==
  \/ Start \/ WriteModel \/ WriteReport \/ WriteSummary \/ MakeDirectory \/ WriteSimulation
  \/ StopServing \/ Killed

LEMMA PassingLeaves ==
  ASSUME Passing, KindInv
  PROVE  /\ UNCHANGED <<plan, locals>> /\ KindInv' /\ stage # "end" /\ stage' # "load"
         /\ stage' \in Configured => stage \in Configured
         /\ stage' \in HasLoaded => stage \in HasLoaded
         /\ stage' \in HasBaselines => stage \in HasBaselines
<1>. USE DEF Configured, HasLoaded, HasBaselines
<1>1. CASE Start
  BY <1>1, OutputsKept DEF Start, Continues, Exits
<1>2. CASE WriteModel
  <2>1. CASE ValidModel(loaded.model)
    <3>1. stage = "model" /\ Writes("model.json", Model, "report")
      BY <1>2, <2>1 DEF WriteModel
    <3>2. UNCHANGED <<plan, locals>> /\ stage' \in {"report", "done"}
      BY <3>1 DEF Writes
    <3>3. disk' = disk \/ disk' = [disk EXCEPT !["model.json"] = Model] \/ disk' = [disk EXCEPT !["model.json"] = Torn]
      BY <3>1 DEF Writes
    <3>4. KindInv'
      BY <3>3, OutputsKept DEF Outputs
    <3>. QED
      BY <3>1, <3>2, <3>4
  <2>2. CASE ~ValidModel(loaded.model)
    BY <1>2, <2>2, OutputsKept DEF WriteModel, Exits
  <2>. QED
    BY <2>1, <2>2
<1>3. CASE WriteReport
  <2>1. stage = "report" /\ Writes("report.json", Report, "summary")
    BY <1>3 DEF WriteReport
  <2>2. UNCHANGED <<plan, locals>> /\ stage' \in {"summary", "done"}
    BY <2>1 DEF Writes
  <2>3. disk' = disk \/ disk' = [disk EXCEPT !["report.json"] = Report] \/ disk' = [disk EXCEPT !["report.json"] = Torn]
    BY <2>1 DEF Writes
  <2>4. KindInv'
    BY <2>3, OutputsKept DEF Outputs
  <2>. QED
    BY <2>1, <2>2, <2>4
<1>4. CASE WriteSummary
  <2>1. stage = "summary" /\ Writes("summary.md", Summary, "done")
    BY <1>4 DEF WriteSummary
  <2>2. UNCHANGED <<plan, locals>> /\ stage' = "done"
    BY <2>1 DEF Writes
  <2>3. disk' = disk \/ disk' = [disk EXCEPT !["summary.md"] = Summary] \/ disk' = [disk EXCEPT !["summary.md"] = Torn]
    BY <2>1 DEF Writes
  <2>4. KindInv'
    BY <2>3, OutputsKept DEF Outputs
  <2>. QED
    BY <2>1, <2>2, <2>4
<1>5. CASE WriteSimulation
  <2>1. stage = "simulation" /\ Writes("simulation.json", Report, "done")
    BY <1>5 DEF WriteSimulation
  <2>2. UNCHANGED <<plan, locals>> /\ stage' = "done"
    BY <2>1 DEF Writes
  <2>3. \/ disk' = disk \/ disk' = [disk EXCEPT !["simulation.json"] = Report]
        \/ disk' = [disk EXCEPT !["simulation.json"] = Torn]
    BY <2>1 DEF Writes
  <2>4. KindInv'
    BY <2>3, OutputsKept DEF Outputs
  <2>. QED
    BY <2>1, <2>2, <2>4
<1>6. CASE MakeDirectory
  BY <1>6, OutputsKept DEF MakeDirectory, Continues, Exits
<1>7. CASE StopServing
  BY <1>7, OutputsKept DEF StopServing, Exits
<1>8. CASE Killed
  <2>1. UNCHANGED <<plan, locals>> /\ stage # "end" /\ stage' = "done"
    BY <1>8 DEF Killed
  <2>2. disk' = disk \/ \E file \in Outputs : disk' = [disk EXCEPT ![file] = Torn]
    BY <1>8 DEF Killed
  <2>3. KindInv'
    BY <2>2, OutputsKept
  <2>. QED
    BY <2>1, <2>3
<1>. QED
  BY <1>1, <1>2, <1>3, <1>4, <1>5, <1>6, <1>7, <1>8 DEF Passing

\* Ending with an error leaves nothing that a later step relies on.
LEMMA ExitKeeps ==
  ASSUME ConfiguredInv, stage # "end", NEW code, Exits(code)
  PROVE  ConfiguredInv'
<1>1. stage' = "done" /\ plan' = plan /\ disk' = disk
  BY DEF Exits
<1>2. PlanInv'
  BY <1>1 DEF ConfiguredInv, PlanInv
<1>3. KindInv'
  BY <1>1 DEF ConfiguredInv, KindInv
<1>4. ConfigInv' /\ LoadInv' /\ RefsInv' /\ ReferencesInv'
  BY <1>1 DEF ConfigInv, LoadInv, RefsInv, ReferencesInv, Configured, HasLoaded, HasBaselines
<1>. QED
  BY <1>2, <1>3, <1>4 DEF ConfiguredInv

LEMMA ConfigureKeeps ==
  ASSUME ConfiguredInv, Configure
  PROVE  ConfiguredInv'
<1>. DEFINE c == loadExecutionConfig(job)
<1>1. stage = "config"
  BY DEF Configure
<1>2. CASE c = Nil
  BY <1>1, <1>2, ExitKeeps DEF Configure
<1>3. CASE c # Nil
  <2>1. config' = c /\ stage' = "load" /\ plan' = plan /\ disk' = disk
    BY <1>3 DEF Configure, Continues
  <2>2. Steady(c)
    BY <1>1, <1>3, JobFits, ExecutionSteady DEF ConfiguredInv
  <2>. HIDE DEF c
  <2>3. PlanInv'
    BY <1>1, <2>1 DEF ConfiguredInv, PlanInv
  <2>4. KindInv'
    BY <2>1 DEF ConfiguredInv, KindInv
  <2>5. ConfigInv'
    BY <2>1, <2>2 DEF ConfigInv
  <2>6. LoadInv' /\ RefsInv' /\ ReferencesInv'
    BY <2>1 DEF LoadInv, RefsInv, ReferencesInv, HasLoaded, HasBaselines
  <2>. QED
    BY <2>3, <2>4, <2>5, <2>6 DEF ConfiguredInv
<1>. QED
  BY <1>2, <1>3

LEMMA LoadArtifactKeeps ==
  ASSUME ConfiguredInv, LoadArtifact
  PROVE  ConfiguredInv'
<1>1. stage = "load" /\ loaded' = Load(job.artifact) /\ config' = config
  BY DEF LoadArtifact
<1>2. CASE loaded' = Nil
  BY <1>1, <1>2, ExitKeeps DEF LoadArtifact
<1>3. CASE loaded' # Nil
  <2>1. stage' = "analyze" /\ plan' = plan /\ disk' = disk /\ job' = job
    BY <1>3 DEF LoadArtifact, Continues, job
  <2>3. PlanInv'
    BY <1>1, <2>1 DEF ConfiguredInv, PlanInv
  <2>4. KindInv'
    BY <2>1 DEF ConfiguredInv, KindInv
  <2>5. ConfigInv'
    BY <1>1 DEF ConfiguredInv, ConfigInv, Configured
  <2>6. LoadInv'
    BY <1>1, <1>3, <2>1 DEF LoadInv
  <2>7. RefsInv' /\ ReferencesInv'
    BY <2>1 DEF RefsInv, ReferencesInv, HasLoaded, HasBaselines
  <2>. QED
    BY <2>3, <2>4, <2>5, <2>6, <2>7 DEF ConfiguredInv
<1>. QED
  BY <1>2, <1>3

\* An analysis begins with all of its baselines to load.
LEMMA AnalyzeKeeps ==
  ASSUME ConfiguredInv, Analyze
  PROVE  ConfiguredInv'
<1>1. stage = "analyze" /\ loaded' = loaded /\ Steady(config)
  BY DEF Analyze, ConfiguredInv, ConfigInv, Configured
<1>2. CASE ~Analyzes(loaded, config)
  BY <1>1, <1>2, ExitKeeps DEF Analyze
<1>3. CASE Analyzes(loaded, config)
  <2>. DEFINE s == WithEvidence(config, loaded.model)
  <2>1. /\ config' = [config EXCEPT !.sources = s] /\ refs' = config.baselines
        /\ stage' = "baselines" /\ plan' = plan /\ disk' = disk /\ job' = job
    BY <1>3 DEF Analyze, Continues, job
  <2>. HIDE DEF s
  <2>2. config'.baselines = config.baselines /\ config.baselines \in Seq(Range(config.baselines))
    BY <1>1, <2>1 DEF Steady, Shaped
  <2>3. PlanInv'
    BY <1>1, <2>1 DEF ConfiguredInv, PlanInv
  <2>4. KindInv'
    BY <2>1 DEF ConfiguredInv, KindInv
  <2>5. ConfigInv'
    BY <1>1, <2>1, SourcesSteady DEF ConfigInv
  <2>6. LoadInv'
    BY <1>1, <2>1 DEF ConfiguredInv, LoadInv, HasLoaded, Configured
  <2>7. RefsInv' /\ ReferencesInv'
    BY <2>1, <2>2 DEF RefsInv, ReferencesInv
  <2>. QED
    BY <2>3, <2>4, <2>5, <2>6, <2>7 DEF ConfiguredInv
<1>. QED
  BY <1>2, <1>3

LEMMA EvaluateGateKeeps ==
  ASSUME ConfiguredInv, EvaluateGate
  PROVE  ConfiguredInv'
<1>1. /\ stage = "baselines" /\ stage' \in {"model", "mkdir"} /\ plan' = plan /\ disk' = disk /\ job' = job
      /\ config' = config /\ loaded' = loaded /\ refs' = refs /\ references' = references
  BY DEF EvaluateGate, Continues, job
<1>2. stage \in HasBaselines /\ stage' \in HasBaselines /\ HasBaselines \subseteq HasLoaded /\ HasLoaded \subseteq Configured
  BY <1>1 DEF HasBaselines, HasLoaded, Configured
<1>3. PlanInv'
  BY <1>1 DEF ConfiguredInv, PlanInv
<1>4. KindInv'
  BY <1>1 DEF ConfiguredInv, KindInv
<1>5. ConfigInv' /\ LoadInv' /\ RefsInv'
  BY <1>1, <1>2 DEF ConfiguredInv, ConfigInv, LoadInv, RefsInv
<1>6. ReferencesInv'
  BY <1>1, <1>2 DEF ConfiguredInv, ReferencesInv, OneOfItsName, Answers, Sweeps, Content
<1>. QED
  BY <1>3, <1>4, <1>5, <1>6 DEF ConfiguredInv

LEMMA ServeKeeps ==
  ASSUME ConfiguredInv, Serve
  PROVE  ConfiguredInv'
<1>. DEFINE c == ServeConfig(job)
<1>1. stage = "start"
  BY DEF Serve
<1>2. CASE c = Nil \/ ~Accepted(c)
  BY <1>1, <1>2, ExitKeeps DEF Serve
<1>3. CASE ~(c = Nil \/ ~Accepted(c))
  <2>1. config' = Normalized(c) /\ stage' = "serving" /\ plan' = plan /\ disk' = disk
    BY <1>3 DEF Serve, Continues
  <2>2. Steady(Normalized(c))
    BY <1>1, <1>3, JobFits, ServeUsable, NormalizedSteady DEF ConfiguredInv
  <2>. HIDE DEF c
  <2>3. PlanInv'
    BY <1>1, <2>1 DEF ConfiguredInv, PlanInv
  <2>4. KindInv'
    BY <2>1 DEF ConfiguredInv, KindInv
  <2>5. ConfigInv'
    BY <2>1, <2>2 DEF ConfigInv
  <2>6. LoadInv' /\ RefsInv' /\ ReferencesInv'
    BY <2>1 DEF LoadInv, RefsInv, ReferencesInv, HasLoaded, HasBaselines
  <2>. QED
    BY <2>3, <2>4, <2>5, <2>6 DEF ConfiguredInv
<1>. QED
  BY <1>2, <1>3

LEMMA NextCommandKeeps ==
  ASSUME ConfiguredInv, NextCommand
  PROVE  ConfiguredInv'
<1>1. /\ stage = "done" /\ plan' = Tail(plan) /\ disk' = disk
      /\ stage' = IF plan' = << >> THEN "end" ELSE "start"
  BY DEF NextCommand
<1>2. plan \in Seq(Jobs) /\ plan # << >>
  BY <1>1 DEF ConfiguredInv, PlanInv
<1>3. PlanInv'
  <2>1. plan' \in Seq(Jobs)
    BY <1>1, <1>2
  <2>. QED
    BY <1>1, <2>1 DEF PlanInv
<1>4. KindInv'
  BY <1>1 DEF ConfiguredInv, KindInv
<1>5. ConfigInv' /\ LoadInv' /\ RefsInv' /\ ReferencesInv'
  BY <1>1 DEF ConfigInv, LoadInv, RefsInv, ReferencesInv, Configured, HasLoaded, HasBaselines
<1>. QED
  BY <1>3, <1>4, <1>5 DEF ConfiguredInv

\* An artifact answers with the sweeps of the analysis itself; what answers
\* otherwise is a report, which model.json never is.
LEMMA BaselineAnswers ==
  ASSUME KindInv, Steady(config), NEW path,
         BaselineSweeps(Content(path)) # Nil
  PROVE  \/ BaselineSweeps(Content(path)) = Sweeps
         \/ Content(path).kind # "artifact" /\ path # "model.json"
<1>. DEFINE content == Content(path)
<1>1. CASE content.kind = "report"
  <2>1. path = "model.json" => content = disk["model.json"]
    BY DEF Content, Outputs
  <2>2. path # "model.json"
    BY <1>1, <2>1 DEF KindInv
  <2>. QED
    BY <1>1, <2>2
<1>2. CASE content.kind # "report"
  <2>1. BaselineSweeps(content) = SweepOutputs(Load(content.file).model, config)
    BY <1>2 DEF BaselineSweeps
  <2>2. SweepOutputs(Load(content.file).model, config) = SweepOutputs(loaded.model, config)
    BY SweepsAlike
  <2>. QED
    BY <2>1, <2>2 DEF Sweeps
<1>. QED
  BY <1>1, <1>2

LEMMA LoadBaselineRefs ==
  ASSUME RefsInv, stage \in HasBaselines, refs # << >>, refs' = Tail(refs), config'.baselines = config.baselines
  PROVE  /\ RefsInv' /\ Len(refs') = Len(refs) - 1 /\ Len(refs) \in Nat \ {0}
         /\ Head(refs) = config.baselines[Len(config.baselines) - Len(refs) + 1]
         /\ Len(config.baselines) \in Nat /\ Len(refs) <= Len(config.baselines)
         /\ DOMAIN config.baselines = 1 .. Len(config.baselines)
<1>. DEFINE b == config.baselines
            n == Len(b)
            m == Len(refs)
<1>1. /\ b \in Seq(Range(b)) /\ refs \in Seq(Range(b)) /\ m <= n
      /\ \A i \in 1 .. m : refs[i] = b[n - m + i]
  BY DEF RefsInv
<1>2. n \in Nat /\ m \in Nat \ {0} /\ DOMAIN b = 1 .. n
  BY <1>1
<1>3. Tail(refs) \in Seq(Range(b)) /\ Len(Tail(refs)) = m - 1 /\ \A i \in 1 .. m - 1 : Tail(refs)[i] = refs[i + 1]
  BY <1>1, <1>2
<1>4. Head(refs) = refs[1]
  BY <1>1
<1>. HIDE DEF n, m
<1>5. Head(refs) = b[n - m + 1]
  BY <1>1, <1>2, <1>4
<1>6. \A i \in 1 .. m - 1 : Tail(refs)[i] = b[n - (m - 1) + i]
  <2>1. TAKE i \in 1 .. m - 1
  <2>2. i + 1 \in 1 .. m /\ n - m + (i + 1) = n - (m - 1) + i
    BY <1>2
  <2>. QED
    BY <1>1, <1>3, <2>2
<1>7. RefsInv'
  BY <1>1, <1>2, <1>3, <1>6 DEF RefsInv, n, m
<1>. QED
  BY <1>1, <1>2, <1>3, <1>5, <1>7 DEF n, m

LEMMA LoadBaselineKeeps ==
  ASSUME ConfiguredInv, LoadBaseline
  PROVE  ConfiguredInv'
<1>. DEFINE b == Head(refs)
            content == Content(b.path)
            answer == BaselineSweeps(content)
            at == Len(config.baselines) - Len(refs) + 1
<1>1. stage = "baselines" /\ stage \in HasBaselines /\ refs # << >> /\ Steady(config)
  BY DEF LoadBaseline, ConfiguredInv, ConfigInv, Configured, HasBaselines, HasLoaded
<1>2. CASE answer = Nil
  BY <1>1, <1>2, ExitKeeps DEF LoadBaseline
<1>3. CASE answer # Nil
  <2>1. /\ references' = Over([n \in {b.name} |-> answer], references)
        /\ config' = [config EXCEPT !.sources = SourcesAfter(content)]
        /\ refs' = Tail(refs) /\ loaded' = loaded
        /\ stage' = "baselines" /\ plan' = plan /\ disk' = disk /\ job' = job
    BY <1>3 DEF LoadBaseline, Continues, job
  <2>2. Steady(config')
    BY <1>1, <2>1, SourcesSteady
  <2>3. /\ config'.baselines = config.baselines /\ config'.sweeps = config.sweeps
        /\ config'.profiles = config.profiles /\ config'.seed = config.seed
    BY <2>1
  <2>4. Sweeps' = Sweeps
    <3>1. SweepOutputs(loaded.model, config') = SweepOutputs(loaded.model, config)
      BY <1>1, <2>3, SweepsAlike
    <3>2. Sweeps' = SweepOutputs(loaded.model, config')
      BY <2>1 DEF Sweeps
    <3>. QED
      BY <3>1, <3>2 DEF Sweeps
  <2>5. answer = Sweeps \/ (content.kind # "artifact" /\ b.path # "model.json")
    BY <1>1, <1>3, BaselineAnswers DEF ConfiguredInv
  <2>6. /\ RefsInv' /\ Len(refs') = Len(refs) - 1 /\ Len(refs) \in Nat \ {0}
        /\ b = config.baselines[at]
        /\ Len(config.baselines) \in Nat /\ Len(refs) <= Len(config.baselines)
        /\ DOMAIN config.baselines = 1 .. Len(config.baselines)
    BY <1>1, <2>1, <2>3, LoadBaselineRefs DEF ConfiguredInv
  <2>7. /\ b.name \in DOMAIN references' /\ references'[b.name] = answer
        /\ \A n \in DOMAIN references \ {b.name} : n \in DOMAIN references' /\ references'[n] = references[n]
    BY <2>1 DEF Over
  <2>8. KindInv'
    BY <2>1 DEF ConfiguredInv, KindInv
  <2>. HIDE DEF b, content, answer, at
  <2>9. ReferencesInv'
    <3>1. SUFFICES ASSUME NEW i \in 1 .. Len(config.baselines) - Len(refs) + 1, NEW x, x = config.baselines[i],
                          OneOfItsName(x)'
                   PROVE  Answers(x)'
      BY <2>3, <2>6 DEF ReferencesInv, OneOfItsName, Answers
    <3>2. i \in DOMAIN config.baselines /\ at \in DOMAIN config.baselines
      BY <2>6 DEF at
    <3>3. CASE i = at
      <4>1. x = b
        BY <2>6, <3>1, <3>3
      <4>2. x.name \in DOMAIN references' /\ references'[x.name] = answer
        BY <2>7, <4>1
      <4>3. Content(x.path)' = content
        BY <2>1, <4>1 DEF Content, content
      <4>. QED
        BY <2>4, <2>5, <4>1, <4>2, <4>3 DEF Answers
    <3>4. CASE i # at
      <4>1. i \in 1 .. Len(config.baselines) - Len(refs)
        BY <2>6, <3>1, <3>4 DEF at
      <4>2. OneOfItsName(x)
        BY <2>3, <3>1 DEF OneOfItsName
      <4>3. Answers(x)
        BY <1>1, <3>1, <4>1, <4>2 DEF ConfiguredInv, ReferencesInv, OneOfItsName, Answers
      <4>4. x.name # b.name
        BY <2>6, <3>1, <3>2, <3>4, <4>2 DEF OneOfItsName
      <4>5. x.name \in DOMAIN references' /\ references'[x.name] = references[x.name]
        BY <2>7, <4>3, <4>4 DEF Answers
      <4>. QED
        BY <2>4, <2>8, <4>3, <4>5, AnswersKept
    <3>. QED
      BY <3>3, <3>4
  <2>10. PlanInv'
    BY <1>1, <2>1 DEF ConfiguredInv, PlanInv
  <2>11. ConfigInv'
    BY <2>2 DEF ConfigInv
  <2>12. LoadInv'
    BY <1>1, <2>1 DEF ConfiguredInv, LoadInv, HasLoaded, HasBaselines
  <2>. QED
    BY <2>6, <2>8, <2>9, <2>10, <2>11, <2>12 DEF ConfiguredInv
<1>. QED
  BY <1>2, <1>3

LEMMA StepsKeepConfigured == ConfiguredInv /\ [Next]_vars => ConfiguredInv'
<1>. SUFFICES ASSUME ConfiguredInv, [Next]_vars PROVE ConfiguredInv'
  OBVIOUS
<1>1. CASE Passing
  <2>1. KindInv
    BY DEF ConfiguredInv
  <2>. QED
    BY <1>1, <2>1, PassingLeaves, LocalsKept
<1>2. CASE Configure
  BY <1>2, ConfigureKeeps
<1>3. CASE LoadArtifact
  BY <1>3, LoadArtifactKeeps
<1>4. CASE Analyze
  BY <1>4, AnalyzeKeeps
<1>5. CASE LoadBaseline
  BY <1>5, LoadBaselineKeeps
<1>6. CASE EvaluateGate
  BY <1>6, EvaluateGateKeeps
<1>7. CASE Serve
  BY <1>7, ServeKeeps
<1>8. CASE NextCommand
  BY <1>8, NextCommandKeeps
<1>9. CASE UNCHANGED vars
  BY <1>9 DEF vars, locals, ConfiguredInv, PlanInv, ConfigInv, LoadInv, RefsInv, KindInv, ReferencesInv, OneOfItsName,
              Answers, Sweeps, Content, job
<1>. QED
  BY <1>1, <1>2, <1>3, <1>4, <1>5, <1>6, <1>7, <1>8, <1>9 DEF Next, Passing

\* From loading to the gate a command holds a configuration that normalising
\* leaves alone and validation accepts, the artifact of its command line, and
\* for every baseline it has loaded sweeps to compare by.
THEOREM ConfigurationInvariant == Spec => []ConfiguredInv
<1>. QED
  BY ConfiguredAtFirst, StepsKeepConfigured, PTL DEF Spec

LEMMA ConfiguredNeverLate == ConfiguredInv => NeverRejectedLate
<1>. SUFFICES ASSUME ConfiguredInv PROVE NeverRejectedLate
  OBVIOUS
<1>1. ASSUME stage \in {"load", "analyze", "baselines", "serving"}
      PROVE  Accepted(config) /\ Normalized(config) = config /\ Accepted(BaselineConfig(config))
  <2>1. Steady(config)
    BY <1>1 DEF ConfiguredInv, ConfigInv, Configured
  <2>2. Usable(config)
    BY <2>1 DEF Steady, Usable
  <2>3. Usable(BaselineConfig(config))
    BY <2>2, BaselineUsable
  <2>. QED
    BY <2>1, <2>2, <2>3 DEF Steady, Usable, Accepted
<1>2. ASSUME stage = "start", job.command = "serve", ServeConfig(job) # Nil
      PROVE  Accepted(ServeConfig(job))
  <2>1. Usable(ServeConfig(job))
    BY <1>2, JobFits, ServeUsable DEF ConfiguredInv
  <2>. QED
    BY <2>1 DEF Usable, Accepted
<1>3. ASSUME stage = "model" PROVE ValidModel(loaded.model)
  <2>1. loaded # Nil /\ loaded = Load(job.artifact)
    BY <1>3 DEF ConfiguredInv, LoadInv, HasLoaded, Configured
  <2>. QED
    BY <2>1, LoadedValid
<1>. QED
  BY <1>1, <1>2, <1>3 DEF NeverRejectedLate

\* A configuration that loading has accepted is never refused later: not by an
\* analysis, not for a baseline, not when a server starts, and an artifact that
\* was read is written again (analyzer.go:39, service.go:114).
THEOREM NothingRejectedLate == Spec => []NeverRejectedLate
<1>. QED
  BY ConfigurationInvariant, ConfiguredNeverLate, PTL

LEMMA ConfiguredComparable == ConfiguredInv => RerunComparable
<1>. SUFFICES ASSUME ConfiguredInv,
                     NEW i \in 1 .. Len(config.baselines) - Len(refs), NEW b, b = config.baselines[i],
                     stage \in {"baselines", "model", "report", "summary", "mkdir", "simulation"},
                     Content(b.path).kind = "artifact",
                     \A k \in DOMAIN config.baselines : config.baselines[k].name = b.name => k = i
              PROVE  references[b.name] = Sweeps
  BY DEF RerunComparable
<1>1. stage \in HasBaselines
  BY DEF HasBaselines, HasLoaded, Configured
<1>2. OneOfItsName(b)
  BY DEF OneOfItsName
<1>3. Answers(b)
  BY <1>1, <1>2 DEF ConfiguredInv, ReferencesInv, OneOfItsName, Answers
<1>. QED
  BY <1>3 DEF Answers

\* A baseline that is an artifact is always comparable, whatever evidence and
\* weights it has (analyzer.go:182-195).
THEOREM RerunsCompare == Spec => []RerunComparable
<1>. QED
  BY ConfigurationInvariant, ConfiguredComparable, PTL

-----------------------------------------------------------------------------
(* What a configuration gives a profile, against what its file asks for.   *)

SourceFields == {"trials", "mode", "failure", "reliability", "fixedK", "weights"}

\* A profile of a configuration, against the analysis and the profile of the
\* user's file.
GrantedProfile(a, own, q) ==
  /\ q.name = own.name
  /\ q.trials = Positive(own.trials, Positive(a.trials, DefaultTrials))
  /\ q.failure = Or(own.failure, 0, Or(a.failure, 0, 5))
  /\ q.fixedK = Or(own.fixedK, 0, a.fixedK)
  /\ q.reliability = normalizeProfileReliability(a.reliability, own.reliability)
  /\ Over(q.weights, a.weights) = Over(own.weights, a.weights)

Granted(c, a) ==
  /\ c.weights = a.weights /\ DOMAIN c.profiles = DOMAIN a.profiles
  /\ \A i \in DOMAIN a.profiles : GrantedProfile(a, a.profiles[i], c.profiles[i])

\* A source of "default" is true of what the file says.
CreditedProfile(a, own, q, s) ==
  /\ s.reliability = "default" => ~reliabilityConfigured(q.reliability)
  /\ s.fixedK = "default" => own.fixedK = 0 /\ a.fixedK = 0
  /\ s.failure = "default" => own.failure = 0 /\ a.failure = 0
  /\ s.weights = "default" => DOMAIN own.weights = {} /\ DOMAIN a.weights = {}

Credited(c, a) ==
  \A i \in DOMAIN a.profiles :
    CreditedProfile(a, a.profiles[i], c.profiles[i], c.sources.profiles[a.profiles[i].name])

SourcesShaped(c) ==
  /\ "profiles" \in DOMAIN c.sources /\ DOMAIN c.sources.profiles = ProfileNames(c)
  /\ \A n \in ProfileNames(c) : DOMAIN c.sources.profiles[n] = SourceFields

\* A profile whose reliability is said to be a default uses no evidence.
Untouched(c, m) ==
  \A p \in Range(c.profiles) :
    c.sources.profiles[p.name].reliability = "default" => ~UsesEvidence(reliabilityFromArtifact(m), p.reliability)

LEMMA ProfileIs ==
  ASSUME NEW c, NEW p, IsProfile(p)
  PROVE  /\ NormalizedProfile(c, p).name = p.name /\ NormalizedProfile(c, p).weights = p.weights
         /\ NormalizedProfile(c, p).trials = Positive(p.trials, c.trials)
         /\ NormalizedProfile(c, p).failure = Or(p.failure, 0, c.failure)
         /\ NormalizedProfile(c, p).fixedK = Or(p.fixedK, 0, c.fixedK)
         /\ NormalizedProfile(c, p).reliability = normalizeProfileReliability(c.reliability, p.reliability)
<1>. DEFINE n == NormalizedProfile(c, p)
<1>1. /\ "name" \in DOMAIN p /\ "weights" \in DOMAIN p /\ "trials" \in DOMAIN p /\ "failure" \in DOMAIN p
      /\ "fixedK" \in DOMAIN p /\ "reliability" \in DOMAIN p
  BY DEF IsProfile, Unconfigured
<1>2. n.name = p.name /\ n.weights = p.weights
  BY <1>1 DEF NormalizedProfile
<1>3. n.trials = Positive(p.trials, c.trials) /\ n.failure = Or(p.failure, 0, c.failure)
  BY <1>1 DEF NormalizedProfile
<1>4. n.fixedK = Or(p.fixedK, 0, c.fixedK)
  BY <1>1 DEF NormalizedProfile
<1>5. n.reliability = normalizeProfileReliability(c.reliability, p.reliability)
  BY <1>1 DEF NormalizedProfile
<1>. QED
  BY <1>2, <1>3, <1>4, <1>5

LEMMA EntriesAlone == \A f : Over(Over(f, << >>), f) = Over(<< >>, f) /\ Over(f, f) = Over(<< >>, f)
<1>1. SUFFICES ASSUME NEW f PROVE Over(Over(f, << >>), f) = Over(<< >>, f) /\ Over(f, f) = Over(<< >>, f)
  OBVIOUS
<1>. DEFINE none == << >>
<1>2. DOMAIN none = {}
  OBVIOUS
<1>. HIDE DEF none
<1>3. Over(none, f) = [x \in DOMAIN f |-> f[x]]
  BY <1>2 DEF Over
<1>4. Over(f, none) = [x \in DOMAIN f |-> f[x]]
  BY <1>2 DEF Over
<1>5. Over(f, f) = [x \in DOMAIN f |-> f[x]]
  BY DEF Over
<1>6. Over([x \in DOMAIN f |-> f[x]], f) = [x \in DOMAIN f |-> f[x]]
  BY DEF Over
<1>. QED
  BY <1>3, <1>4, <1>5, <1>6 DEF none

\* The values that a configuration hands down.
LEMMA DefaultsOf ==
  ASSUME NEW a, DOMAIN a = Fields
  PROVE  /\ WithDefaults(a).trials = Positive(a.trials, DefaultTrials)
         /\ WithDefaults(a).failure = Or(a.failure, 0, 5) /\ WithDefaults(a).fixedK = a.fixedK
         /\ WithDefaults(a).reliability = a.reliability /\ WithDefaults(a).weights = a.weights
<1>1. Scalars(a, WithDefaults(a)) /\ \A x \in Kept : WithDefaults(a)[x] = a[x]
  BY DefaultsAre
<1>. QED
  BY <1>1 DEF Scalars, Kept

LEMMA OwnGranted ==
  ASSUME NEW a, DOMAIN a = Fields, NEW p, IsProfile(p)
  PROVE  GrantedProfile(a, p, NormalizedProfile(WithDefaults(a), p))
<1>. DEFINE n == NormalizedProfile(WithDefaults(a), p)
            d == WithDefaults(a)
<1>1. /\ n.name = p.name /\ n.weights = p.weights
      /\ n.trials = Positive(p.trials, d.trials)
      /\ n.failure = Or(p.failure, 0, d.failure)
      /\ n.fixedK = Or(p.fixedK, 0, d.fixedK)
      /\ n.reliability = normalizeProfileReliability(d.reliability, p.reliability)
  BY ProfileIs
<1>2. /\ d.trials = Positive(a.trials, DefaultTrials) /\ d.failure = Or(a.failure, 0, 5) /\ d.fixedK = a.fixedK
      /\ d.reliability = a.reliability
  BY DefaultsOf
<1>. HIDE DEF n, d
<1>. QED
  BY <1>1, <1>2 DEF GrantedProfile, n, d

LEMMA DefaultGranted ==
  ASSUME NEW a, DOMAIN a = Fields
  PROVE  GrantedProfile(a, Unconfigured("default"),
                        NormalizedProfile(WithDefaults(a), DefaultProfile(WithDefaults(a))))
<1>. DEFINE d == WithDefaults(a)
            p == DefaultProfile(d)
            n == NormalizedProfile(d, p)
            r == normalizeProfileReliability(NoReliability, d.reliability)
            own == Unconfigured("default")
<1>1. /\ p.name = "default" /\ p.weights = d.weights /\ p.trials = d.trials /\ p.failure = d.failure
      /\ p.fixedK = d.fixedK /\ p.reliability = r
  BY DEF DefaultProfile
<1>2. IsProfile(p)
  BY DEF IsProfile, DefaultProfile, Unconfigured
<1>3. /\ own.name = "default" /\ own.weights = << >> /\ own.trials = 0 /\ own.failure = 0 /\ own.fixedK = 0
      /\ own.reliability = NoReliability
  BY DEF Unconfigured
<1>4. /\ d.trials = Positive(a.trials, DefaultTrials) /\ d.failure = Or(a.failure, 0, 5) /\ d.fixedK = a.fixedK
      /\ d.reliability = a.reliability /\ d.weights = a.weights
  BY DefaultsOf
<1>5. /\ n.name = p.name /\ n.weights = p.weights
      /\ n.trials = Positive(p.trials, d.trials)
      /\ n.failure = Or(p.failure, 0, d.failure)
      /\ n.fixedK = Or(p.fixedK, 0, d.fixedK)
      /\ n.reliability = normalizeProfileReliability(d.reliability, p.reliability)
  BY <1>2, ProfileIs
<1>. HIDE DEF d, p, n, own
<1>6. normalizeProfileReliability(d.reliability, r) = normalizeProfileReliability(d.reliability, NoReliability)
  <2>. DEFINE R == d.reliability
  <2>1. /\ r.node = Or(R.node, Nil, Nil) /\ r.edge = Or(R.edge, Nil, Nil)
        /\ r.services = Over(R.services, << >>) /\ r.edges = Over(R.edges, << >>)
    BY DEF normalizeProfileReliability, NoReliability
  <2>. HIDE DEF R, r
  <2>2. Or(r.node, Nil, R.node) = Or(Nil, Nil, R.node) /\ Or(r.edge, Nil, R.edge) = Or(Nil, Nil, R.edge)
    BY <2>1 DEF Or
  <2>3. Over(r.services, R.services) = Over(<< >>, R.services) /\ Over(r.edges, R.edges) = Over(<< >>, R.edges)
    BY <2>1, EntriesAlone
  <2>4. /\ NoReliability.node = Nil /\ NoReliability.edge = Nil
        /\ NoReliability.services = << >> /\ NoReliability.edges = << >>
    BY DEF NoReliability
  <2>5. normalizeProfileReliability(R, r) = normalizeProfileReliability(R, NoReliability)
    BY <2>2, <2>3, <2>4 DEF normalizeProfileReliability
  <2>. QED
    BY <2>5 DEF R, r
<1>7. n.reliability = normalizeProfileReliability(a.reliability, own.reliability)
  BY <1>1, <1>3, <1>4, <1>5, <1>6
<1>8. /\ n.trials = Positive(own.trials, Positive(a.trials, DefaultTrials))
      /\ n.failure = Or(own.failure, 0, Or(a.failure, 0, 5))
  BY <1>1, <1>3, <1>4, <1>5 DEF Positive, Or
<1>9. n.fixedK = Or(own.fixedK, 0, a.fixedK)
  BY <1>1, <1>3, <1>4, <1>5 DEF Or
<1>10. Over(n.weights, a.weights) = Over(own.weights, a.weights)
  BY <1>1, <1>3, <1>4, <1>5, EntriesAlone
<1>11. n.name = own.name
  BY <1>1, <1>3, <1>5
<1>12. GrantedProfile(a, own, n)
  BY <1>7, <1>8, <1>9, <1>10, <1>11 DEF GrantedProfile
<1>. QED
  BY <1>12 DEF own, n, p, d

\* An analysis as it is asked for: with a profile.
WithProfile(a) == [a EXCEPT !.profiles = Or(@, << >>, <<Unconfigured("default")>>)]

LEMMA WithProfileIs ==
  ASSUME NEW a, DOMAIN a = Fields
  PROVE  /\ WithProfile(a).profiles = IF a.profiles = << >> THEN <<Unconfigured("default")>> ELSE a.profiles
         /\ \A x \in Fields \ {"profiles"} : WithProfile(a)[x] = a[x]
BY DEF WithProfile, Or, Fields

LEMMA NormalizedGranted ==
  ASSUME NEW a, Shaped(a)
  PROVE  Granted(Normalized(a), WithProfile(a))
<1>. DEFINE asked == WithProfile(a)
            n == Normalized(a)
            own == Own(a)
<1>1. DOMAIN a = Fields
  BY DEF Shaped
<1>2. n.weights = a.weights /\ n.profiles = NormalizedProfiles(a)
  BY <1>1, NormalizedIs DEF Kept
<1>3. n.profiles = [i \in DOMAIN own |-> NormalizedProfile(WithDefaults(a), own[i])]
  BY <1>2, OwnProfiles
<1>4. /\ asked.profiles = IF a.profiles = << >> THEN <<Unconfigured("default")>> ELSE a.profiles
      /\ asked.weights = a.weights /\ asked.trials = a.trials /\ asked.failure = a.failure
      /\ asked.fixedK = a.fixedK /\ asked.reliability = a.reliability
  BY <1>1, WithProfileIs DEF Fields
<1>5. \A p, q : GrantedProfile(a, p, q) => GrantedProfile(asked, p, q)
  <2>. HIDE DEF asked
  <2>. QED
    BY <1>4 DEF GrantedProfile
<1>. HIDE DEF asked, n
<1>6. ASSUME a.profiles = << >> PROVE Granted(n, asked)
  <2>. DEFINE p == DefaultProfile(WithDefaults(a))
              u == Unconfigured("default")
  <2>0. GrantedProfile(a, u, NormalizedProfile(WithDefaults(a), p))
    BY <1>1, DefaultGranted
  <2>1. own = <<p>> /\ asked.profiles = <<u>>
    BY <1>4, <1>6 DEF Own
  <2>. HIDE DEF p, u, own
  <2>2. DOMAIN own = {1} /\ own[1] = p /\ DOMAIN asked.profiles = {1} /\ asked.profiles[1] = u
    BY <2>1
  <2>3. DOMAIN n.profiles = {1} /\ n.profiles[1] = NormalizedProfile(WithDefaults(a), p)
    BY <1>3, <2>2
  <2>4. \A i \in DOMAIN asked.profiles : GrantedProfile(asked, asked.profiles[i], n.profiles[i])
    BY <1>5, <2>0, <2>2, <2>3
  <2>. QED
    BY <1>2, <1>4, <2>2, <2>3, <2>4 DEF Granted
<1>7. ASSUME a.profiles # << >> PROVE Granted(n, asked)
  <2>1. own = a.profiles /\ asked.profiles = own
    BY <1>4, <1>7 DEF Own
  <2>2. \A i \in DOMAIN own : IsProfile(own[i])
    BY <2>1 DEF Shaped, Range
  <2>. HIDE DEF own
  <2>3. \A i \in DOMAIN own : GrantedProfile(a, own[i], n.profiles[i])
    BY <1>1, <1>3, <2>2, OwnGranted
  <2>4. DOMAIN n.profiles = DOMAIN own
    BY <1>3
  <2>5. \A i \in DOMAIN asked.profiles : GrantedProfile(asked, asked.profiles[i], n.profiles[i])
    BY <1>5, <2>1, <2>3
  <2>. QED
    BY <1>2, <1>4, <2>1, <2>4, <2>5 DEF Granted
<1>. QED
  BY <1>6, <1>7 DEF n, asked

-----------------------------------------------------------------------------
(* What was asked for and what was loaded.                                 *)

Fulfils(c, a) == Granted(c, a) /\ Credited(c, a) /\ SourcesShaped(c)

Numbers(a) == \A x \in {a} \cup Range(a.profiles) : {x.trials, x.failure, x.fixedK} \subseteq Int

\* A batch command holds a configuration that fulfils what it was asked for.
AskedInv == stage \in {"load"} \cup HasLoaded => Fulfils(config, Asked) /\ Numbers(Asked)

\* The analysis of its artifact has credited the evidence.
EvidenceInv == stage \in HasBaselines =>
                 Untouched(config, loaded.model) /\ ValidWeights(Overlay(config).weights)

ParameterInv == ConfiguredInv /\ AskedInv /\ EvidenceInv

LEMMA FulfilsKept ==
  ASSUME NEW c, NEW d, NEW a, Fulfils(c, a), d.profiles = c.profiles, d.weights = c.weights,
         "profiles" \in DOMAIN d.sources, d.sources.profiles = c.sources.profiles
  PROVE  Fulfils(d, a)
<1>1. ProfileNames(d) = ProfileNames(c)
  BY DEF ProfileNames
<1>2. Granted(d, a)
  BY DEF Fulfils, Granted
<1>3. Credited(d, a)
  BY DEF Fulfils, Credited
<1>4. SourcesShaped(d)
  BY <1>1 DEF Fulfils, SourcesShaped
<1>. QED
  BY <1>2, <1>3, <1>4 DEF Fulfils

PolicyAsked(a) == [EmptyAnalysis EXCEPT !.trials = a.trials, !.failure = a.failure]

LEMMA PolicyAskedIs ==
  ASSUME NEW a
  PROVE  LET asked == WithProfile(PolicyAsked(a)) IN
         /\ asked.trials = a.trials /\ asked.failure = a.failure /\ asked.fixedK = 0
         /\ asked.reliability = NoReliability /\ asked.weights = << >>
         /\ asked.profiles = <<Unconfigured("default")>>
<1>. DEFINE b == PolicyAsked(a)
<1>1. /\ DOMAIN b = Fields /\ b.trials = a.trials /\ b.failure = a.failure /\ b.fixedK = 0
      /\ b.reliability = NoReliability /\ b.weights = << >> /\ b.profiles = << >>
  BY DEF PolicyAsked, EmptyAnalysis, Fields
<1>. HIDE DEF b
<1>2. /\ WithProfile(b).profiles = IF b.profiles = << >> THEN <<Unconfigured("default")>> ELSE b.profiles
      /\ \A x \in Fields \ {"profiles"} : WithProfile(b)[x] = b[x]
  BY <1>1, WithProfileIs
<1>3. /\ WithProfile(b).trials = a.trials /\ WithProfile(b).failure = a.failure /\ WithProfile(b).fixedK = 0
      /\ WithProfile(b).reliability = NoReliability /\ WithProfile(b).weights = << >>
  BY <1>1, <1>2 DEF Fields
<1>. QED
  BY <1>1, <1>2, <1>3 DEF b

\* The one profile of a policy.
PolicyProfile(p) ==
  [Unconfigured("default") EXCEPT !.trials = p.trials, !.failure = p.failure, !.mode = "independent_replica"]

LEMMA PolicyIs ==
  ASSUME NEW p, NEW c, c = ToAnalysisConfig(p)
  PROVE  /\ DOMAIN c = Fields /\ c.trials = p.trials /\ c.failure = p.failure
         /\ c.reliability = NoReliability /\ c.fixedK = 0 /\ c.weights = << >>
         /\ c.profiles = <<PolicyProfile(p)>>
         /\ "profiles" \in DOMAIN c.sources
         /\ c.sources.profiles =
              [n \in {"default"} |->
                 [trials |-> "policy", mode |-> "policy", failure |-> "policy",
                  reliability |-> "default", fixedK |-> "default", weights |-> "default"]]
<1>. DEFINE profile == PolicyProfile(p)
            gate == [EmptyGate EXCEPT !.mode = p.mode, !.defaultAction = p.defaultAction,
                          !.rule = "all_profiles", !.global = p.global, !.endpoints = p.endpoints]
            b == [EmptyAnalysis EXCEPT
                    !.version = 10, !.seed = 42, !.trials = p.trials, !.failure = p.failure,
                    !.mode = "independent_replica", !.profiles = <<profile>>, !.gate = gate]
            s == BuildPolicyParameterSources(b)
            d == [b EXCEPT !.sources = s]
<1>1. c = d
  BY DEF ToAnalysisConfig, PolicyProfile
<1>2. profile.name = "default"
  BY DEF PolicyProfile, Unconfigured
<1>. HIDE DEF profile, gate
<1>3. /\ DOMAIN b = Fields /\ b.trials = p.trials /\ b.failure = p.failure /\ b.profiles = <<profile>>
      /\ b.reliability = NoReliability /\ b.fixedK = 0 /\ b.weights = << >>
  BY DEF EmptyAnalysis, Fields
<1>. HIDE DEF b
<1>4. ProfileNames(b) = {"default"}
  <2>1. Range(<<profile>>) = {profile}
    BY DEF Range
  <2>. QED
    BY <1>2, <1>3, <2>1 DEF ProfileNames
<1>5. /\ "profiles" \in DOMAIN s
      /\ s.profiles = [n \in {"default"} |->
                 [trials |-> "policy", mode |-> "policy", failure |-> "policy",
                  reliability |-> "default", fixedK |-> "default", weights |-> "default"]]
  BY <1>4 DEF BuildPolicyParameterSources
<1>. HIDE DEF s
<1>6. /\ DOMAIN d = Fields /\ d.trials = p.trials /\ d.failure = p.failure /\ d.profiles = <<profile>>
      /\ d.reliability = NoReliability /\ d.fixedK = 0 /\ d.weights = << >> /\ d.sources = s
  BY <1>3 DEF Fields
<1>. HIDE DEF d
<1>. QED
  BY <1>1, <1>5, <1>6 DEF profile

LEMMA NothingConfigured ==
  LET r == normalizeProfileReliability(NoReliability, NoReliability) IN ~reliabilityConfigured(r)
<1>. DEFINE none == << >>
            r == normalizeProfileReliability(NoReliability, NoReliability)
<1>1. DOMAIN none = {}
  OBVIOUS
<1>2. /\ NoReliability.node = Nil /\ NoReliability.edge = Nil
      /\ NoReliability.services = none /\ NoReliability.edges = none
  BY DEF NoReliability
<1>. HIDE DEF none
<1>3. r.node = Nil /\ r.edge = Nil /\ r.services = Over(none, none) /\ r.edges = Over(none, none)
  BY <1>2 DEF normalizeProfileReliability, Or
<1>4. DOMAIN Over(none, none) = {}
  BY <1>1 DEF Over
<1>. HIDE DEF r
<1>5. ~reliabilityConfigured(r)
  BY <1>3, <1>4 DEF reliabilityConfigured
<1>. QED
  BY <1>5 DEF r

LEMMA PolicyFulfils ==
  ASSUME NEW file, NEW p, p = LoadPolicy(file), p # Nil
  PROVE  Fulfils(Normalized(ToAnalysisConfig(p)), WithProfile(PolicyAsked(file.analysis)))
<1>. DEFINE c == ToAnalysisConfig(p)
            n == Normalized(c)
            asked == WithProfile(PolicyAsked(file.analysis))
            t == file.analysis.trials
            f == file.analysis.failure
            u == Unconfigured("default")
            own == PolicyProfile(p)
            q == n.profiles[1]
<1>1. p.trials = Positive(t, DefaultTrials) /\ p.failure = Or(f, 0, 5) /\ ValidPolicyFile(p)
  BY DEF LoadPolicy, NormalizedPolicyFile
<1>2. \A d : Positive(p.trials, d) = p.trials
  BY <1>1 DEF Positive, DefaultTrials
<1>3. Shaped(c)
  BY <1>1, PolicyUsable DEF Usable
<1>4. /\ DOMAIN c = Fields /\ c.trials = p.trials /\ c.failure = p.failure
      /\ c.reliability = NoReliability /\ c.fixedK = 0 /\ c.weights = << >>
      /\ c.profiles = <<own>> /\ "profiles" \in DOMAIN c.sources
      /\ c.sources.profiles =
              [x \in {"default"} |->
                 [trials |-> "policy", mode |-> "policy", failure |-> "policy",
                  reliability |-> "default", fixedK |-> "default", weights |-> "default"]]
  BY PolicyIs
<1>5. /\ own.name = "default" /\ own.trials = p.trials /\ own.failure = p.failure /\ own.fixedK = 0
      /\ own.reliability = NoReliability /\ own.weights = << >>
  BY DEF PolicyProfile, Unconfigured
<1>6. /\ u.name = "default" /\ u.trials = 0 /\ u.failure = 0 /\ u.fixedK = 0
      /\ u.reliability = NoReliability /\ u.weights = << >>
  BY DEF Unconfigured
<1>7. /\ asked.trials = t /\ asked.failure = f /\ asked.fixedK = 0
      /\ asked.reliability = NoReliability /\ asked.weights = << >> /\ asked.profiles = <<u>>
  BY PolicyAskedIs
<1>8. n.sources = c.sources
  BY <1>4, NormalizedIs DEF Kept
<1>9. Granted(n, WithProfile(c))
  BY <1>3, NormalizedGranted
<1>. HIDE DEF asked, u, own, c
<1>10. /\ WithProfile(c).profiles = <<own>>
       /\ WithProfile(c).trials = p.trials /\ WithProfile(c).failure = p.failure /\ WithProfile(c).fixedK = 0
       /\ WithProfile(c).reliability = NoReliability /\ WithProfile(c).weights = << >>
  <2>1. /\ WithProfile(c).profiles = IF c.profiles = << >> THEN <<Unconfigured("default")>> ELSE c.profiles
        /\ \A x \in Fields \ {"profiles"} : WithProfile(c)[x] = c[x]
    BY <1>4, WithProfileIs
  <2>2. c.profiles # << >>
    BY <1>4
  <2>. QED
    BY <1>4, <2>1, <2>2 DEF Fields
<1>11. DOMAIN n.profiles = {1} /\ GrantedProfile(WithProfile(c), own, q) /\ n.weights = << >>
  <2>1. DOMAIN <<own>> = {1} /\ <<own>>[1] = own
    OBVIOUS
  <2>. QED
    BY <1>9, <1>10, <2>1 DEF Granted
<1>. HIDE DEF n
<1>12. /\ q.name = "default" /\ q.trials = p.trials /\ q.failure = p.failure /\ q.fixedK = 0
       /\ q.reliability = normalizeProfileReliability(NoReliability, NoReliability)
       /\ Over(q.weights, << >>) = Over(<< >>, << >>)
  <2>1. /\ q.name = own.name
        /\ q.trials = Positive(own.trials, Positive(p.trials, DefaultTrials))
        /\ q.failure = Or(own.failure, 0, Or(p.failure, 0, 5))
        /\ q.fixedK = Or(own.fixedK, 0, 0)
        /\ q.reliability = normalizeProfileReliability(NoReliability, own.reliability)
        /\ Over(q.weights, << >>) = Over(own.weights, << >>)
    BY <1>10, <1>11 DEF GrantedProfile
  <2>2. Positive(own.trials, Positive(p.trials, DefaultTrials)) = p.trials
    BY <1>2, <1>5
  <2>3. Or(own.failure, 0, Or(p.failure, 0, 5)) = p.failure
    <3>1. p.failure # 0
      BY <1>1 DEF Or
    <3>. QED
      BY <1>5, <3>1 DEF Or
  <2>4. Or(own.fixedK, 0, 0) = 0
    BY <1>5 DEF Or
  <2>. QED
    BY <1>5, <2>1, <2>2, <2>3, <2>4
<1>13. GrantedProfile(asked, u, q)
  <2>1. Positive(u.trials, Positive(t, DefaultTrials)) = p.trials
    BY <1>1, <1>6 DEF Positive
  <2>2. Or(u.failure, 0, Or(f, 0, 5)) = p.failure /\ Or(u.fixedK, 0, asked.fixedK) = 0
    BY <1>1, <1>6, <1>7 DEF Or
  <2>. QED
    BY <1>6, <1>7, <1>12, <2>1, <2>2 DEF GrantedProfile
<1>14. DOMAIN asked.profiles = {1} /\ asked.profiles[1] = u
  BY <1>7
<1>15. Granted(n, asked)
  BY <1>7, <1>11, <1>13, <1>14 DEF Granted
<1>. DEFINE s == n.sources.profiles["default"]
<1>16. /\ DOMAIN s = SourceFields /\ s.failure = "policy"
  BY <1>4, <1>8 DEF SourceFields
<1>17. CreditedProfile(asked, u, q, s)
  <2>1. ~reliabilityConfigured(q.reliability)
    BY <1>12, NothingConfigured
  <2>2. DOMAIN u.weights = {} /\ DOMAIN asked.weights = {}
    BY <1>6, <1>7
  <2>. QED
    BY <1>6, <1>7, <1>16, <2>1, <2>2 DEF CreditedProfile
<1>18. Credited(n, asked)
  BY <1>6, <1>14, <1>17 DEF Credited
<1>19. SourcesShaped(n)
  <2>1. Range(n.profiles) = {q}
    BY <1>11 DEF Range
  <2>2. ProfileNames(n) = {"default"}
    BY <1>12, <2>1 DEF ProfileNames
  <2>3. "profiles" \in DOMAIN n.sources /\ DOMAIN n.sources.profiles = {"default"}
    BY <1>4, <1>8
  <2>. QED
    BY <1>16, <2>2, <2>3 DEF SourcesShaped
<1>20. Fulfils(n, asked)
  BY <1>15, <1>18, <1>19 DEF Fulfils
<1>. QED
  BY <1>20 DEF n, asked, c

LEMMA WrittenThroughIs ==
  ASSUME NEW a, DOMAIN a = Fields
  PROVE  LET w == WrittenThrough(a) IN
         /\ w.profiles = IF a.profiles = << >> THEN << >> ELSE NormalizedProfiles(a)
         /\ w.fixedK = a.fixedK /\ w.failure = a.failure /\ w.weights = a.weights
         /\ w.reliability = a.reliability
<1>. DEFINE w == WrittenThrough(a)
<1>1. w.profiles = IF a.profiles = << >> THEN << >> ELSE NormalizedProfiles(a)
  BY DEF WrittenThrough, Fields
<1>2. \A x \in Fields \ {"profiles", "sweeps"} : w[x] = a[x]
  BY DEF WrittenThrough
<1>. HIDE DEF w
<1>3. /\ w.fixedK = a.fixedK /\ w.failure = a.failure /\ w.weights = a.weights
      /\ w.reliability = a.reliability
  BY <1>2 DEF Fields
<1>. QED
  BY <1>1, <1>3 DEF w

LEMMA OwnSourcesIs ==
  ASSUME NEW p, NEW fallback
  PROVE  LET s == OwnSources(p, fallback) IN
         /\ DOMAIN s = SourceFields
         /\ s.reliability = "default" => ~reliabilityConfigured(p.reliability) /\ fallback.reliability = "default"
         /\ s.fixedK = "default" => p.fixedK = 0 /\ fallback.fixedK = "default"
         /\ s.failure = "default" => p.failure = 0 /\ fallback.failure = "default"
         /\ s.weights = "default" => DOMAIN p.weights = {} /\ fallback.weights = "default"
BY DEF OwnSources, inheritedSource, SourceFields

\* Sources are derived after normalisation has written through to the profiles
\* of the file: its values are found by the name, which is unique.
LEMMA AttributedFulfils ==
  ASSUME NEW a, IsAnalysis(a), Validate(Normalized(a))
  PROVE  Fulfils(Attributed(a), WithProfile(a))
<1>. DEFINE n == Normalized(a)
            w == WrittenThrough(a)
            s == BuildAnalysisParameterSources(w, n)
            d == [n EXCEPT !.sources = s]
            asked == WithProfile(a)
            none == [x \in SourceFields |-> "default"]
            general == OwnSources(w, none)
<1>1. Attributed(a) = d
  BY DEF Attributed
<1>2. Shaped(a) /\ DOMAIN a = Fields
  BY ShapedAnalyses DEF Shaped
<1>3. DOMAIN n = Fields /\ n.profiles = NormalizedProfiles(a) /\ n.weights = a.weights
  BY <1>2, NormalizedIs DEF Kept
<1>4. /\ w.profiles = IF a.profiles = << >> THEN << >> ELSE n.profiles
      /\ w.fixedK = a.fixedK /\ w.failure = a.failure /\ w.weights = a.weights
      /\ w.reliability = a.reliability
  BY <1>2, <1>3, WrittenThroughIs
<1>5. /\ asked.profiles = IF a.profiles = << >> THEN <<Unconfigured("default")>> ELSE a.profiles
      /\ asked.weights = a.weights /\ asked.failure = a.failure
      /\ asked.fixedK = a.fixedK /\ asked.reliability = a.reliability
  BY <1>2, WithProfileIs DEF Fields
<1>6. Granted(n, asked)
  BY <1>2, NormalizedGranted
<1>7. Unique(n.profiles)
  BY DEF Validate
<1>8. /\ "profiles" \in DOMAIN s
      /\ s.profiles = [x \in ProfileNames(n) |-> OwnSources(RawProfile(w, x), general)]
  BY DEF BuildAnalysisParameterSources, SourceFields
<1>. HIDE DEF n, w, asked
<1>9. /\ general.reliability = "default" => ~reliabilityConfigured(a.reliability)
      /\ general.fixedK = "default" => a.fixedK = 0
      /\ general.failure = "default" => a.failure = 0
      /\ general.weights = "default" => DOMAIN a.weights = {}
  BY <1>4, OwnSourcesIs
<1>. HIDE DEF s, none, general
<1>10. d.profiles = n.profiles /\ d.weights = n.weights /\ d.sources = s
  BY <1>3 DEF Fields
<1>. HIDE DEF d
<1>11. Granted(d, asked)
  BY <1>6, <1>10 DEF Granted
<1>12. ProfileNames(d) = ProfileNames(n)
  BY <1>10 DEF ProfileNames
<1>13. SourcesShaped(d)
  BY <1>8, <1>10, <1>12, OwnSourcesIs DEF SourcesShaped
<1>14. ASSUME NEW i \in DOMAIN asked.profiles
       PROVE  CreditedProfile(asked, asked.profiles[i], d.profiles[i], d.sources.profiles[asked.profiles[i].name])
  <2>. DEFINE own == asked.profiles[i]
              q == n.profiles[i]
              raw == RawProfile(w, own.name)
              source == OwnSources(raw, general)
  <2>1. DOMAIN n.profiles = DOMAIN asked.profiles /\ GrantedProfile(asked, own, q)
    BY <1>6 DEF Granted
  <2>2. q \in Range(n.profiles)
    BY <2>1 DEF Range
  <2>3. q.name = own.name /\ own.name \in ProfileNames(n)
    BY <2>1, <2>2 DEF GrantedProfile, ProfileNames
  <2>4. d.sources.profiles[own.name] = source
    BY <1>8, <1>10, <2>3
  <2>5. /\ source.reliability = "default" => ~reliabilityConfigured(raw.reliability) /\ general.reliability = "default"
        /\ source.fixedK = "default" => raw.fixedK = 0 /\ general.fixedK = "default"
        /\ source.failure = "default" => raw.failure = 0 /\ general.failure = "default"
        /\ source.weights = "default" => DOMAIN raw.weights = {} /\ general.weights = "default"
    BY OwnSourcesIs
  <2>6. /\ q.failure = Or(own.failure, 0, Or(a.failure, 0, 5))
        /\ q.fixedK = Or(own.fixedK, 0, a.fixedK)
        /\ q.reliability = normalizeProfileReliability(a.reliability, own.reliability)
        /\ Over(q.weights, a.weights) = Over(own.weights, a.weights)
    BY <1>5, <2>1 DEF GrantedProfile
  <2>. HIDE DEF source
  <2>7. ASSUME a.profiles = << >> PROVE CreditedProfile(asked, own, q, source)
    <3>1. asked.profiles = <<Unconfigured("default")>>
      BY <1>5, <2>7
    <3>2. DOMAIN <<Unconfigured("default")>> = {1} /\ <<Unconfigured("default")>>[1] = Unconfigured("default")
      OBVIOUS
    <3>3. own = Unconfigured("default")
      BY <3>1, <3>2
    <3>. HIDE DEF own, q
    <3>4. own.failure = 0 /\ own.fixedK = 0 /\ own.reliability = NoReliability /\ own.weights = << >>
      BY <3>3 DEF Unconfigured
    <3>5. ~reliabilityConfigured(a.reliability) => ~reliabilityConfigured(q.reliability)
      <4>. DEFINE r == a.reliability
                  empty == << >>
      <4>1. DOMAIN empty = {}
        OBVIOUS
      <4>2. /\ NoReliability.node = Nil /\ NoReliability.edge = Nil
            /\ NoReliability.services = empty /\ NoReliability.edges = empty
        BY DEF NoReliability
      <4>. HIDE DEF empty
      <4>3. /\ q.reliability.node = Or(Nil, Nil, r.node) /\ q.reliability.edge = Or(Nil, Nil, r.edge)
            /\ q.reliability.services = Over(empty, r.services) /\ q.reliability.edges = Over(empty, r.edges)
        BY <2>6, <3>4, <4>2 DEF normalizeProfileReliability
      <4>4. DOMAIN Over(empty, r.services) = DOMAIN r.services /\ DOMAIN Over(empty, r.edges) = DOMAIN r.edges
        BY <4>1 DEF Over
      <4>. QED
        BY <4>3, <4>4 DEF reliabilityConfigured, Or
    <3>6. DOMAIN own.weights = {}
      BY <3>4
    <3>. QED
      BY <1>5, <1>9, <2>5, <3>4, <3>5, <3>6 DEF CreditedProfile
  <2>8. ASSUME a.profiles # << >> PROVE CreditedProfile(asked, own, q, source)
    <3>1. w.profiles = n.profiles
      BY <1>4, <2>8
    <3>2. raw \in Range(n.profiles) /\ raw.name = own.name
      BY <2>3, <3>1 DEF RawProfile, ProfileNames
    <3>3. PICK k \in DOMAIN n.profiles : raw = n.profiles[k]
      BY <3>2 DEF Range
    <3>4. k = i
      <4>1. n.profiles[k].name = n.profiles[i].name /\ i \in DOMAIN n.profiles
        BY <2>1, <2>3, <3>2, <3>3
      <4>. QED
        BY <1>7, <4>1 DEF Unique, IsInjective
    <3>5. raw = q
      BY <3>3, <3>4
    <3>. HIDE DEF own, q, raw
    <3>6. DOMAIN q.weights = {} /\ DOMAIN a.weights = {} => DOMAIN own.weights = {}
      <4>1. DOMAIN Over(q.weights, a.weights) = DOMAIN q.weights \cup DOMAIN a.weights
        BY DEF Over
      <4>2. DOMAIN Over(own.weights, a.weights) = DOMAIN own.weights \cup DOMAIN a.weights
        BY DEF Over
      <4>. QED
        BY <2>6, <4>1, <4>2
    <3>7. q.fixedK = 0 => own.fixedK = 0 /\ a.fixedK = 0
      BY <2>6 DEF Or
    <3>8. q.failure # 0
      BY <2>6 DEF Or
    <3>. QED
      BY <1>5, <1>9, <2>5, <3>5, <3>6, <3>7, <3>8 DEF CreditedProfile
  <2>. QED
    BY <1>10, <2>4, <2>7, <2>8
<1>15. Credited(d, asked)
  BY <1>14 DEF Credited
<1>16. Fulfils(d, asked)
  BY <1>11, <1>13, <1>15 DEF Fulfils
<1>. QED
  BY <1>1, <1>16 DEF asked

LEMMA AskedByIs ==
  ASSUME NEW j
  PROVE  /\ j.analysis = Nil => AskedBy(j) = WithProfile(PolicyAsked(j.policy.analysis))
         /\ j.analysis # Nil =>
              LET a == j.analysis.analysis IN
              AskedBy(j) = IF a.profiles = << >> /\ a.version = 0 THEN WithProfile(PolicyAsked(a)) ELSE WithProfile(a)
BY DEF AskedBy, WithProfile, PolicyAsked, Or

LEMMA NumbersGiven ==
  ASSUME NEW a, IsAnalysis(a)
  PROVE  Numbers(WithProfile(a)) /\ Numbers(WithProfile(PolicyAsked(a)))
<1>. DEFINE u == Unconfigured("default")
            b == WithProfile(a)
            c == WithProfile(PolicyAsked(a))
<1>1. DOMAIN a = Fields
  BY ShapedAnalyses DEF Shaped
<1>2. \A x \in {a} \cup Range(a.profiles) : {x.trials, x.failure, x.fixedK} \subseteq Int
  BY DEF IsAnalysis
<1>3. u.trials = 0 /\ u.failure = 0 /\ u.fixedK = 0
  BY DEF Unconfigured
<1>4. b.profiles = (IF a.profiles = << >> THEN <<u>> ELSE a.profiles)
      /\ b.trials = a.trials /\ b.failure = a.failure /\ b.fixedK = a.fixedK
  BY <1>1, WithProfileIs DEF Fields
<1>5. c.profiles = <<u>> /\ c.trials = a.trials /\ c.failure = a.failure /\ c.fixedK = 0
  BY PolicyAskedIs
<1>. HIDE DEF b, c, u
<1>6. Range(<<u>>) = {u}
  BY DEF Range
<1>7. b.profiles = <<u>> \/ b.profiles = a.profiles
  BY <1>4
<1>8. \A x \in Range(b.profiles) : {x.trials, x.failure, x.fixedK} \subseteq Int
  BY <1>2, <1>3, <1>6, <1>7
<1>9. Numbers(b)
  BY <1>2, <1>4, <1>8 DEF Numbers
<1>10. Numbers(c)
  BY <1>2, <1>3, <1>5, <1>6 DEF Numbers
<1>. QED
  BY <1>9, <1>10 DEF b, c

LEMMA NumbersAsked ==
  ASSUME NEW j, \A a \in AnalysesOf(j) : IsAnalysis(a), FileConfig(j) # Nil
  PROVE  Numbers(AskedBy(j))
<1>1. CASE j.analysis # Nil
  <2>1. IsAnalysis(j.analysis.analysis)
    BY <1>1 DEF AnalysesOf
  <2>. QED
    BY <1>1, <2>1, NumbersGiven, AskedByIs
<1>2. CASE j.analysis = Nil
  <2>1. j.policy # Nil
    BY <1>2 DEF FileConfig
  <2>2. IsAnalysis(j.policy.analysis)
    BY <2>1 DEF AnalysesOf
  <2>. QED
    BY <1>2, <2>2, NumbersGiven, AskedByIs
<1>. QED
  BY <1>1, <1>2

LEMMA AnalysisFulfils ==
  ASSUME NEW file, IsAnalysis(file.analysis), LoadAnalysis(file) # Nil
  PROVE  LET a == file.analysis IN
         Fulfils(Normalized(LoadAnalysis(file)),
                 IF a.profiles = << >> /\ a.version = 0 THEN WithProfile(PolicyAsked(a)) ELSE WithProfile(a))
<1>. DEFINE a == file.analysis
            c == LoadAnalysis(file)
<1>1. ASSUME a.profiles = << >> /\ a.version = 0 PROVE Fulfils(Normalized(c), WithProfile(PolicyAsked(a)))
  <2>. DEFINE p == LoadPolicy(file)
  <2>1. p # Nil /\ c = Normalized(ToAnalysisConfig(p))
    BY <1>1 DEF LoadAnalysis
  <2>2. ValidPolicyFile(p)
    BY <2>1 DEF LoadPolicy
  <2>3. Shaped(ToAnalysisConfig(p))
    BY <2>2, PolicyUsable DEF Usable
  <2>4. Fulfils(Normalized(ToAnalysisConfig(p)), WithProfile(PolicyAsked(a)))
    BY <2>1, PolicyFulfils
  <2>. HIDE DEF p
  <2>5. Normalized(c) = Normalized(ToAnalysisConfig(p))
    BY <2>1, <2>3, NormalizedTwice
  <2>. QED
    BY <2>4, <2>5
<1>2. ASSUME ~(a.profiles = << >> /\ a.version = 0) PROVE Fulfils(Normalized(c), WithProfile(a))
  <2>. DEFINE s == BuildAnalysisParameterSources(WrittenThrough(a), Normalized(a))
  <2>1. c = Attributed(a) /\ Validate(Normalized(a))
    BY <1>2 DEF LoadAnalysis
  <2>2. Attributed(a) = [Normalized(a) EXCEPT !.sources = s]
    BY DEF Attributed
  <2>3. Steady(Normalized(a))
    BY <2>1, ShapedAnalyses, NormalizedSteady DEF Usable
  <2>. HIDE DEF s
  <2>4. Normalized(Attributed(a)) = Attributed(a)
    BY <2>2, <2>3, SourcesSteady DEF Steady
  <2>. QED
    BY <2>1, <2>4, AttributedFulfils
<1>. QED
  BY <1>1, <1>2

LEMMA FileFulfils ==
  ASSUME NEW j, \A a \in AnalysesOf(j) : IsAnalysis(a), FileConfig(j) # Nil
  PROVE  Fulfils(Normalized(FileConfig(j)), AskedBy(j))
<1>1. CASE j.analysis # Nil
  <2>1. IsAnalysis(j.analysis.analysis)
    BY <1>1 DEF AnalysesOf
  <2>2. FileConfig(j) = LoadAnalysis(j.analysis)
    BY <1>1 DEF FileConfig
  <2>. QED
    BY <1>1, <2>1, <2>2, AnalysisFulfils, AskedByIs
<1>2. CASE j.analysis = Nil
  <2>1. LoadPolicy(j.policy) # Nil /\ FileConfig(j) = ToAnalysisConfig(LoadPolicy(j.policy))
    BY <1>2 DEF FileConfig
  <2>. QED
    BY <1>2, <2>1, PolicyFulfils, AskedByIs
<1>. QED
  BY <1>1, <1>2

\* What a command adds to the configuration of its file is not asked about.
LEMMA ExecutionFulfils ==
  ASSUME NEW j, \A a \in AnalysesOf(j) : IsAnalysis(a), loadExecutionConfig(j) # Nil
  PROVE  Fulfils(loadExecutionConfig(j), AskedBy(j))
<1>. DEFINE b == FileConfig(j)
            c == WithContractPolicy(b, j.contractPolicy)
            d == WithSeed(c, j.seed)
            e == [d EXCEPT !.journeys = Or(j.journeys, Nil, @)]
<1>1. b # Nil /\ ContractPolicyLoads(j) /\ loadExecutionConfig(j) = Normalized(e)
  BY DEF loadExecutionConfig
<1>2. Usable(b) /\ Usable(c) /\ Usable(d)
  BY <1>1, FileUsable, ContractPolicyUsable, SeedUsable
<1>3. DOMAIN b = Fields /\ DOMAIN c = Fields /\ DOMAIN d = Fields
  BY <1>2 DEF Usable, Shaped
<1>4. Fulfils(Normalized(b), AskedBy(j))
  BY <1>1, FileFulfils
<1>5. /\ Normalized(b).profiles = NormalizedProfiles(b) /\ Normalized(b).weights = b.weights
      /\ Normalized(b).sources = b.sources
  BY <1>3, NormalizedIs DEF Kept
<1>6. "profiles" \in DOMAIN b.sources
  BY <1>4, <1>5 DEF Fulfils, SourcesShaped
<1>. HIDE DEF b
<1>7. \A x \in Fields \ {"policy"} : c[x] = b[x]
  BY <1>3 DEF WithContractPolicy
<1>. HIDE DEF c
<1>8. /\ \A x \in Fields \ {"seed", "sources"} : d[x] = c[x]
      /\ "profiles" \in DOMAIN d.sources /\ d.sources.profiles = c.sources.profiles
  <2>0. c.sources = b.sources /\ "sources" \in DOMAIN c
    BY <1>3, <1>7 DEF Fields
  <2>1. CASE j.seed = Nil
    BY <1>6, <2>0, <2>1 DEF WithSeed
  <2>2. CASE j.seed # Nil
    <3>1. d = [c EXCEPT !.seed = j.seed, !.sources.seed = "override"]
      BY <2>2 DEF WithSeed
    <3>. HIDE DEF d
    <3>2. d.sources = [c.sources EXCEPT !.seed = "override"]
      BY <2>0, <3>1
    <3>. QED
      BY <1>3, <1>6, <2>0, <3>1, <3>2
  <2>. QED
    BY <2>1, <2>2
<1>. HIDE DEF d
<1>9. DOMAIN e = Fields /\ \A x \in Fields \ {"journeys"} : e[x] = d[x]
  BY <1>3
<1>. HIDE DEF e
<1>10. Alike(b, e) /\ e.gate = b.gate /\ e.baselines = b.baselines
  BY <1>7, <1>8, <1>9 DEF Alike, Judged, Fields
<1>11. Shaped(e)
  <2>1. e.profiles = b.profiles
    BY <1>10 DEF Alike, Judged
  <2>. QED
    BY <1>2, <1>9, <1>10, <2>1 DEF Usable, Shaped
<1>12. Alike(Normalized(b), Normalized(e))
  BY <1>2, <1>10, <1>11, AlikeNormalized DEF Usable
<1>13. Normalized(e).profiles = Normalized(b).profiles /\ Normalized(e).weights = Normalized(b).weights
  BY <1>12 DEF Alike, Judged
<1>14. Normalized(e).sources = e.sources
  BY <1>9, NormalizedIs DEF Kept
<1>15. "profiles" \in DOMAIN e.sources /\ e.sources.profiles = b.sources.profiles
  BY <1>7, <1>8, <1>9 DEF Fields
<1>16. Fulfils(Normalized(e), AskedBy(j))
  BY <1>4, <1>5, <1>13, <1>14, <1>15, FulfilsKept
<1>. QED
  BY <1>1, <1>16

LEMMA LoadedWeights == \A file : Load(file) # Nil /\ Load(file).weightsSource = "default" => DOMAIN Load(file).weights = {}
<1>. DEFINE Fits(l) == l.weightsSource = "default" => DOMAIN l.weights = {}
<1>1. ASSUME NEW file, Load(file) # Nil PROVE Fits(Load(file))
  <2>1. ASSUME NEW contract, NEW model, NEW weights, NEW source, source # "default"
        PROVE  Fits(Loaded(contract, model, weights, source))
    BY <2>1 DEF Loaded, sourceOrDefault
  <2>. HIDE DEF Fits
  <2>2. \A contract : loadModel(file, contract) # Nil => Fits(loadModel(file, contract))
    BY <2>1 DEF loadModel
  <2>3. \A contract : loadSnapshot(file, contract) # Nil => Fits(loadSnapshot(file, contract))
    <3>. DEFINE source == IF DOMAIN file.discovery = {} THEN "model" ELSE "snapshot"
    <3>1. source # "default"
      OBVIOUS
    <3>2. \A contract : loadSnapshot(file, contract) # Nil =>
            \E model : loadSnapshot(file, contract) = Loaded(contract, model, SnapshotWeights(file), source)
      BY DEF loadSnapshot
    <3>. HIDE DEF source
    <3>. QED
      BY <2>1, <3>1, <3>2
  <2>4. \/ \E contract : Load(file) = loadModel(file, contract)
        \/ \E contract : Load(file) = loadSnapshot(file, contract)
    BY <1>1 DEF Load
  <2>. QED
    BY <1>1, <2>2, <2>3, <2>4
<1>. QED
  BY <1>1

LEMMA EvidenceOfSources ==
  ASSUME NEW c, NEW m, SourcesShaped(c)
  PROVE  LET e == WithEvidence(c, m) IN
         /\ "profiles" \in DOMAIN e /\ DOMAIN e.profiles = ProfileNames(c)
         /\ \A n \in ProfileNames(c) :
              /\ DOMAIN e.profiles[n] = SourceFields
              /\ \A x \in SourceFields \ {"reliability"} : e.profiles[n][x] = c.sources.profiles[n][x]
              /\ e.profiles[n].reliability = "default" =>
                   /\ c.sources.profiles[n].reliability = "default"
                   /\ \A p \in Range(c.profiles) :
                        p.name = n => ~UsesEvidence(reliabilityFromArtifact(m), p.reliability)
<1>. DEFINE e == WithEvidence(c, m)
            old == c.sources.profiles
            Uses(n) == \E p \in Range(c.profiles) :
                         p.name = n /\ UsesEvidence(reliabilityFromArtifact(m), p.reliability)
            New(n) == IF old[n].reliability = "default" /\ Uses(n)
                      THEN [old[n] EXCEPT !.reliability = "external"] ELSE old[n]
<1>1. /\ "profiles" \in DOMAIN c.sources /\ DOMAIN old = ProfileNames(c)
      /\ \A n \in ProfileNames(c) : DOMAIN old[n] = SourceFields
  BY DEF SourcesShaped
<1>2. e = [c.sources EXCEPT !.profiles = [n \in DOMAIN old |-> New(n)]]
  BY DEF WithEvidence
<1>3. "profiles" \in DOMAIN e /\ e.profiles = [n \in DOMAIN old |-> New(n)]
  <2>. HIDE DEF New, e
  <2>. QED
    BY <1>1, <1>2
<1>. HIDE DEF e
<1>4. ASSUME NEW n \in ProfileNames(c)
      PROVE  /\ DOMAIN New(n) = SourceFields
             /\ \A x \in SourceFields \ {"reliability"} : New(n)[x] = old[n][x]
             /\ New(n).reliability = "default" => old[n].reliability = "default" /\ ~Uses(n)
  <2>1. "reliability" \in DOMAIN old[n]
    BY <1>1 DEF SourceFields
  <2>. HIDE DEF Uses, old
  <2>. QED
    BY <1>1, <2>1
<1>5. DOMAIN e.profiles = ProfileNames(c) /\ \A n \in ProfileNames(c) : e.profiles[n] = New(n)
  BY <1>1, <1>3
<1>. HIDE DEF New
<1>6. \A n \in ProfileNames(c) :
              /\ DOMAIN e.profiles[n] = SourceFields
              /\ \A x \in SourceFields \ {"reliability"} : e.profiles[n][x] = old[n][x]
              /\ e.profiles[n].reliability = "default" => old[n].reliability = "default" /\ ~Uses(n)
  BY <1>4, <1>5
<1>. QED
  BY <1>3, <1>5, <1>6 DEF e

\* An analysis with evidence credits it, and nothing else.
LEMMA EvidenceCredited ==
  ASSUME NEW c, DOMAIN c = Fields, NEW m, NEW d, d = [c EXCEPT !.sources = WithEvidence(c, m)],
         SourcesShaped(c)
  PROVE  /\ \A a : Fulfils(c, a) => Fulfils(d, a)
         /\ Untouched(d, m) /\ \A o : Untouched(c, o) => Untouched(d, o)
<1>. DEFINE e == WithEvidence(c, m)
<1>1. /\ "profiles" \in DOMAIN e /\ DOMAIN e.profiles = ProfileNames(c)
      /\ \A n \in ProfileNames(c) :
              /\ DOMAIN e.profiles[n] = SourceFields
              /\ \A x \in SourceFields \ {"reliability"} : e.profiles[n][x] = c.sources.profiles[n][x]
              /\ e.profiles[n].reliability = "default" =>
                   /\ c.sources.profiles[n].reliability = "default"
                   /\ \A p \in Range(c.profiles) :
                        p.name = n => ~UsesEvidence(reliabilityFromArtifact(m), p.reliability)
  BY EvidenceOfSources
<1>. HIDE DEF e
<1>2. d.sources = e /\ d.profiles = c.profiles /\ d.weights = c.weights
  BY DEF e, Fields
<1>3. ProfileNames(d) = ProfileNames(c)
  BY <1>2 DEF ProfileNames
<1>4. SourcesShaped(d)
  BY <1>1, <1>2, <1>3 DEF SourcesShaped
<1>5. \A p \in Range(c.profiles) : p.name \in ProfileNames(c)
  BY DEF ProfileNames
<1>6. Untouched(d, m) /\ \A o : Untouched(c, o) => Untouched(d, o)
  BY <1>1, <1>2, <1>5 DEF Untouched
<1>7. ASSUME NEW a, Fulfils(c, a) PROVE Fulfils(d, a)
  <2>1. Granted(c, a) /\ Credited(c, a)
    BY <1>7 DEF Fulfils
  <2>2. Granted(d, a)
    BY <1>2, <2>1 DEF Granted
  <2>3. ASSUME NEW i \in DOMAIN a.profiles
        PROVE  CreditedProfile(a, a.profiles[i], d.profiles[i], d.sources.profiles[a.profiles[i].name])
    <3>. DEFINE own == a.profiles[i]
                q == c.profiles[i]
                s == c.sources.profiles[own.name]
                t == e.profiles[own.name]
    <3>1. CreditedProfile(a, own, q, s)
      BY <2>1 DEF Credited
    <3>2. i \in DOMAIN c.profiles /\ q.name = own.name
      BY <2>1 DEF Granted, GrantedProfile
    <3>3. own.name \in ProfileNames(c)
      BY <1>5, <3>2 DEF Range
    <3>4. /\ t.fixedK = s.fixedK /\ t.failure = s.failure /\ t.weights = s.weights
          /\ t.reliability = "default" => s.reliability = "default"
      BY <1>1, <3>3 DEF SourceFields
    <3>. HIDE DEF own, q, s, t
    <3>5. CreditedProfile(a, own, q, t)
      BY <3>1, <3>4 DEF CreditedProfile
    <3>. QED
      BY <1>2, <3>5 DEF own, q, t
  <2>4. Credited(d, a)
    BY <2>3 DEF Credited
  <2>. QED
    BY <1>4, <2>2, <2>4 DEF Fulfils
<1>. QED
  BY <1>6, <1>7

-----------------------------------------------------------------------------
(* The parameters along the steps of a command.                            *)

\* A step that leaves the command, its configuration and its artifact alone.
LEMMA ParametersKept ==
  ASSUME ParameterInv, ConfiguredInv', plan' = plan, config' = config, loaded' = loaded,
         stage' # "load", stage' \in HasLoaded => stage \in HasLoaded,
         stage' \in HasBaselines => stage \in HasBaselines
  PROVE  ParameterInv'
<1>1. Asked' = Asked
  BY DEF Asked, job
<1>2. AskedInv'
  BY <1>1 DEF ParameterInv, AskedInv
<1>3. EvidenceInv'
  BY DEF ParameterInv, EvidenceInv
<1>. QED
  BY <1>2, <1>3 DEF ParameterInv

LEMMA ElsewhereNothingAsked ==
  ASSUME ConfiguredInv', stage' \in {"done", "end", "start", "serving"}
  PROVE  ParameterInv'
BY DEF ParameterInv, AskedInv, EvidenceInv, HasLoaded, HasBaselines, Configured

LEMMA ConfigureGrants ==
  ASSUME ParameterInv, Configure, ConfiguredInv'
  PROVE  ParameterInv'
<1>. DEFINE c == loadExecutionConfig(job)
<1>1. stage = "config"
  BY DEF Configure
<1>2. CASE c = Nil
  BY <1>2, ElsewhereNothingAsked DEF Configure, Exits
<1>3. CASE c # Nil
  <2>1. config' = c /\ stage' = "load" /\ plan' = plan
    BY <1>3 DEF Configure, Continues
  <2>2. Fulfils(c, AskedBy(job)) /\ Numbers(AskedBy(job))
    <3>1. \A a \in AnalysesOf(job) : IsAnalysis(a)
      BY <1>1, JobFits DEF ParameterInv, ConfiguredInv
    <3>2. FileConfig(job) # Nil
      BY <1>3 DEF loadExecutionConfig
    <3>. QED
      BY <1>3, <3>1, <3>2, ExecutionFulfils, NumbersAsked
  <2>. HIDE DEF c
  <2>3. Asked' = AskedBy(job)
    BY <2>1 DEF Asked, job
  <2>4. AskedInv'
    BY <2>1, <2>2, <2>3 DEF AskedInv
  <2>5. EvidenceInv'
    BY <2>1 DEF EvidenceInv, HasBaselines, HasLoaded
  <2>. QED
    BY <2>4, <2>5 DEF ParameterInv
<1>. QED
  BY <1>2, <1>3

LEMMA LoadArtifactGrants ==
  ASSUME ParameterInv, LoadArtifact, ConfiguredInv'
  PROVE  ParameterInv'
<1>1. CASE loaded' = Nil
  BY <1>1, ElsewhereNothingAsked DEF LoadArtifact, Exits
<1>2. CASE loaded' # Nil
  <2>1. stage = "load" /\ stage' = "analyze" /\ plan' = plan /\ config' = config
    BY <1>2 DEF LoadArtifact, Continues
  <2>2. Asked' = Asked
    BY <2>1 DEF Asked, job
  <2>3. AskedInv'
    BY <2>1, <2>2 DEF ParameterInv, AskedInv
  <2>4. EvidenceInv'
    BY <2>1 DEF EvidenceInv, HasBaselines
  <2>. QED
    BY <2>3, <2>4 DEF ParameterInv
<1>. QED
  BY <1>1, <1>2

LEMMA OverlayWeights ==
  ASSUME NEW c, NEW m, ValidSideFiles(c, m)
  PROVE  ValidWeights(Overlay(c).weights)
<1>1. CASE c.predicates # Nil
  BY <1>1 DEF ValidSideFiles, ValidOverlay, Overlay, Or
<1>2. CASE c.predicates = Nil
  <2>1. Overlay(c).weights = << >>
    BY <1>2 DEF Overlay, Or, NoOverlay
  <2>2. ValidWeights(<< >>)
    BY DEF ValidWeights
  <2>. QED
    BY <2>1, <2>2
<1>. QED
  BY <1>1, <1>2

LEMMA AnalyzeGrants ==
  ASSUME ParameterInv, Analyze, ConfiguredInv'
  PROVE  ParameterInv'
<1>1. stage = "analyze" /\ loaded' = loaded /\ stage \in HasLoaded /\ stage \in Configured
  BY DEF Analyze, HasLoaded, Configured
<1>2. CASE ~Analyzes(loaded, config)
  BY <1>2, ElsewhereNothingAsked DEF Analyze, Exits
<1>3. CASE Analyzes(loaded, config)
  <2>. DEFINE e == WithEvidence(config, loaded.model)
  <2>1. /\ config' = [config EXCEPT !.sources = e]
        /\ stage' = "baselines" /\ plan' = plan /\ Asked' = Asked
    BY <1>3 DEF Analyze, Continues, Asked, job
  <2>2. Fulfils(config, Asked) /\ Numbers(Asked) /\ DOMAIN config = Fields
    BY <1>1 DEF ParameterInv, AskedInv, ConfiguredInv, ConfigInv, Steady, Shaped
  <2>3. SourcesShaped(config)
    BY <2>2 DEF Fulfils
  <2>4. Fulfils(config', Asked) /\ Untouched(config', loaded.model)
    BY <2>1, <2>2, <2>3, EvidenceCredited
  <2>5. ValidWeights(Overlay(config).weights)
    BY <1>3, OverlayWeights DEF Analyzes
  <2>. HIDE DEF e
  <2>6. config'.predicates = config.predicates
    BY <2>1, <2>2 DEF Fields
  <2>7. Overlay(config') = Overlay(config)
    BY <2>6 DEF Overlay
  <2>8. AskedInv'
    BY <2>1, <2>2, <2>4 DEF AskedInv
  <2>9. EvidenceInv'
    <3>1. Untouched(config', loaded'.model) /\ ValidWeights(Overlay(config').weights)
      BY <1>1, <2>4, <2>5, <2>7
    <3>. QED
      BY <3>1 DEF EvidenceInv
  <2>. QED
    BY <2>8, <2>9 DEF ParameterInv
<1>. QED
  BY <1>2, <1>3

LEMMA LoadBaselineGrants ==
  ASSUME ParameterInv, LoadBaseline, ConfiguredInv'
  PROVE  ParameterInv'
<1>. DEFINE content == Content(Head(refs).path)
            m == Load(content.file).model
<1>1. stage = "baselines" /\ stage \in HasBaselines /\ stage \in HasLoaded /\ stage \in Configured
  BY DEF LoadBaseline, HasBaselines, HasLoaded, Configured
<1>2. CASE BaselineSweeps(content) = Nil
  BY <1>2, ElsewhereNothingAsked DEF LoadBaseline, Exits
<1>3. CASE BaselineSweeps(content) # Nil
  <2>1. /\ config' = [config EXCEPT !.sources = SourcesAfter(content)]
        /\ stage' = "baselines" /\ plan' = plan /\ loaded' = loaded /\ Asked' = Asked
    BY <1>3 DEF LoadBaseline, Continues, Asked, job
  <2>2. Fulfils(config, Asked) /\ Numbers(Asked) /\ DOMAIN config = Fields
    BY <1>1 DEF ParameterInv, AskedInv, ConfiguredInv, ConfigInv, Steady, Shaped
  <2>3. SourcesShaped(config)
    BY <2>2 DEF Fulfils
  <2>4. Untouched(config, loaded.model) /\ ValidWeights(Overlay(config).weights)
    BY <1>1 DEF ParameterInv, EvidenceInv
  <2>. HIDE DEF content
  <2>5. ASSUME content.kind = "artifact" PROVE Fulfils(config', Asked) /\ Untouched(config', loaded.model)
    <3>1. config' = [config EXCEPT !.sources = WithEvidence(config, m)]
      BY <2>1, <2>5 DEF SourcesAfter
    <3>. HIDE DEF m
    <3>. QED
      BY <2>2, <2>3, <2>4, <3>1, EvidenceCredited
  <2>6. ASSUME content.kind # "artifact" PROVE Fulfils(config', Asked) /\ Untouched(config', loaded.model)
    <3>1. config' = [config EXCEPT !.sources = config.sources]
      BY <2>1, <2>6 DEF SourcesAfter
    <3>2. config'.profiles = config.profiles /\ config'.weights = config.weights /\ config'.sources = config.sources
      BY <2>2, <3>1 DEF Fields
    <3>3. Fulfils(config', Asked)
      BY <2>2, <2>3, <3>2, FulfilsKept DEF SourcesShaped
    <3>4. Untouched(config', loaded.model)
      BY <2>4, <3>2 DEF Untouched
    <3>. QED
      BY <3>3, <3>4
  <2>7. Fulfils(config', Asked) /\ Untouched(config', loaded.model)
    BY <2>5, <2>6
  <2>8. Overlay(config') = Overlay(config)
    BY <2>1, <2>2 DEF Overlay, Fields
  <2>9. AskedInv'
    BY <2>1, <2>2, <2>7 DEF AskedInv
  <2>10. EvidenceInv'
    <3>1. Untouched(config', loaded'.model) /\ ValidWeights(Overlay(config').weights)
      BY <2>1, <2>4, <2>7, <2>8
    <3>. QED
      BY <3>1 DEF EvidenceInv
  <2>. QED
    BY <2>9, <2>10 DEF ParameterInv
<1>. QED
  BY <1>2, <1>3

LEMMA StepsKeepParameters == ParameterInv /\ [Next]_vars => ParameterInv'
<1>. SUFFICES ASSUME ParameterInv, [Next]_vars PROVE ParameterInv'
  OBVIOUS
<1>0. ConfiguredInv'
  BY StepsKeepConfigured DEF ParameterInv
<1>1. CASE Passing
  <2>1. KindInv
    BY DEF ParameterInv, ConfiguredInv
  <2>2. /\ UNCHANGED <<plan, locals>> /\ stage' # "load"
        /\ stage' \in HasLoaded => stage \in HasLoaded
        /\ stage' \in HasBaselines => stage \in HasBaselines
    BY <1>1, <2>1, PassingLeaves
  <2>. QED
    BY <1>0, <2>2, ParametersKept DEF locals
<1>2. CASE Configure
  BY <1>0, <1>2, ConfigureGrants
<1>3. CASE LoadArtifact
  BY <1>0, <1>3, LoadArtifactGrants
<1>4. CASE Analyze
  BY <1>0, <1>4, AnalyzeGrants
<1>5. CASE LoadBaseline
  BY <1>0, <1>5, LoadBaselineGrants
<1>6. CASE EvaluateGate
  <2>1. /\ stage = "baselines" /\ stage' \in {"model", "mkdir"} /\ plan' = plan
        /\ config' = config /\ loaded' = loaded
    BY <1>6 DEF EvaluateGate, Continues
  <2>2. stage \in HasLoaded /\ stage \in HasBaselines
    BY <2>1 DEF HasBaselines, HasLoaded, Configured
  <2>. QED
    BY <1>0, <2>1, <2>2, ParametersKept
<1>7. CASE Serve
  <2>1. stage' \in {"done", "serving"}
    BY <1>7 DEF Serve, Exits, Continues
  <2>. QED
    BY <1>0, <2>1, ElsewhereNothingAsked
<1>8. CASE NextCommand
  <2>1. stage' \in {"end", "start"}
    BY <1>8 DEF NextCommand
  <2>. QED
    BY <1>0, <2>1, ElsewhereNothingAsked
<1>9. CASE UNCHANGED vars
  BY <1>0, <1>9 DEF vars, locals, ParameterInv, AskedInv, EvidenceInv, Asked, job
<1>. QED
  BY <1>1, <1>2, <1>3, <1>4, <1>5, <1>6, <1>7, <1>8, <1>9 DEF Next, Passing

LEMMA ParametersAtFirst == Init => ParameterInv
<1>1. Init => stage = "start"
  BY DEF Init
<1>. QED
  BY <1>1, ConfiguredAtFirst DEF ParameterInv, AskedInv, EvidenceInv, HasLoaded, HasBaselines, Configured

\* From loading to the end of a run the configuration gives every profile what
\* the user's file asked for it, under the file's sources and those of the
\* evidence that an analysis has used.
THEOREM ParameterInvariant == Spec => []ParameterInv
<1>. QED
  BY ParametersAtFirst, StepsKeepParameters, PTL DEF Spec

-----------------------------------------------------------------------------
(* The layers of a parameter.                                              *)

LEMMA FirstIs ==
  ASSUME NEW n \in Nat, NEW c, DOMAIN c = 1 .. n, NEW i \in 1 .. n, c[i] # Nil, \A k \in 1 .. i - 1 : c[k] = Nil
  PROVE  FirstOf(c) = c[i]
<1>. DEFINE First(j) == c[j] # Nil /\ \A k \in 1 .. j - 1 : c[k] = Nil
            f == CHOOSE j \in DOMAIN c : First(j)
<1>1. f \in 1 .. n /\ First(f)
  BY DEF First
<1>2. FirstOf(c) = c[f]
  BY DEF FirstOf
<1>. HIDE DEF f
<1>3. ~(f < i) /\ ~(i < f)
  BY <1>1
<1>4. f = i
  BY <1>1, <1>3
<1>. QED
  BY <1>2, <1>4

LEMMA FirstOfTwo ==
  ASSUME NEW a, NEW b, b # Nil
  PROVE  FirstOf(<<a, b>>) = Or(a, Nil, b)
<1>. DEFINE c == <<a, b>>
<1>1. DOMAIN c = 1 .. 2 /\ c[1] = a /\ c[2] = b
  OBVIOUS
<1>. HIDE DEF c
<1>2. ASSUME a # Nil PROVE FirstOf(c) = a
  <2>1. 1 \in 1 .. 2 /\ c[1] # Nil /\ \A k \in 1 .. 1 - 1 : c[k] = Nil
    BY <1>1, <1>2
  <2>. QED
    BY <1>1, <2>1, FirstIs
<1>3. ASSUME a = Nil PROVE FirstOf(c) = b
  <2>1. 2 \in 1 .. 2 /\ c[2] # Nil /\ \A k \in 1 .. 2 - 1 : c[k] = Nil
    BY <1>1, <1>3
  <2>. QED
    BY <1>1, <2>1, FirstIs
<1>. QED
  BY <1>2, <1>3 DEF Or, c

LEMMA FirstOfThree ==
  ASSUME NEW a, NEW b, NEW d, d # Nil
  PROVE  FirstOf(<<a, b, d>>) = Or(a, Nil, Or(b, Nil, d))
<1>. DEFINE c == <<a, b, d>>
<1>1. DOMAIN c = 1 .. 3 /\ c[1] = a /\ c[2] = b /\ c[3] = d
  OBVIOUS
<1>. HIDE DEF c
<1>2. ASSUME a # Nil PROVE FirstOf(c) = a
  <2>1. 1 \in 1 .. 3 /\ c[1] # Nil /\ \A k \in 1 .. 1 - 1 : c[k] = Nil
    BY <1>1, <1>2
  <2>. QED
    BY <1>1, <2>1, FirstIs
<1>3. ASSUME a = Nil, b # Nil PROVE FirstOf(c) = b
  <2>1. 2 \in 1 .. 3 /\ c[2] # Nil /\ \A k \in 1 .. 2 - 1 : c[k] = Nil
    BY <1>1, <1>3
  <2>. QED
    BY <1>1, <2>1, FirstIs
<1>4. ASSUME a = Nil, b = Nil PROVE FirstOf(c) = d
  <2>1. 3 \in 1 .. 3 /\ c[3] # Nil /\ \A k \in 1 .. 3 - 1 : c[k] = Nil
    BY <1>1, <1>4
  <2>. QED
    BY <1>1, <2>1, FirstIs
<1>. QED
  BY <1>2, <1>3, <1>4 DEF Or, c

LEMMA FirstOfFive ==
  ASSUME NEW c, DOMAIN c = 1 .. 5, c[5] # Nil
  PROVE  /\ c[1] # Nil => FirstOf(c) = c[1]
         /\ c[1] = Nil /\ c[2] # Nil => FirstOf(c) = c[2]
         /\ c[1] = Nil /\ c[2] = Nil /\ c[3] # Nil => FirstOf(c) = c[3]
         /\ c[1] = Nil /\ c[2] = Nil /\ c[3] = Nil /\ c[4] # Nil => FirstOf(c) = c[4]
         /\ c[1] = Nil /\ c[2] = Nil /\ c[3] = Nil /\ c[4] = Nil => FirstOf(c) = c[5]
<1>1. ASSUME c[1] # Nil PROVE FirstOf(c) = c[1]
  <2>1. 1 \in 1 .. 5 /\ c[1] # Nil /\ \A k \in 1 .. 1 - 1 : c[k] = Nil
    BY <1>1
  <2>. QED
    BY <2>1, FirstIs
<1>2. ASSUME c[1] = Nil, c[2] # Nil PROVE FirstOf(c) = c[2]
  <2>1. 2 \in 1 .. 5 /\ c[2] # Nil /\ \A k \in 1 .. 2 - 1 : c[k] = Nil
    BY <1>2
  <2>. QED
    BY <2>1, FirstIs
<1>3. ASSUME c[1] = Nil, c[2] = Nil, c[3] # Nil PROVE FirstOf(c) = c[3]
  <2>1. 3 \in 1 .. 5 /\ c[3] # Nil /\ \A k \in 1 .. 3 - 1 : c[k] = Nil
    BY <1>3
  <2>. QED
    BY <2>1, FirstIs
<1>4. ASSUME c[1] = Nil, c[2] = Nil, c[3] = Nil, c[4] # Nil PROVE FirstOf(c) = c[4]
  <2>1. 4 \in 1 .. 5 /\ c[4] # Nil /\ \A k \in 1 .. 4 - 1 : c[k] = Nil
    BY <1>4
  <2>. QED
    BY <2>1, FirstIs
<1>5. ASSUME c[1] = Nil, c[2] = Nil, c[3] = Nil, c[4] = Nil PROVE FirstOf(c) = c[5]
  <2>1. 5 \in 1 .. 5 /\ c[5] # Nil /\ \A k \in 1 .. 5 - 1 : c[k] = Nil
    BY <1>5
  <2>. QED
    BY <2>1, FirstIs
<1>. QED
  BY <1>1, <1>2, <1>3, <1>4, <1>5

LEMMA FirstOfSix ==
  ASSUME NEW c, DOMAIN c = 1 .. 6, c[6] # Nil
  PROVE  /\ c[1] # Nil => FirstOf(c) = c[1]
         /\ c[1] = Nil /\ c[2] # Nil => FirstOf(c) = c[2]
         /\ c[1] = Nil /\ c[2] = Nil /\ c[3] # Nil => FirstOf(c) = c[3]
         /\ c[1] = Nil /\ c[2] = Nil /\ c[3] = Nil /\ c[4] # Nil => FirstOf(c) = c[4]
         /\ c[1] = Nil /\ c[2] = Nil /\ c[3] = Nil /\ c[4] = Nil /\ c[5] # Nil => FirstOf(c) = c[5]
         /\ c[1] = Nil /\ c[2] = Nil /\ c[3] = Nil /\ c[4] = Nil /\ c[5] = Nil => FirstOf(c) = c[6]
<1>1. ASSUME c[1] # Nil PROVE FirstOf(c) = c[1]
  <2>1. 1 \in 1 .. 6 /\ c[1] # Nil /\ \A k \in 1 .. 1 - 1 : c[k] = Nil
    BY <1>1
  <2>. QED
    BY <2>1, FirstIs
<1>2. ASSUME c[1] = Nil, c[2] # Nil PROVE FirstOf(c) = c[2]
  <2>1. 2 \in 1 .. 6 /\ c[2] # Nil /\ \A k \in 1 .. 2 - 1 : c[k] = Nil
    BY <1>2
  <2>. QED
    BY <2>1, FirstIs
<1>3. ASSUME c[1] = Nil, c[2] = Nil, c[3] # Nil PROVE FirstOf(c) = c[3]
  <2>1. 3 \in 1 .. 6 /\ c[3] # Nil /\ \A k \in 1 .. 3 - 1 : c[k] = Nil
    BY <1>3
  <2>. QED
    BY <2>1, FirstIs
<1>4. ASSUME c[1] = Nil, c[2] = Nil, c[3] = Nil, c[4] # Nil PROVE FirstOf(c) = c[4]
  <2>1. 4 \in 1 .. 6 /\ c[4] # Nil /\ \A k \in 1 .. 4 - 1 : c[k] = Nil
    BY <1>4
  <2>. QED
    BY <2>1, FirstIs
<1>5. ASSUME c[1] = Nil, c[2] = Nil, c[3] = Nil, c[4] = Nil, c[5] # Nil PROVE FirstOf(c) = c[5]
  <2>1. 5 \in 1 .. 6 /\ c[5] # Nil /\ \A k \in 1 .. 5 - 1 : c[k] = Nil
    BY <1>5
  <2>. QED
    BY <2>1, FirstIs
<1>6. ASSUME c[1] = Nil, c[2] = Nil, c[3] = Nil, c[4] = Nil, c[5] = Nil PROVE FirstOf(c) = c[6]
  <2>1. 6 \in 1 .. 6 /\ c[6] # Nil /\ \A k \in 1 .. 6 - 1 : c[k] = Nil
    BY <1>6
  <2>. QED
    BY <2>1, FirstIs
<1>. QED
  BY <1>1, <1>2, <1>3, <1>4, <1>5, <1>6

LEMMA Layers ==
  ASSUME NEW entry, NEW inherited, NEW node, NEW parent, NEW live, NEW last, last # Nil
  PROVE  FirstOf(<<entry, inherited, node, parent, live, last>>) =
           Or(entry, Nil, Or(inherited, Nil, Or(node, Nil, Or(parent, Nil, Or(live, Nil, last)))))
<1>. DEFINE c == <<entry, inherited, node, parent, live, last>>
<1>1. /\ DOMAIN c = 1 .. 6 /\ c[1] = entry /\ c[2] = inherited
      /\ c[3] = node /\ c[4] = parent /\ c[5] = live /\ c[6] = last
  OBVIOUS
<1>. HIDE DEF c
<1>2. /\ entry # Nil => FirstOf(c) = entry
      /\ entry = Nil /\ inherited # Nil => FirstOf(c) = inherited
      /\ entry = Nil /\ inherited = Nil /\ node # Nil => FirstOf(c) = node
      /\ entry = Nil /\ inherited = Nil /\ node = Nil /\ parent # Nil => FirstOf(c) = parent
      /\ entry = Nil /\ inherited = Nil /\ node = Nil /\ parent = Nil /\ live # Nil => FirstOf(c) = live
      /\ entry = Nil /\ inherited = Nil /\ node = Nil /\ parent = Nil /\ live = Nil => FirstOf(c) = last
  BY <1>1, FirstOfSix
<1>3. FirstOf(c) = Or(entry, Nil, Or(inherited, Nil, Or(node, Nil, Or(parent, Nil, Or(live, Nil, last)))))
  BY <1>2 DEF Or
<1>. QED
  BY <1>3 DEF c

\* The evidence of an artifact about its services, or about its edges.
Live(items) == {x \in items : x.live # Nil /\ x.id # ""}
LiveOf(items) == [id \in {x.id : x \in Live(items)} |-> (CHOOSE x \in Live(items) : x.id = id).live]

LEMMA EvidenceIs ==
  ASSUME NEW m
  PROVE  /\ reliabilityFromArtifact(m).services = LiveOf(m.services)
         /\ reliabilityFromArtifact(m).edges = LiveOf(m.edges)
<1>. DEFINE S == LiveOf(m.services)
            E == LiveOf(m.edges)
<1>1. reliabilityFromArtifact(m) = [NoReliability EXCEPT !.services = S, !.edges = E]
  BY DEF reliabilityFromArtifact, LiveOf, Live
<1>. HIDE DEF S, E
<1>2. reliabilityFromArtifact(m).services = S /\ reliabilityFromArtifact(m).edges = E
  BY <1>1 DEF NoReliability
<1>. QED
  BY <1>2 DEF S, E

LEMMA LiveIs ==
  ASSUME NEW items, NEW id, id # ""
  PROVE  /\ id \in DOMAIN LiveOf(items) => LiveOf(items)[id] # Nil /\ LiveOf(items)[id] \in EvidenceOf(items, id)
         /\ id \notin DOMAIN LiveOf(items) => Nil \in EvidenceOf(items, id)
         /\ \E live : live \in EvidenceOf(items, id)
<1>. DEFINE Of == {y \in items : y.id = id /\ y.live # Nil}
            Values == {x.live : x \in Of}
<1>1. EvidenceOf(items, id) = IF Values = {} THEN {Nil} ELSE Values
  BY DEF EvidenceOf
<1>2. ASSUME id \in DOMAIN LiveOf(items)
      PROVE  LiveOf(items)[id] # Nil /\ LiveOf(items)[id] \in EvidenceOf(items, id)
  <2>. DEFINE x == CHOOSE y \in Live(items) : y.id = id
  <2>1. \E y \in Live(items) : y.id = id
    BY <1>2 DEF LiveOf
  <2>2. x \in Live(items) /\ x.id = id
    BY <2>1
  <2>3. LiveOf(items)[id] = x.live
    BY <1>2 DEF LiveOf
  <2>. HIDE DEF x
  <2>4. x \in Of
    BY <2>2 DEF Live
  <2>5. x.live \in Values
    BY <2>4
  <2>. QED
    BY <1>1, <2>2, <2>3, <2>5 DEF Live
<1>3. ASSUME id \notin DOMAIN LiveOf(items) PROVE Nil \in EvidenceOf(items, id)
  <2>1. ~\E y \in Live(items) : y.id = id
    BY <1>3 DEF LiveOf
  <2>2. Of = {}
    BY <2>1 DEF Live
  <2>. QED
    BY <1>1, <2>2
<1>. QED
  BY <1>2, <1>3

\* The first of the layers that says something of a component.
Layered(f, g, id, node, parent, live, last) ==
  FirstOf(<<Entry(f, id), Entry(g, id), node, parent, live, last>>)

LEMMA LayeredIs ==
  ASSUME NEW f, NEW g, NEW id, NEW node, NEW parent, NEW live, NEW last, last # Nil
  PROVE  Layered(f, g, id, node, parent, live, last) =
           Or(Entry(f, id), Nil, Or(Entry(g, id), Nil, Or(node, Nil, Or(parent, Nil, Or(live, Nil, last)))))
BY Layers DEF Layered

\* What there is of evidence about a component speaks for it.
Speaks(items, id) ==
  /\ id \in DOMAIN LiveOf(items) => LiveOf(items)[id] # Nil /\ LiveOf(items)[id] \in EvidenceOf(items, id)
  /\ id \notin DOMAIN LiveOf(items) => Nil \in EvidenceOf(items, id)
  /\ \E live : live \in EvidenceOf(items, id)

LEMMA EvidenceSpeaks ==
  ASSUME NEW items, NEW id, id # ""
  PROVE  Speaks(items, id)
BY LiveIs DEF Speaks

LEMMA SharesAre ==
  ASSUME NEW f, ValidShares(f)
  PROVE  \A x \in DOMAIN f : f[x] # Nil
<1>1. \A x \in DOMAIN f : InUnit(f[x])
  BY DEF ValidShares
<1>2. \A v : InUnit(v) => v # Nil
  BY NilAssumption DEF InUnit, Percent
<1>. QED
  BY <1>1, <1>2

\* The entries of a profile f and of its analysis g, with the evidence unless
\* there is a general probability.
Layering(items, id, f, g, node, parent, last, entries) ==
  /\ Speaks(items, id) /\ last # Nil
  /\ \A x \in DOMAIN Over(f, g) : Over(f, g)[x] # Nil
  /\ entries = IF Or(node, Nil, parent) = Nil THEN Over(Over(f, g), LiveOf(items)) ELSE Over(f, g)

Spoken(items, id, f, g, node, parent, last, entries) ==
  \E live \in EvidenceOf(items, id) :
    (IF id \in DOMAIN entries THEN entries[id] ELSE Or(Or(node, Nil, parent), Nil, last))
      = Layered(f, g, id, node, parent, live, last)

LEMMA LayersAre ==
  ASSUME NEW items, NEW id, NEW f, NEW g, NEW node, NEW parent, NEW last, NEW entries,
         Layering(items, id, f, g, node, parent, last, entries)
  PROVE  Spoken(items, id, f, g, node, parent, last, entries)
<1>. DEFINE h == Over(f, g)
            value == IF id \in DOMAIN entries THEN entries[id] ELSE Or(Or(node, Nil, parent), Nil, last)
            e == LiveOf(items)
            said == EvidenceOf(items, id)
            Choice(live) == Layered(f, g, id, node, parent, live, last)
<1>1. /\ DOMAIN h = DOMAIN f \cup DOMAIN g
      /\ id \in DOMAIN f => h[id] = f[id]
      /\ id \notin DOMAIN f /\ id \in DOMAIN g => h[id] = g[id]
  BY DEF Over
<1>2. (id \in DOMAIN h => h[id] # Nil) /\ last # Nil
  BY DEF Layering
<1>3. /\ DOMAIN Over(h, e) = DOMAIN h \cup DOMAIN e
      /\ id \in DOMAIN h => Over(h, e)[id] = h[id]
      /\ id \notin DOMAIN h /\ id \in DOMAIN e => Over(h, e)[id] = e[id]
  BY DEF Over
<1>4. \A live : Choice(live) =
        Or(Entry(f, id), Nil, Or(Entry(g, id), Nil, Or(node, Nil, Or(parent, Nil, Or(live, Nil, last)))))
  BY <1>2, LayeredIs
<1>5. /\ id \in DOMAIN e => e[id] # Nil /\ e[id] \in said
      /\ id \notin DOMAIN e => Nil \in said
      /\ \E live : live \in said
  BY DEF Layering, Speaks
<1>6. entries = IF Or(node, Nil, parent) = Nil THEN Over(h, e) ELSE h
  BY DEF Layering
<1>7. /\ id \in DOMAIN f => Entry(f, id) = f[id]
      /\ id \notin DOMAIN f => Entry(f, id) = Nil
      /\ id \in DOMAIN g => Entry(g, id) = g[id]
      /\ id \notin DOMAIN g => Entry(g, id) = Nil
  BY DEF Entry
<1>. HIDE DEF h, e, said, Choice
<1>8. ASSUME id \in DOMAIN h PROVE \E live \in said : value = Choice(live)
  <2>1. value = h[id]
    BY <1>3, <1>6, <1>8
  <2>2. \A live : Choice(live) = h[id]
    BY <1>1, <1>2, <1>4, <1>7, <1>8 DEF Or
  <2>. QED
    BY <1>5, <2>1, <2>2
<1>9. ASSUME id \notin DOMAIN h, Or(node, Nil, parent) # Nil
      PROVE  \E live \in said : value = Choice(live)
  <2>1. value = Or(node, Nil, parent)
    BY <1>6, <1>9 DEF Or
  <2>2. \A live : Choice(live) = Or(node, Nil, parent)
    BY <1>1, <1>4, <1>7, <1>9 DEF Or
  <2>. QED
    BY <1>5, <2>1, <2>2
<1>10. ASSUME id \notin DOMAIN h, Or(node, Nil, parent) = Nil
       PROVE  \E live \in said : value = Choice(live)
  <2>1. node = Nil /\ parent = Nil /\ Entry(f, id) = Nil /\ Entry(g, id) = Nil
    BY <1>1, <1>7, <1>10 DEF Or
  <2>2. entries = Over(h, e)
    BY <1>6, <1>10
  <2>3. CASE id \in DOMAIN e
    <3>1. value = e[id]
      BY <1>3, <1>10, <2>2, <2>3
    <3>2. Choice(e[id]) = e[id]
      BY <1>4, <1>5, <2>1, <2>3 DEF Or
    <3>. QED
      BY <1>5, <2>3, <3>1, <3>2
  <2>4. CASE id \notin DOMAIN e
    <3>1. value = last
      BY <1>3, <1>10, <2>2, <2>4 DEF Or
    <3>2. Choice(Nil) = last
      BY <1>4, <2>1 DEF Or
    <3>. QED
      BY <1>5, <2>4, <3>1, <3>2
  <2>. QED
    BY <2>3, <2>4
<1>11. \E live \in said : value = Choice(live)
  BY <1>8, <1>9, <1>10
<1>. QED
  BY <1>11 DEF Spoken, Choice, said

LEMMA NumbersAre ==
  ASSUME NEW x \in Int, NEW y \in Int
  PROVE  /\ Positive(x, Positive(y, DefaultTrials)) = FirstOf(<<AboveZero(x), AboveZero(y), DefaultTrials>>)
         /\ Or(x, 0, Or(y, 0, 5)) = FirstOf(<<NonZero(x), NonZero(y), 5>>)
         /\ Or(x, 0, y) = FirstOf(<<NonZero(x), y>>)
<1>1. x # Nil /\ y # Nil /\ DefaultTrials # Nil /\ 5 # Nil
  BY NilAssumption DEF DefaultTrials
<1>2. FirstOf(<<AboveZero(x), AboveZero(y), DefaultTrials>>) = Or(AboveZero(x), Nil, Or(AboveZero(y), Nil, DefaultTrials))
  BY <1>1, FirstOfThree
<1>3. FirstOf(<<NonZero(x), NonZero(y), 5>>) = Or(NonZero(x), Nil, Or(NonZero(y), Nil, 5))
  BY <1>1, FirstOfThree
<1>4. FirstOf(<<NonZero(x), y>>) = Or(NonZero(x), Nil, y)
  BY <1>1, FirstOfTwo
<1>5. Positive(x, Positive(y, DefaultTrials)) = Or(AboveZero(x), Nil, Or(AboveZero(y), Nil, DefaultTrials))
  BY <1>1 DEF Positive, AboveZero, Or
<1>6. /\ Or(x, 0, Or(y, 0, 5)) = Or(NonZero(x), Nil, Or(NonZero(y), Nil, 5))
      /\ Or(x, 0, y) = Or(NonZero(x), Nil, y)
  BY <1>1 DEF NonZero, Or
<1>. QED
  BY <1>2, <1>3, <1>4, <1>5, <1>6

\* What is simulated of a service and of an edge: an entry, a general
\* probability, the evidence, the last resort.
LEMMA ReliabilityIs ==
  ASSUME NEW m, NEW parent, NEW own,
         NEW r, r = normalizeProfileReliability(parent, own), validateReliability(r),
         NEW merged, merged = mergeArtifactReliability(reliabilityFromArtifact(m), r),
         NEW id, NEW last, last # Nil
  PROVE  /\ merged.node = Or(own.node, Nil, parent.node) /\ merged.edge = Or(own.edge, Nil, parent.edge)
         /\ Speaks(m.services, id) =>
              Spoken(m.services, id, own.services, parent.services, own.node, parent.node, last, merged.services)
         /\ Speaks(m.edges, id) =>
              Spoken(m.edges, id, own.edges, parent.edges, own.edge, parent.edge, last, merged.edges)
<1>. DEFINE ev == reliabilityFromArtifact(m)
<1>1. ev.services = LiveOf(m.services) /\ ev.edges = LiveOf(m.edges)
  BY EvidenceIs
<1>. HIDE DEF ev
<1>2. /\ DOMAIN r = {"node", "edge", "services", "edges"}
      /\ r.node = Or(own.node, Nil, parent.node) /\ r.edge = Or(own.edge, Nil, parent.edge)
      /\ r.services = Over(own.services, parent.services) /\ r.edges = Over(own.edges, parent.edges)
  BY DEF normalizeProfileReliability
<1>3. /\ merged.node = r.node /\ merged.edge = r.edge
      /\ merged.services = IF r.node = Nil THEN Over(r.services, ev.services) ELSE r.services
      /\ merged.edges = IF r.edge = Nil THEN Over(r.edges, ev.edges) ELSE r.edges
  BY <1>2 DEF mergeArtifactReliability, ev
<1>4. /\ \A x \in DOMAIN r.services : r.services[x] # Nil
      /\ \A x \in DOMAIN r.edges : r.edges[x] # Nil
  <2>1. ValidShares(r.services) /\ ValidShares(r.edges)
    BY DEF validateReliability
  <2>. QED
    BY <2>1, SharesAre
<1>5. ASSUME Speaks(m.services, id)
      PROVE  Layering(m.services, id, own.services, parent.services, own.node, parent.node, last, merged.services)
  BY <1>1, <1>2, <1>3, <1>4, <1>5 DEF Layering
<1>6. ASSUME Speaks(m.edges, id)
      PROVE  Layering(m.edges, id, own.edges, parent.edges, own.edge, parent.edge, last, merged.edges)
  BY <1>1, <1>2, <1>3, <1>4, <1>6 DEF Layering
<1>. QED
  BY <1>2, <1>3, <1>5, <1>6, LayersAre

\* A map whose entries all say something.
Says(f) == \A x \in DOMAIN f : f[x] # Nil

LEMMA WeightsSay ==
  ASSUME NEW f, ValidWeights(f)
  PROVE  Says(f)
<1>1. \A x \in DOMAIN f : f[x] \in Nat
  BY DEF ValidWeights
<1>2. \A v \in Nat : v # Nil
  BY NilAssumption
<1>. QED
  BY <1>1, <1>2 DEF Says

LEMMA EntryOver ==
  ASSUME NEW f, NEW g, NEW e, Says(f)
  PROVE  Entry(Over(f, g), e) = Or(Entry(f, e), Nil, Entry(g, e))
<1>1. DOMAIN Over(f, g) = DOMAIN f \cup DOMAIN g
  BY DEF Over
<1>2. /\ e \in DOMAIN f => Over(f, g)[e] = f[e] /\ f[e] # Nil
      /\ e \notin DOMAIN f /\ e \in DOMAIN g => Over(f, g)[e] = g[e]
  BY DEF Over, Says
<1>. QED
  BY <1>1, <1>2 DEF Entry, Or

LEMMA OverSays ==
  ASSUME NEW f, NEW g, NEW h, Says(f), Says(g), Over(f, g) = Over(h, g)
  PROVE  Says(h)
<1>. SUFFICES ASSUME NEW x \in DOMAIN h PROVE h[x] # Nil
  BY DEF Says
<1>1. x \in DOMAIN Over(h, g) /\ Over(h, g)[x] = h[x]
  BY DEF Over
<1>2. x \in DOMAIN Over(f, g) => Over(f, g)[x] # Nil
  BY DEF Over, Says
<1>. QED
  BY <1>1, <1>2

LEMMA WeightsAre ==
  ASSUME NEW own, NEW q, NEW parent, NEW overlay, NEW artifact, Says(q), Says(parent), Says(overlay),
         Over(q, parent) = Over(own, parent), NEW all, all = Over(q, Over(parent, Over(overlay, artifact))),
         NEW ids, NEW e \in ids, NEW weights, weights = [x \in ids \cap DOMAIN all |-> all[x]]
  PROVE  Or(Entry(weights, e), Nil, 0) =
           FirstOf(<<Entry(own, e), Entry(parent, e), Entry(overlay, e), Entry(artifact, e), 0>>)
<1>. DEFINE a == Entry(own, e)
            b == Entry(parent, e)
            c == Entry(overlay, e)
            d == Entry(artifact, e)
            w == Entry(weights, e)
            t == <<a, b, c, d, 0>>
<1>1. Says(own)
  BY OverSays
<1>2. w = Entry(all, e)
  BY DEF Entry
<1>3. Entry(all, e) = Or(Entry(q, e), Nil, Or(b, Nil, Or(c, Nil, d)))
  BY EntryOver
<1>4. Or(Entry(q, e), Nil, b) = Or(a, Nil, b)
  BY <1>1, EntryOver
<1>5. DOMAIN t = 1 .. 5 /\ t[1] = a /\ t[2] = b /\ t[3] = c /\ t[4] = d /\ t[5] = 0
  OBVIOUS
<1>. HIDE DEF a, b, c, d, w, t
<1>6. w = Or(a, Nil, Or(b, Nil, Or(c, Nil, d)))
  BY <1>2, <1>3, <1>4 DEF Or
<1>7. 0 # Nil
  BY NilAssumption
<1>8. /\ a # Nil => FirstOf(t) = a
      /\ a = Nil /\ b # Nil => FirstOf(t) = b
      /\ a = Nil /\ b = Nil /\ c # Nil => FirstOf(t) = c
      /\ a = Nil /\ b = Nil /\ c = Nil /\ d # Nil => FirstOf(t) = d
      /\ a = Nil /\ b = Nil /\ c = Nil /\ d = Nil => FirstOf(t) = 0
  BY <1>5, <1>7, FirstOfFive
<1>9. Or(w, Nil, 0) = FirstOf(t)
  BY <1>6, <1>8 DEF Or
<1>. QED
  BY <1>9 DEF t, a, b, c, d, w

-----------------------------------------------------------------------------
(* What is simulated.                                                      *)

LEMMA SimulationIs ==
  ASSUME NEW m, NEW q, IsProfile(q)
  PROVE  LET p == SimulationProfile(m, q) IN
         /\ p.name = q.name /\ p.trials = q.trials /\ p.failure = q.failure /\ p.fixedK = q.fixedK
         /\ p.weights = q.weights
         /\ p.reliability = mergeArtifactReliability(reliabilityFromArtifact(m), q.reliability)
<1>. DEFINE p == SimulationProfile(m, q)
            r == mergeArtifactReliability(reliabilityFromArtifact(m), q.reliability)
<1>1. /\ "name" \in DOMAIN q /\ "weights" \in DOMAIN q /\ "trials" \in DOMAIN q /\ "failure" \in DOMAIN q
      /\ "fixedK" \in DOMAIN q /\ "reliability" \in DOMAIN q
  BY DEF IsProfile, Unconfigured
<1>2. p = [q EXCEPT !.reliability = r]
  BY DEF SimulationProfile
<1>. HIDE DEF p, r
<1>. QED
  BY <1>1, <1>2 DEF p, r

\* The profile of the configuration in force that goes with one of the file.
LEMMA InForce ==
  ASSUME ParameterInv, stage \in HasBaselines, NEW i \in DOMAIN Asked.profiles
  PROVE  LET own == Asked.profiles[i]
             q == config.profiles[i] IN
         /\ GrantedProfile(Asked, own, q) /\ q \in Range(config.profiles) /\ IsProfile(q)
         /\ ValidProfile(config, q) /\ config.weights = Asked.weights /\ ValidWeights(config.weights)
         /\ CreditedProfile(Asked, own, q, config.sources.profiles[own.name])
         /\ {own.trials, own.failure, own.fixedK, Asked.trials, Asked.failure, Asked.fixedK} \subseteq Int
         /\ loaded # Nil /\ loaded = Load(job.artifact) /\ ValidModel(loaded.model)
<1>. DEFINE own == Asked.profiles[i]
            q == config.profiles[i]
<1>1. stage \in HasLoaded /\ stage \in Configured
  BY DEF HasBaselines, HasLoaded
<1>2. Steady(config)
  BY <1>1 DEF ParameterInv, ConfiguredInv, ConfigInv
<1>3. Fulfils(config, Asked) /\ Numbers(Asked)
  BY <1>1 DEF ParameterInv, AskedInv
<1>4. GrantedProfile(Asked, own, q) /\ i \in DOMAIN config.profiles /\ config.weights = Asked.weights
  BY <1>3 DEF Fulfils, Granted
<1>5. q \in Range(config.profiles)
  BY <1>4 DEF Range
<1>6. IsProfile(q)
  BY <1>2, <1>5 DEF Steady, Shaped
<1>7. ValidProfile(config, q) /\ ValidWeights(config.weights)
  BY <1>2, <1>5 DEF Steady, Validate
<1>8. CreditedProfile(Asked, own, q, config.sources.profiles[own.name])
  BY <1>3 DEF Fulfils, Credited
<1>9. own \in Range(Asked.profiles)
  BY DEF Range
<1>10. {own.trials, own.failure, own.fixedK, Asked.trials, Asked.failure, Asked.fixedK} \subseteq Int
  BY <1>3, <1>9 DEF Numbers
<1>11. loaded # Nil /\ loaded = Load(job.artifact)
  BY <1>1 DEF ParameterInv, ConfiguredInv, LoadInv
<1>12. ValidModel(loaded.model)
  BY <1>11, LoadedValid
<1>. HIDE DEF own, q
<1>13. /\ GrantedProfile(Asked, own, q) /\ q \in Range(config.profiles) /\ IsProfile(q)
       /\ ValidProfile(config, q) /\ config.weights = Asked.weights /\ ValidWeights(config.weights)
       /\ CreditedProfile(Asked, own, q, config.sources.profiles[own.name])
       /\ {own.trials, own.failure, own.fixedK, Asked.trials, Asked.failure, Asked.fixedK} \subseteq Int
       /\ loaded # Nil /\ loaded = Load(job.artifact) /\ ValidModel(loaded.model)
  BY <1>4, <1>5, <1>6, <1>7, <1>8, <1>10, <1>11, <1>12
<1>. QED
  BY <1>13 DEF own, q

LEMMA StatusIs ==
  \A source, artifact :
    parameterStatusForWeights(source, artifact) = "default" => source = "default" /\ artifact = "default"
BY DEF parameterStatusForWeights

LEMMA ParametersUnset == ParameterInv => DefaultMeansUnset
<1>. SUFFICES ASSUME ParameterInv, Analyzed, NEW i \in DOMAIN Asked.profiles,
                     NEW own, own = Asked.profiles[i], NEW q, q = config.profiles[i],
                     NEW source, source = config.sources.profiles[own.name],
                     NEW m, m = loaded.model
              PROVE  /\ source.reliability = "default" => ~reliabilityConfigured(SimulationProfile(m, q).reliability)
                     /\ source.fixedK = "default" => own.fixedK = 0 /\ Asked.fixedK = 0
                     /\ source.failure = "default" => own.failure = 0 /\ Asked.failure = 0
                     /\ parameterStatusForWeights(source.weights, WeightsSource(loaded, config)) = "default" =>
                          DOMAIN mergeWeights(DefaultWeights(loaded, config), q.weights, m) = {}
  BY DEF DefaultMeansUnset
<1>1. stage \in HasBaselines
  BY DEF Analyzed, HasBaselines, HasLoaded, Configured
<1>2. /\ GrantedProfile(Asked, own, q) /\ q \in Range(config.profiles) /\ IsProfile(q)
      /\ config.weights = Asked.weights /\ CreditedProfile(Asked, own, q, source)
      /\ loaded # Nil /\ loaded = Load(job.artifact)
  BY <1>1, InForce
<1>3. q.name = own.name
  BY <1>2 DEF GrantedProfile
<1>4. source.reliability = "default" => ~UsesEvidence(reliabilityFromArtifact(m), q.reliability)
  BY <1>1, <1>2, <1>3 DEF ParameterInv, EvidenceInv, Untouched
<1>5. /\ source.reliability = "default" => ~reliabilityConfigured(q.reliability)
      /\ source.fixedK = "default" => own.fixedK = 0 /\ Asked.fixedK = 0
      /\ source.failure = "default" => own.failure = 0 /\ Asked.failure = 0
      /\ source.weights = "default" => DOMAIN own.weights = {} /\ DOMAIN Asked.weights = {}
  BY <1>2 DEF CreditedProfile
<1>6. source.reliability = "default" => ~reliabilityConfigured(SimulationProfile(m, q).reliability)
  BY <1>2, <1>4, <1>5, SimulationIs DEF UsesEvidence
<1>7. ASSUME parameterStatusForWeights(source.weights, WeightsSource(loaded, config)) = "default"
      PROVE  DOMAIN mergeWeights(DefaultWeights(loaded, config), q.weights, m) = {}
  <2>. DEFINE w == WeightsSource(loaded, config)
  <2>1. source.weights = "default" /\ w = "default"
    BY <1>7, StatusIs
  <2>2. DOMAIN Overlay(config).weights = {} /\ loaded.weightsSource = "default"
    BY <2>1 DEF WeightsSource
  <2>3. DOMAIN loaded.weights = {}
    BY <1>2, <2>2, LoadedWeights
  <2>4. DOMAIN DefaultWeights(loaded, config) = {}
    BY <1>2, <1>5, <2>1, <2>2, <2>3 DEF DefaultWeights, Over
  <2>5. DOMAIN q.weights = {}
    <3>1. Over(q.weights, Asked.weights) = Over(own.weights, Asked.weights)
      BY <1>2 DEF GrantedProfile
    <3>2. DOMAIN Over(own.weights, Asked.weights) = {} /\ DOMAIN q.weights \subseteq DOMAIN Over(q.weights, Asked.weights)
      BY <1>5, <2>1 DEF Over
    <3>. QED
      BY <3>1, <3>2
  <2>. QED
    BY <2>4, <2>5 DEF mergeWeights, Over
<1>. QED
  BY <1>5, <1>6, <1>7

\* A report that calls a parameter a default is right: no layer that counts has
\* set it (parameter_sources.go:38, analyzer.go:92, report.go:415).
THEOREM DefaultsAreUnset == Spec => []DefaultMeansUnset
<1>. QED
  BY ParameterInvariant, ParametersUnset, PTL

LEMMA NamesAre ==
  ASSUME NEW m, ValidModel(m)
  PROVE  /\ \A s \in ServiceIds(m) : Speaks(m.services, s)
         /\ \A e \in EdgeIds(m) \ {""} : Speaks(m.edges, e)
<1>1. \A s \in m.services : s.id # ""
  BY DEF ValidModel, ValidService
<1>2. \A s \in ServiceIds(m) : s # ""
  BY <1>1 DEF ServiceIds
<1>. QED
  BY <1>2, EvidenceSpeaks

LEMMA ParametersEffective == ParameterInv => EffectiveParameters
<1>. DEFINE Trials(own, p) ==
              p.trials = FirstOf(<<AboveZero(own.trials), AboveZero(Asked.trials), DefaultTrials>>)
            Fixed(own, p) == p.fixedK = FirstOf(<<NonZero(own.fixedK), Asked.fixedK>>)
            Failure(own) == FirstOf(<<NonZero(own.failure), NonZero(Asked.failure), 5>>)
            Services(own, p, m, failure) ==
              \A s \in ServiceIds(m) : \E live \in EvidenceOf(m.services, s) : serviceLiveProbability(p, s) =
                Layered(own.reliability.services, Asked.reliability.services, s, own.reliability.node,
                        Asked.reliability.node, live, 100 - failure)
            Edges(own, p, m) ==
              \A e \in EdgeIds(m) \ {""} : \E live \in EvidenceOf(m.edges, e) : edgeLiveProbability(p, e) =
                Layered(own.reliability.edges, Asked.reliability.edges, e, own.reliability.edge,
                        Asked.reliability.edge, live, 100)
            Weights(own, weights, m) ==
              \A e \in EndpointIds(m) : Or(Entry(weights, e), Nil, 0) =
                FirstOf(<<Entry(own.weights, e), Entry(Asked.weights, e), Entry(Overlay(config).weights, e),
                          Entry(loaded.weights, e), 0>>)
<1>1. ASSUME ParameterInv, Analyzed, NEW i \in DOMAIN Asked.profiles,
             NEW own, own = Asked.profiles[i], NEW q, q = config.profiles[i], NEW m, m = loaded.model,
             NEW p, p = SimulationProfile(m, q)
      PROVE  /\ Trials(own, p) /\ Fixed(own, p) /\ Services(own, p, m, Failure(own)) /\ Edges(own, p, m)
             /\ Weights(own, mergeWeights(DefaultWeights(loaded, config), p.weights, m), m)
  <2>1. stage \in HasBaselines
    BY <1>1 DEF Analyzed, HasBaselines, HasLoaded, Configured
  <2>2. /\ GrantedProfile(Asked, own, q) /\ IsProfile(q) /\ ValidProfile(config, q)
        /\ config.weights = Asked.weights /\ ValidWeights(config.weights) /\ ValidModel(m)
    BY <1>1, <2>1, InForce
  <2>3. /\ own.trials \in Int /\ own.failure \in Int /\ own.fixedK \in Int
        /\ Asked.trials \in Int /\ Asked.failure \in Int /\ Asked.fixedK \in Int
    BY <1>1, <2>1, InForce
  <2>4. /\ q.trials = Positive(own.trials, Positive(Asked.trials, DefaultTrials))
        /\ q.failure = Or(own.failure, 0, Or(Asked.failure, 0, 5))
        /\ q.fixedK = Or(own.fixedK, 0, Asked.fixedK)
        /\ q.reliability = normalizeProfileReliability(Asked.reliability, own.reliability)
        /\ Over(q.weights, Asked.weights) = Over(own.weights, Asked.weights)
    BY <2>2 DEF GrantedProfile
  <2>5. /\ p.trials = q.trials /\ p.failure = q.failure /\ p.fixedK = q.fixedK /\ p.weights = q.weights
        /\ p.reliability = mergeArtifactReliability(reliabilityFromArtifact(m), q.reliability)
    BY <1>1, <2>2, SimulationIs
  <2>6. ValidWeights(q.weights) /\ validateReliability(q.reliability)
    BY <2>2 DEF ValidProfile
  <2>7. Trials(own, p)
    BY <2>3, <2>4, <2>5, NumbersAre
  <2>8. Fixed(own, p)
    BY <2>3, <2>4, <2>5, NumbersAre
  <2>9. Failure(own) = p.failure
    BY <2>3, <2>4, <2>5, NumbersAre
  <2>10. 100 - p.failure # Nil /\ 100 # Nil
    <3>1. p.failure \in Int
      BY <2>3, <2>4, <2>5 DEF Or
    <3>. QED
      BY <3>1, NilAssumption
  <2>. DEFINE r == p.reliability
              o == own.reliability
              a == Asked.reliability
  <2>11. ASSUME NEW id, NEW last, last # Nil
         PROVE  /\ r.node = Or(o.node, Nil, a.node) /\ r.edge = Or(o.edge, Nil, a.edge)
                /\ Speaks(m.services, id) =>
                     Spoken(m.services, id, o.services, a.services, o.node, a.node, last, r.services)
                /\ Speaks(m.edges, id) =>
                     Spoken(m.edges, id, o.edges, a.edges, o.edge, a.edge, last, r.edges)
    BY <2>4, <2>5, <2>6, <2>11, ReliabilityIs
  <2>12. Services(own, p, m, p.failure)
    <3>1. ASSUME NEW s \in ServiceIds(m)
          PROVE  \E live \in EvidenceOf(m.services, s) :
                   serviceLiveProbability(p, s) = Layered(o.services, a.services, s, o.node, a.node, live, 100 - p.failure)
      <4>1. Speaks(m.services, s)
        BY <2>2, NamesAre
      <4>2. Spoken(m.services, s, o.services, a.services, o.node, a.node, 100 - p.failure, r.services)
        BY <2>10, <2>11, <4>1
      <4>3. serviceLiveProbability(p, s) =
              IF s \in DOMAIN r.services THEN r.services[s] ELSE Or(Or(o.node, Nil, a.node), Nil, 100 - p.failure)
        BY <2>10, <2>11 DEF serviceLiveProbability
      <4>. HIDE DEF r, o, a
      <4>. QED
        BY <4>2, <4>3 DEF Spoken
    <3>. QED
      BY <3>1
  <2>13. Edges(own, p, m)
    <3>1. ASSUME NEW e \in EdgeIds(m) \ {""}
          PROVE  \E live \in EvidenceOf(m.edges, e) :
                   edgeLiveProbability(p, e) = Layered(o.edges, a.edges, e, o.edge, a.edge, live, 100)
      <4>1. Speaks(m.edges, e)
        BY <2>2, NamesAre
      <4>2. Spoken(m.edges, e, o.edges, a.edges, o.edge, a.edge, 100, r.edges)
        BY <2>10, <2>11, <4>1
      <4>3. edgeLiveProbability(p, e) =
              IF e \in DOMAIN r.edges THEN r.edges[e] ELSE Or(Or(o.edge, Nil, a.edge), Nil, 100)
        BY <2>10, <2>11 DEF edgeLiveProbability
      <4>. HIDE DEF r, o, a
      <4>. QED
        BY <4>2, <4>3 DEF Spoken
    <3>. QED
      BY <3>1
  <2>14. Weights(own, mergeWeights(DefaultWeights(loaded, config), p.weights, m), m)
    <3>. DEFINE A == Asked.weights
                O == Overlay(config).weights
                L == loaded.weights
                all == Over(q.weights, Over(A, Over(O, L)))
                w == [x \in EndpointIds(m) \cap DOMAIN all |-> all[x]]
    <3>1. mergeWeights(DefaultWeights(loaded, config), p.weights, m) = w
      BY <2>2, <2>5 DEF mergeWeights, DefaultWeights
    <3>2. Says(q.weights) /\ Says(A) /\ Says(O)
      <4>1. ValidWeights(O)
        BY <1>1, <2>1 DEF ParameterInv, EvidenceInv
      <4>. QED
        BY <2>2, <2>6, <4>1, WeightsSay
    <3>3. \A e \in EndpointIds(m) : Or(Entry(w, e), Nil, 0) =
            FirstOf(<<Entry(own.weights, e), Entry(A, e), Entry(O, e), Entry(L, e), 0>>)
      <4>1. Over(q.weights, A) = Over(own.weights, A)
        BY <2>4
      <4>. HIDE DEF A, O, L, w
      <4>2. TAKE e \in EndpointIds(m)
      <4>3. w = [x \in EndpointIds(m) \cap DOMAIN all |-> all[x]]
        BY DEF w
      <4>. QED
        BY <3>2, <4>1, <4>3, WeightsAre
    <3>. QED
      BY <3>1, <3>3
  <2>. QED
    BY <2>7, <2>8, <2>9, <2>12, <2>13, <2>14
<1>. DEFINE Simulated(own, p, weights, m) ==
              /\ Trials(own, p) /\ Fixed(own, p) /\ Services(own, p, m, Failure(own)) /\ Edges(own, p, m)
              /\ Weights(own, weights, m)
<1>2. ASSUME ParameterInv, Analyzed, NEW i \in DOMAIN Asked.profiles
      PROVE  Simulated(Asked.profiles[i], SimulationProfile(loaded.model, config.profiles[i]),
                       mergeWeights(DefaultWeights(loaded, config),
                                    SimulationProfile(loaded.model, config.profiles[i]).weights, loaded.model),
                       loaded.model)
  <2>. HIDE DEF Trials, Fixed, Failure, Services, Edges, Weights
  <2>. QED
    BY <1>1, <1>2
<1>3. EffectiveParameters <=>
        (Analyzed => \A i \in DOMAIN Asked.profiles :
           Simulated(Asked.profiles[i], SimulationProfile(loaded.model, config.profiles[i]),
                     mergeWeights(DefaultWeights(loaded, config),
                                  SimulationProfile(loaded.model, config.profiles[i]).weights, loaded.model),
                     loaded.model))
  BY DEF EffectiveParameters, Layered
<1>. HIDE DEF Simulated
<1>. QED
  BY <1>2, <1>3

\* What is simulated is what the user asked for, layer by layer, for every
\* file, artifact and sequence of commands (analysis.go:242,
\* analyzer.go:91, 133 and 290).
THEOREM ParametersAreThoseAsked == Spec => []EffectiveParameters
<1>. QED
  BY ParameterInvariant, ParametersEffective, PTL
=============================================================================
