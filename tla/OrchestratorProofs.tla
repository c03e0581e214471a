------------------------- MODULE OrchestratorProofs -------------------------
(***************************************************************************)
(* Proofs about Orchestrator, for any runs, jobs, plans and numbers of     *)
(* crashes and faults.  What a thread still has to do says what it has     *)
(* stored (ThreadState), and between a crash and the end of the cleanup no *)
(* thread is alive and every stale execution is on the list (Process).     *)
(***************************************************************************)
EXTENDS Orchestrator, FiniteSetTheorems, SequenceTheorems, TLAPS

ThreadState(j) ==
    LET e == executions[j]
        n == Len(e.results)
    IN  /\ pc[j] \in {"new", "refused", "plan_store"} => e.status = "none"
        /\ e.status = "none" => pc[j] \in {"new", "refused", "plan_store", "raised", "lost"}
        /\ e.status \in {"none", "QUEUED"} => e.results = <<>> /\ ~e.evaluated
        /\ pc[j] \in {"plan_mark", "planned", "mark_execution"} => e.status = "QUEUED"
        /\ pc[j] \in {"mark_run", "step", "stepping", "finish"} => e.status = "RUNNING"
        /\ pc[j] \in Planning \cup {"planned", "mark_execution", "mark_run"} =>
              Steps(j) # 0 /\ e.results = <<>>
        /\ pc[j] \in {"step", "stepping"} => n < Steps(j) /\ ~Failed(j)
        /\ pc[j] = "stepping" => e.current = n + 1
        /\ pc[j] = "finish" => Failed(j) \/ n = Steps(j)
        /\ pc[j] = "finish_run" => e.evaluated /\ e.status = Verdict(j)
        /\ pc[j] = "error" => e.status \in {"QUEUED", "RUNNING", "PASSED", "FAILED"}
        /\ pc[j] \in {"error_run", "error_mark"} => e.status = "ERROR"
        /\ pc[j] = "done" => ~IsStale(j)

Process ==
    /\ mode # "up" => \A j \in Jobs : pc[j] \notin Live
    /\ mode # "cleanup" => stale = {}
    /\ mode = "cleanup" => \A j \in Jobs : IsStale(j) => j \in stale
    /\ \A j \in stale : executions[j].status \in {"QUEUED", "RUNNING", "ERROR"}

IInv ==
    /\ TypeOK
    /\ \A j \in Jobs : Evidence(j) /\ ThreadState(j)
    /\ Process /\ StaleHasOwner /\ RunStatusHasEvidence

-----------------------------------------------------------------------------
(* What a step leaves alone.                                               *)

JobOK(j) == Evidence(j) /\ ThreadState(j)

\* What a step never takes back from a stored execution.
Keeps(j) ==
    /\ executions[j].evaluated => /\ executions'[j].evaluated
                                  /\ executions'[j].steps = executions[j].steps
                                  /\ executions'[j].results = executions[j].results
    /\ executions[j].status = "ERROR" => executions'[j].status = "ERROR"
    /\ executions[j].status # "none" => executions'[j].status # "none"
    /\ executions[j].status \notin {"none", "QUEUED"}
          => executions'[j].status \notin {"none", "QUEUED"}

\* A job whose thread and execution are left alone.
LEMMA JobFrame ==
    ASSUME NEW k \in Jobs, executions'[k] = executions[k], pc'[k] = pc[k]
    PROVE  Keeps(k) /\ (JobOK(k) => JobOK(k)')
  BY DEF Keeps, JobOK, Evidence, ThreadState, Steps, Failed, Verdict, IsStale

LEMMA ExecutionsFrame ==
    ASSUME NEW j \in Jobs, UNCHANGED executions
    PROVE  Keeps(j) /\ (Evidence(j) => Evidence(j)')
  BY DEF Keeps, Evidence, Failed, Steps

\* What supports a run's status goes on supporting it.
LEMMA SupportKept ==
    ASSUME TypeOK, TypeOK', \A k \in Jobs : Keeps(k), NEW r, NEW s, Supported(r, s)
    PROVE  Supported(r, s)'
<1>1. ASSUME NEW j \in Of(r), executions[j].evaluated
      PROVE  /\ executions'[j].evaluated
             /\ executions'[j].results = executions[j].results
             /\ Failed(j)' <=> Failed(j)
  BY <1>1 DEF Keeps, Of, Failed
<1>2. ASSUME s = "PASSED" PROVE Supported(r, s)'
  <2>1. PICK j \in Of(r) :
          executions[j].evaluated /\ ~Failed(j) /\ Len(executions[j].results) = Steps(j)
    BY <1>2 DEF Supported
  <2>2. executions'[j].evaluated /\ ~Failed(j)' /\ Len(executions'[j].results) = Steps(j)
    BY <1>1, <2>1
  <2> QED
    BY <1>2, <2>2 DEF Supported, Of, Steps
<1>3. ASSUME s = "FAILED" PROVE Supported(r, s)'
  <2>1. PICK j \in Of(r) :
          (executions[j].evaluated /\ Failed(j)) \/ executions[j].status = "ERROR"
    BY <1>3 DEF Supported
  <2>2. (executions'[j].evaluated /\ Failed(j)') \/ executions'[j].status = "ERROR"
    BY <1>1, <2>1 DEF Keeps, Of
  <2> QED
    BY <1>3, <2>2 DEF Supported, Of
<1>4. ASSUME s \in {"RUNNING", "QUEUED"} PROVE Supported(r, s)'
  BY <1>4 DEF Supported, Keeps, Of
<1>5. s \notin {"PASSED", "FAILED", "RUNNING", "QUEUED"} => Supported(r, s)'
  BY DEF Supported
<1> QED
  BY <1>2, <1>3, <1>4, <1>5

LEMMA RunStatusKept ==
    ASSUME IInv, TypeOK', \A k \in Jobs : Keeps(k),
           NEW r \in Runs, test_runs'[r] \in {test_runs[r], "absent", "CONFIGURED"}
    PROVE  Supported(r, test_runs[r])'
<1>1. Supported(r, test_runs[r])
  BY DEF IInv, RunStatusHasEvidence
<1>2. CASE test_runs'[r] = test_runs[r]
  <2>1. ASSUME NEW s, s = test_runs[r] PROVE Supported(r, s)'
    BY <1>1, <2>1, SupportKept DEF IInv
  <2> QED
    BY <1>2, <2>1 DEF Supported
<1>3. CASE test_runs'[r] \in {"absent", "CONFIGURED"}
  BY <1>3 DEF Supported
<1> QED
  BY <1>2, <1>3

-----------------------------------------------------------------------------
(* What a step does to the job that takes it.                              *)

\* Everybody else's thread and execution are left alone.
OnlyJob(j) ==
    \A k \in Jobs \ {j} : executions'[k] = executions[k] /\ pc'[k] = pc[k]

LEMMA PlanningKeepsJob ==
    ASSUME IInv, NEW j \in Jobs,
           PlanLoad(j) \/ PlanStore(j) \/ PlanMark(j) \/ RunLoad(j)
    PROVE  TypeOK' /\ JobOK(j)' /\ Keeps(j) /\ OnlyJob(j)
<1> USE DEF IInv, Goto, At, SetRun, repositories, process
<1>1. executions[j].status \in ExecutionStatuses /\ RunOf[j] \in Runs /\ Steps(j) \in Nat
  BY JobsAssumption DEF TypeOK, Execution, Steps
<1>2. CASE PlanLoad(j)
  <2>1. TypeOK'
    BY <1>2 DEF PlanLoad, TypeOK, Live, Planning
  <2>2. Keeps(j) /\ OnlyJob(j) /\ Evidence(j)'
    BY <1>2, ExecutionsFrame DEF PlanLoad, TypeOK, OnlyJob
  <2>3. ThreadState(j)'
    BY <1>2, <1>1 DEF PlanLoad, TypeOK, ThreadState, Planning, Steps, Failed, Verdict, IsStale
  <2> QED
    BY <2>1, <2>2, <2>3 DEF JobOK
<1>3. CASE PlanStore(j)
  <2>2. executions'[j] = [executions[j] EXCEPT !.status = "QUEUED"] /\ pc'[j] = "plan_mark"
        /\ executions[j].status = "none"
    BY <1>3 DEF PlanStore, TypeOK, ThreadState
  <2>0. executions'[j] \in Execution(j)
    BY <2>2 DEF TypeOK, Execution, ExecutionStatuses
  <2>1. TypeOK'
    BY <1>3, <2>0, AppendProperties DEF PlanStore, TypeOK, Live, Planning, Execution, Steps
  <2>3. Keeps(j) /\ OnlyJob(j)
    BY <1>3, <2>2 DEF PlanStore, TypeOK, OnlyJob, Keeps
  <2>4. Evidence(j)'
    BY <2>2 DEF TypeOK, Evidence, ThreadState, Failed, Steps
  <2>5. ThreadState(j)'
    BY <2>2, <1>1, <1>3 DEF PlanStore, TypeOK, ThreadState, Planning, Steps, Failed, IsStale
  <2> QED
    BY <2>1, <2>3, <2>4, <2>5 DEF JobOK
<1>4. CASE PlanMark(j)
  <2>1. TypeOK'
    BY <1>4, <1>1 DEF PlanMark, TypeOK, Live, Planning
  <2>2. Keeps(j) /\ OnlyJob(j) /\ Evidence(j)'
    BY <1>4 DEF PlanMark, TypeOK, OnlyJob, Keeps, Evidence, Failed, Steps
  <2>3. ThreadState(j)'
    BY <1>4, <1>1 DEF PlanMark, TypeOK, ThreadState, Planning, Steps, Failed, Verdict, IsStale
  <2> QED
    BY <2>1, <2>2, <2>3 DEF JobOK
<1>5. CASE RunLoad(j)
  <2>1. TypeOK'
    BY <1>5, <1>1 DEF RunLoad, TypeOK, Live, Planning, Running, Failing
  <2>2. Keeps(j) /\ OnlyJob(j) /\ Evidence(j)'
    BY <1>5 DEF RunLoad, TypeOK, OnlyJob, Keeps, Evidence, Failed, Steps
  <2>3. ThreadState(j)'
    BY <1>5, <1>1 DEF RunLoad, TypeOK, ThreadState, Planning, Steps, Failed, Verdict, IsStale
  <2> QED
    BY <2>1, <2>2, <2>3 DEF JobOK
<1> QED
  BY <1>2, <1>3, <1>4, <1>5

LEMMA RunningKeepsJob ==
    ASSUME IInv, NEW j \in Jobs,
           MarkExecution(j) \/ MarkRun(j) \/ StepBegin(j)
    PROVE  TypeOK' /\ JobOK(j)' /\ Keeps(j) /\ OnlyJob(j)
<1> USE DEF IInv, Goto, At, SetRun, repositories, process
<1>1. executions[j].status \in ExecutionStatuses /\ RunOf[j] \in Runs /\ Steps(j) \in Nat
  BY JobsAssumption DEF TypeOK, Execution, Steps
<1>2. CASE MarkExecution(j)
  <2>2. executions'[j] = [executions[j] EXCEPT !.status = "RUNNING"] /\ pc'[j] = "mark_run"
        /\ executions[j].status = "QUEUED"
    BY <1>2 DEF MarkExecution, TypeOK, ThreadState
  <2>0. executions'[j] \in Execution(j)
    BY <2>2 DEF TypeOK, Execution, ExecutionStatuses
  <2>1. TypeOK'
    BY <1>2, <2>0 DEF MarkExecution, TypeOK, Live, Running, Execution, Steps
  <2>3. Keeps(j) /\ OnlyJob(j)
    BY <1>2, <2>2 DEF MarkExecution, TypeOK, OnlyJob, Keeps, ThreadState
  <2>4. Evidence(j)'
    BY <2>2 DEF TypeOK, Evidence, ThreadState, Failed, Steps
  <2>5. ThreadState(j)'
    BY <2>2, <1>1, <1>2 DEF MarkExecution, TypeOK, ThreadState, Planning, Steps, Failed, IsStale
  <2> QED
    BY <2>1, <2>3, <2>4, <2>5 DEF JobOK
<1>3. CASE MarkRun(j)
  <2>1. TypeOK'
    BY <1>3, <1>1 DEF MarkRun, TypeOK, Live, Running
  <2>0. executions' = executions /\ \A k \in Jobs \ {j} : pc'[k] = pc[k]
    BY <1>3 DEF MarkRun, TypeOK
  <2>2. Keeps(j) /\ OnlyJob(j) /\ Evidence(j)'
    <3>1. Keeps(j) /\ OnlyJob(j)
      BY <2>0 DEF OnlyJob, Keeps
    <3>2. Evidence(j)'
      BY <2>0 DEF Evidence, Failed, Steps
    <3> QED
      BY <3>1, <3>2
  <2>3. Len(executions[j].results) = 0 /\ Steps(j) # 0 /\ ~Failed(j)
    BY <1>3, EmptySeq DEF MarkRun, ThreadState, Failed
  <2>4. ThreadState(j)'
    BY <1>3, <1>1, <2>3 DEF MarkRun, TypeOK, ThreadState, Planning, Steps, Failed, Verdict, IsStale
  <2> QED
    BY <2>1, <2>2, <2>4 DEF JobOK
<1>4. CASE StepBegin(j)
  <2> DEFINE n == Len(executions[j].results)
  <2>1. n \in Nat /\ n < Steps(j) /\ ~Failed(j) /\ executions[j].status = "RUNNING"
    BY <1>4, LenProperties DEF StepBegin, ThreadState, TypeOK
  <2>2. executions'[j] = [executions[j] EXCEPT !.current = n + 1] /\ pc'[j] = "stepping"
    BY <1>4 DEF StepBegin, TypeOK
  <2>3. n + 1 \in 0..Steps(j)
    BY <2>1, <1>1
  <2>0. executions'[j] \in Execution(j)
    BY <2>2, <2>3 DEF TypeOK, Execution
  <2>4. TypeOK'
    BY <1>4, <2>0 DEF StepBegin, TypeOK, Live, Running, Execution, Steps
  <2>5. Keeps(j) /\ OnlyJob(j)
    BY <1>4, <2>2 DEF StepBegin, TypeOK, OnlyJob, Keeps
  <2>6. Evidence(j)'
    BY <2>1, <2>2 DEF TypeOK, Evidence, Failed, Steps
  <2>7. ThreadState(j)'
    BY <2>1, <2>2 DEF TypeOK, ThreadState, Planning, Steps, Failed, IsStale
  <2> QED
    BY <2>4, <2>5, <2>6, <2>7 DEF JobOK
<1> QED
  BY <1>2, <1>3, <1>4

\* A step's result: one more, and the last one if it is not PASSED.
LEMMA StepEndKeepsJob ==
    ASSUME IInv, NEW j \in Jobs, NEW outcome \in {"PASSED", "FAILED"}, StepEnd(j, outcome)
    PROVE  TypeOK' /\ JobOK(j)' /\ Keeps(j) /\ OnlyJob(j)
<1> USE DEF IInv, Goto, At, repositories, process
<1> DEFINE e == executions[j]
           n == Len(e.results)
<1>1. /\ e \in Execution(j) /\ e.results \in Seq({"PASSED", "FAILED"})
      /\ Steps(j) \in Nat /\ n \in Nat
      /\ e.status = "RUNNING" /\ e.current = n + 1 /\ n < Steps(j) /\ ~Failed(j)
      /\ ~e.evaluated
  BY LenProperties, JobsAssumption
     DEF StepEnd, TypeOK, Execution, Steps, ThreadState, Evidence
<1>2. executions'[j] = [e EXCEPT !.steps[n + 1] = outcome, !.results = Append(e.results, outcome)]
  BY <1>1 DEF StepEnd, TypeOK
<1>3. pc'[j] = IF outcome # "PASSED" \/ n + 1 = Steps(j) THEN "finish" ELSE "step"
  BY <1>1 DEF StepEnd, TypeOK
<1>4. /\ executions'[j].results = Append(e.results, outcome)
      /\ executions'[j].steps = [e.steps EXCEPT ![n + 1] = outcome]
      /\ executions'[j].status = "RUNNING" /\ executions'[j].current = n + 1
      /\ ~executions'[j].evaluated
  BY <1>1, <1>2 DEF Execution
<1>5. /\ Append(e.results, outcome) \in Seq({"PASSED", "FAILED"})
      /\ Len(executions'[j].results) = n + 1
      /\ executions'[j].results[n + 1] = outcome
      /\ \A i \in 1..n : executions'[j].results[i] = e.results[i] /\ e.results[i] = "PASSED"
  BY <1>1, <1>4, AppendProperties DEF Failed
<1>6. executions'[j] \in Execution(j)
  <2>1. [e.steps EXCEPT ![n + 1] = outcome] \in [1..Steps(j) -> ExecutionStatuses]
    BY <1>1 DEF Execution, ExecutionStatuses
  <2> QED
    BY <1>1, <1>2, <1>5, <2>1 DEF Execution
<1>7. TypeOK'
  BY <1>3, <1>6 DEF StepEnd, TypeOK, Live, Running, Execution, Steps
<1>8. Keeps(j) /\ OnlyJob(j)
  <2>1. Keeps(j)
    BY <1>1, <1>4 DEF Keeps
  <2>2. OnlyJob(j)
    BY DEF StepEnd, TypeOK, OnlyJob
  <2> QED
    BY <2>1, <2>2
<1>9. Evidence(j)'
  <2>1. \A i \in 1..Steps(j) : executions'[j].steps[i] =
          IF i <= n + 1 THEN executions'[j].results[i] ELSE "QUEUED"
    BY <1>1, <1>4, <1>5 DEF Evidence, Execution
  <2>2. ASSUME NEW i \in 1..(n + 1), i < n + 1 PROVE executions'[j].results[i] = "PASSED"
    <3>1. n \in Nat
      BY <1>1
    <3> HIDE DEF n
    <3>2. i \in 1..n
      BY <2>2, <3>1, SMT
    <3> QED
      BY <1>5, <3>2
  <2> QED
    BY <1>1, <1>4, <1>5, <2>1, <2>2 DEF Evidence, Steps
<1>10. ThreadState(j)'
  <2>1. Failed(j)' <=> outcome # "PASSED"
    <3>1. Failed(j)' <=> \E i \in 1..(n + 1) : executions'[j].results[i] # "PASSED"
      BY <1>5 DEF Failed
    <3>2. n + 1 \in 1..(n + 1)
      BY <1>1
    <3>3. ASSUME NEW i \in 1..(n + 1), i # n + 1 PROVE executions'[j].results[i] = "PASSED"
      <4>1. n \in Nat
        BY <1>1
      <4> HIDE DEF n
      <4>2. i \in 1..n
        BY <3>3, <4>1, SMT
      <4> QED
        BY <1>5, <4>2
    <3> QED
      BY <1>5, <3>1, <3>2, <3>3
  <2> QED
    BY <1>1, <1>3, <1>4, <1>5, <2>1 DEF ThreadState, Planning, Steps, IsStale
<1> QED
  BY <1>7, <1>8, <1>9, <1>10 DEF JobOK

LEMMA FinishKeepsJob ==
    ASSUME IInv, NEW j \in Jobs, Finish(j) \/ FinishRun(j)
    PROVE  TypeOK' /\ JobOK(j)' /\ Keeps(j) /\ OnlyJob(j)
<1> USE DEF IInv, Goto, At, SetRun, repositories, process
<1>1. executions[j] \in Execution(j) /\ RunOf[j] \in Runs /\ Steps(j) \in Nat
  BY JobsAssumption DEF TypeOK, Steps
<1>2. Verdict(j) \in {"PASSED", "FAILED"}
  BY DEF Verdict
<1>3. CASE Finish(j)
  <2>1. /\ executions[j].status = "RUNNING" /\ ~executions[j].evaluated
        /\ Failed(j) \/ Len(executions[j].results) = Steps(j)
    BY <1>1, <1>3 DEF Finish, ThreadState, Evidence
  <2>2. /\ executions'[j] = [executions[j] EXCEPT
              !.status = Verdict(j), !.current = 0, !.evaluated = TRUE]
        /\ pc'[j] = "finish_run"
    BY <1>3 DEF Finish, TypeOK
  <2>3. /\ executions'[j].status = Verdict(j) /\ executions'[j].current = 0
        /\ executions'[j].evaluated
        /\ executions'[j].results = executions[j].results
        /\ executions'[j].steps = executions[j].steps
    BY <1>1, <2>2 DEF Execution
  <2>4. (Failed(j)' <=> Failed(j)) /\ Verdict(j)' = Verdict(j)
    BY <2>3 DEF Failed, Verdict
  <2>5. executions'[j] \in Execution(j)
    <3>1. 0 \in 0..Steps(j) /\ Verdict(j) \in ExecutionStatuses
      BY <1>1, <1>2 DEF ExecutionStatuses
    <3> QED
      BY <1>1, <2>2, <3>1 DEF Execution
  <2>6. TypeOK'
    BY <1>3, <2>5 DEF Finish, TypeOK, Live, Running, Execution, Steps
  <2>7. Keeps(j)
    BY <1>2, <2>1, <2>3 DEF Keeps
  <2>8. OnlyJob(j)
    BY <1>3 DEF Finish, TypeOK, OnlyJob
  <2>9. Evidence(j)'
    BY <1>2, <2>1, <2>3, <2>4 DEF Evidence, Steps, Verdict
  <2>10. ThreadState(j)'
    BY <1>2, <2>1, <2>2, <2>3, <2>4 DEF ThreadState, Planning, Steps, IsStale
  <2> QED
    BY <2>6, <2>7, <2>8, <2>9, <2>10 DEF JobOK
<1>4. CASE FinishRun(j)
  <2>1. TypeOK'
    BY <1>1, <1>2, <1>4 DEF FinishRun, TypeOK, Live
  <2>2. Keeps(j) /\ OnlyJob(j) /\ Evidence(j)'
    BY <1>4, ExecutionsFrame DEF FinishRun, TypeOK, OnlyJob
  <2>3. executions[j].status \in {"PASSED", "FAILED"}
    BY <1>2, <1>4 DEF FinishRun, ThreadState
  <2>4. ThreadState(j)'
    BY <1>4, <2>3 DEF FinishRun, TypeOK, ThreadState, Planning, IsStale
  <2> QED
    BY <2>1, <2>2, <2>4 DEF JobOK
<1> QED
  BY <1>3, <1>4

LEMMA FailingKeepsJob ==
    ASSUME IInv, NEW j \in Jobs,
           Fault(j) \/ ErrorExecution(j) \/ ErrorRun(j) \/ ErrorMark(j)
    PROVE  TypeOK' /\ JobOK(j)' /\ Keeps(j) /\ OnlyJob(j)
<1> USE DEF IInv, Goto, At, SetRun, repositories, process
<1>1. executions[j] \in Execution(j) /\ RunOf[j] \in Runs /\ Steps(j) \in Nat
  BY JobsAssumption DEF TypeOK, Steps
<1>2. CASE Fault(j)
  <2>1. TypeOK'
    BY <1>2, JobsAssumption DEF Fault, TypeOK, Live, Failing
  <2>2. Keeps(j) /\ OnlyJob(j) /\ Evidence(j)'
    BY <1>2, ExecutionsFrame DEF Fault, TypeOK, OnlyJob
  <2>3. /\ pc'[j] \in {"error", "raised"}
        /\ pc'[j] = "error" => pc[j] \in Running
        /\ executions'[j] = executions[j]
    BY <1>2 DEF Fault, TypeOK
  <2>4. pc[j] \in Running => executions[j].status \in {"QUEUED", "RUNNING", "PASSED", "FAILED"}
    BY DEF ThreadState, Running, Verdict
  <2>5. executions[j].status = "none" => pc[j] # "error" /\ pc'[j] = "raised"
    BY <2>3, <2>4 DEF ThreadState
  <2>6. ThreadState(j)'
    BY <2>3, <2>4, <2>5 DEF ThreadState, Planning, Steps
  <2> QED
    BY <2>1, <2>2, <2>6 DEF JobOK
<1>3. CASE ErrorExecution(j)
  <2>1. executions[j].status \in {"QUEUED", "RUNNING", "PASSED", "FAILED"}
    BY <1>3 DEF ErrorExecution, ThreadState
  <2>2. executions'[j] = [executions[j] EXCEPT !.status = "ERROR"] /\ pc'[j] = "error_run"
    BY <1>3 DEF ErrorExecution, TypeOK
  <2>3. executions'[j] \in Execution(j)
    BY <1>1, <2>2 DEF Execution, ExecutionStatuses
  <2>4. TypeOK'
    BY <1>3, <2>3 DEF ErrorExecution, TypeOK, Live, Failing, Execution, Steps
  <2>5. Keeps(j)
    BY <1>1, <2>2 DEF Keeps, Execution
  <2>6. OnlyJob(j)
    BY <1>3 DEF ErrorExecution, TypeOK, OnlyJob
  <2>7. Evidence(j)'
    BY <1>1, <2>2 DEF Evidence, Execution, Failed, Steps
  <2>8. ThreadState(j)'
    BY <1>1, <2>2 DEF ThreadState, Planning, Steps, Execution, IsStale
  <2> QED
    BY <2>4, <2>5, <2>6, <2>7, <2>8 DEF JobOK
<1>4. CASE ErrorRun(j) \/ ErrorMark(j)
  <2>1. TypeOK'
    BY <1>1, <1>4 DEF ErrorRun, ErrorMark, TypeOK, Live, Failing
  <2>2. Keeps(j) /\ OnlyJob(j) /\ Evidence(j)'
    BY <1>4, ExecutionsFrame DEF ErrorRun, ErrorMark, TypeOK, OnlyJob
  <2>3. executions[j].status = "ERROR"
    BY <1>4 DEF ErrorRun, ErrorMark, ThreadState
  <2>4. ThreadState(j)'
    BY <1>4, <2>3 DEF ErrorRun, ErrorMark, TypeOK, ThreadState, Planning, IsStale
  <2> QED
    BY <2>1, <2>2, <2>4 DEF JobOK
<1> QED
  BY <1>2, <1>3, <1>4

\* The cleanup writes executions of threads that are gone.
LEMMA CleanExecutionKeepsJob ==
    ASSUME IInv, NEW j \in Jobs, CleanExecution(j)
    PROVE  TypeOK' /\ JobOK(j)' /\ Keeps(j) /\ OnlyJob(j)
<1> USE DEF IInv, process
<1>1. executions[j] \in Execution(j) /\ executions[j].status \in {"QUEUED", "RUNNING", "ERROR"}
  BY DEF CleanExecution, TypeOK, Process
<1>2. pc[j] \notin Live /\ pc[j] \in {"new", "refused", "raised", "lost", "done"}
  BY DEF CleanExecution, TypeOK, Process
<1>3. executions'[j] = [executions[j] EXCEPT !.status = "ERROR"] /\ pc'[j] = pc[j]
  BY DEF CleanExecution, TypeOK
<1>4. executions'[j] \in Execution(j)
  BY <1>1, <1>3 DEF Execution, ExecutionStatuses
<1>5. TypeOK'
  BY <1>4 DEF CleanExecution, TypeOK, Execution, Steps
<1>6. Keeps(j)
  BY <1>1, <1>3 DEF Keeps, Execution
<1>7. OnlyJob(j)
  BY DEF CleanExecution, TypeOK, OnlyJob
<1>8. Evidence(j)'
  BY <1>1, <1>3 DEF Evidence, Execution, Failed, Steps
<1>9. ThreadState(j)'
  BY <1>1, <1>2, <1>3 DEF ThreadState, Planning, Execution, IsStale
<1> QED
  BY <1>5, <1>6, <1>7, <1>8, <1>9 DEF JobOK

\* Steps that write no execution and no thread's place, and the crash.
LEMMA ProcessKeepsJobs ==
    ASSUME IInv,
           \/ \E r \in Runs : CreateRun(r) \/ DeleteRun(r)
           \/ Crash \/ Boot \/ Serve
           \/ \E j \in Jobs : CleanRun(j)
           \/ UNCHANGED vars
    PROVE  TypeOK' /\ \A k \in Jobs : JobOK(k)' /\ Keeps(k)
<1> USE DEF IInv, repositories, process
<1>1. UNCHANGED executions
  BY DEF CreateRun, DeleteRun, Crash, Boot, Serve, CleanRun, vars
<1>2. \A k \in Jobs : Keeps(k) /\ Evidence(k)'
  BY <1>1, ExecutionsFrame
<1>3. CASE Crash
  <2>1. TypeOK'
    BY <1>3, JobsAssumption DEF Crash, TypeOK, Execution, Steps
  <2>2. ASSUME NEW k \in Jobs PROVE ThreadState(k)'
    <3>1. pc'[k] = IF pc[k] \in Live THEN "lost" ELSE pc[k]
      BY <1>3 DEF Crash
    <3>2. executions'[k] = executions[k]
      BY <1>1
    <3> QED
      BY <3>1, <3>2 DEF ThreadState, Steps, Failed, Verdict, IsStale, Planning
  <2> QED
    BY <1>2, <2>1, <2>2 DEF JobOK
<1>4. CASE ~Crash
  <2>1. UNCHANGED pc
    BY <1>4 DEF CreateRun, DeleteRun, Boot, Serve, CleanRun, vars
  <2>2. \A k \in Jobs : JobOK(k)'
    BY <1>1, <2>1, JobFrame DEF JobOK
  <2>3. TypeOK'
    <3>1. CASE \E r \in Runs : CreateRun(r) \/ DeleteRun(r)
      BY <3>1 DEF CreateRun, DeleteRun, SetRun, TypeOK, Execution, Steps
    <3>2. CASE Boot \/ Serve
      BY <3>2 DEF Boot, Serve, TypeOK, Execution, Steps
    <3>3. CASE \E j \in Jobs : CleanRun(j)
      BY <3>3, JobsAssumption DEF CleanRun, SetRun, TypeOK, Execution, Steps
    <3>4. CASE UNCHANGED vars
      BY <3>4 DEF vars, TypeOK, Execution, Steps
    <3> QED
      BY <1>4, <3>1, <3>2, <3>3, <3>4
  <2> QED
    BY <1>2, <2>2, <2>3
<1> QED
  BY <1>3, <1>4

\* A step of one job, on its own thread or in the cleanup.
JobStep(j) == PlanLoad(j) \/ Advance(j) \/ Fault(j) \/ CleanExecution(j)

LEMMA JobStepKeepsJob ==
    ASSUME IInv, NEW j \in Jobs, JobStep(j)
    PROVE  TypeOK' /\ JobOK(j)' /\ Keeps(j) /\ OnlyJob(j)
<1>1. CASE PlanLoad(j) \/ PlanStore(j) \/ PlanMark(j) \/ RunLoad(j)
  BY <1>1, PlanningKeepsJob
<1>2. CASE MarkExecution(j) \/ MarkRun(j) \/ StepBegin(j)
  BY <1>2, RunningKeepsJob
<1>3. CASE \E outcome \in {"PASSED", "FAILED"} : StepEnd(j, outcome)
  BY <1>3, StepEndKeepsJob
<1>4. CASE Finish(j) \/ FinishRun(j)
  BY <1>4, FinishKeepsJob
<1>5. CASE Fault(j) \/ ErrorExecution(j) \/ ErrorRun(j) \/ ErrorMark(j)
  BY <1>5, FailingKeepsJob
<1>6. CASE CleanExecution(j)
  BY <1>6, CleanExecutionKeepsJob
<1> QED
  BY <1>1, <1>2, <1>3, <1>4, <1>5, <1>6 DEF JobStep, Advance

LEMMA NextKeepsJobs ==
    ASSUME IInv, [Next]_vars
    PROVE  TypeOK' /\ \A k \in Jobs : JobOK(k)' /\ Keeps(k)
<1>1. ASSUME NEW j \in Jobs, JobStep(j)
      PROVE  TypeOK' /\ \A k \in Jobs : JobOK(k)' /\ Keeps(k)
  <2>1. TypeOK' /\ JobOK(j)' /\ Keeps(j) /\ OnlyJob(j)
    BY <1>1, JobStepKeepsJob
  <2>2. ASSUME NEW k \in Jobs \ {j} PROVE JobOK(k)' /\ Keeps(k)
    BY <2>1, JobFrame DEF OnlyJob, IInv, JobOK
  <2> QED
    BY <2>1, <2>2
<1> QED
  BY <1>1, ProcessKeepsJobs DEF Next, Startup, JobStep

-----------------------------------------------------------------------------
(* The process and the runs.                                               *)

LEMMA NextKeepsProcess ==
    ASSUME IInv, [Next]_vars
    PROVE  Process' /\ StaleHasOwner'
<1> USE DEF IInv, repositories, process, At, Goto
<1>0. TypeOK' /\ \A k \in Jobs : JobOK(k)'
  BY NextKeepsJobs
<1>1. ASSUME NEW j \in Jobs, PlanLoad(j) \/ Advance(j) \/ Fault(j)
      PROVE  Process' /\ StaleHasOwner'
  <2>1. mode = "up" /\ mode' = "up" /\ stale = {} /\ stale' = {}
    BY <1>1 DEF PlanLoad, Advance, Fault, PlanStore, PlanMark, RunLoad, MarkExecution,
       MarkRun, StepBegin, StepEnd, Finish, FinishRun, ErrorExecution, ErrorRun,
       ErrorMark, Process
  <2>2. OnlyJob(j)
    BY <1>1, JobStepKeepsJob DEF JobStep
  <2>3. pc'[j] \in Live \cup {"refused", "raised", "done"}
    BY <1>1 DEF PlanLoad, Advance, Fault, PlanStore, PlanMark, RunLoad, MarkExecution,
       MarkRun, StepBegin, StepEnd, Finish, FinishRun, ErrorExecution, ErrorRun,
       ErrorMark, TypeOK, Live, Planning, Running, Failing
  <2>4. IsStale(j)' => pc'[j] \in Live \cup {"raised"}
    BY <1>0, <2>3 DEF JobOK, ThreadState, IsStale
  <2>5. \A k \in Jobs \ {j} : IsStale(k)' => pc'[k] \in Live \cup {"raised"}
    BY <2>1, <2>2 DEF StaleHasOwner, OnlyJob, IsStale
  <2> QED
    BY <2>1, <2>4, <2>5 DEF Process, StaleHasOwner
<1>2. ASSUME NEW r \in Runs, CreateRun(r) \/ DeleteRun(r)
      PROVE  Process' /\ StaleHasOwner'
  BY <1>2 DEF CreateRun, DeleteRun, Process, StaleHasOwner, IsStale
<1>3. CASE Crash
  BY <1>3 DEF Crash, Process, StaleHasOwner, Live, Planning, Running, Failing
<1>4. CASE Boot
  BY <1>4 DEF Boot, Process, StaleHasOwner, IsStale
<1>5. ASSUME NEW j \in Jobs, CleanExecution(j)
      PROVE  Process' /\ StaleHasOwner'
  <2>1. OnlyJob(j) /\ executions'[j].status = "ERROR"
    BY <1>5, JobStepKeepsJob DEF JobStep, CleanExecution, TypeOK, Execution
  <2>2. mode = "cleanup" /\ mode' = "cleanup" /\ stale' = stale /\ pc' = pc
    BY <1>5 DEF CleanExecution
  <2>3. ASSUME NEW k \in Jobs, IsStale(k)' PROVE k \in stale'
    BY <2>1, <2>2, <2>3 DEF OnlyJob, IsStale, Process
  <2>4. \A k \in stale' : executions'[k].status \in {"QUEUED", "RUNNING", "ERROR"}
    BY <2>1, <2>2 DEF OnlyJob, Process, TypeOK
  <2> QED
    BY <2>2, <2>3, <2>4 DEF Process, StaleHasOwner
<1>6. ASSUME NEW j \in Jobs, CleanRun(j)
      PROVE  Process' /\ StaleHasOwner'
  BY <1>6 DEF CleanRun, HalfClean, Process, StaleHasOwner, IsStale
<1>7. CASE Serve
  BY <1>7 DEF Serve, Process, StaleHasOwner, IsStale
<1>8. CASE UNCHANGED vars
  BY <1>8 DEF vars, Process, StaleHasOwner, IsStale
<1> QED
  BY <1>1, <1>2, <1>3, <1>4, <1>5, <1>6, <1>7, <1>8 DEF Next, Startup

LEMMA NextKeepsRunStatus ==
    ASSUME IInv, [Next]_vars
    PROVE  RunStatusHasEvidence'
<1> USE DEF repositories, process, At, Goto, SetRun
<1>0. TypeOK /\ TypeOK' /\ \A k \in Jobs : JobOK(k)' /\ JobOK(k) /\ Keeps(k)
  BY NextKeepsJobs DEF IInv, JobOK
<1>1. SUFFICES ASSUME NEW r \in Runs PROVE Supported(r, test_runs[r])'
  BY DEF RunStatusHasEvidence
<1>2. CASE test_runs'[r] \in {test_runs[r], "absent", "CONFIGURED"}
  BY <1>0, <1>2, RunStatusKept
<1>3. ASSUME NEW j \in Jobs, PlanMark(j), RunOf[j] = r
      PROVE  Supported(r, test_runs[r])'
  <2>1. test_runs'[r] = "QUEUED" /\ executions'[j].status # "none"
    BY <1>0, <1>3 DEF PlanMark, TypeOK, JobOK, ThreadState
  <2> QED
    BY <1>3, <2>1 DEF Supported, Of
<1>4. ASSUME NEW j \in Jobs, MarkRun(j), RunOf[j] = r
      PROVE  Supported(r, test_runs[r])'
  <2>1. test_runs'[r] = "RUNNING" /\ executions'[j].status = "RUNNING"
    BY <1>0, <1>4 DEF MarkRun, TypeOK, JobOK, ThreadState
  <2> QED
    BY <1>4, <2>1 DEF Supported, Of
<1>5. ASSUME NEW j \in Jobs, FinishRun(j), RunOf[j] = r
      PROVE  Supported(r, test_runs[r])'
  <2>1. /\ test_runs'[r] = Verdict(j) /\ executions' = executions
        /\ executions[j].evaluated /\ executions[j].status = Verdict(j)
    BY <1>0, <1>5 DEF FinishRun, TypeOK, JobOK, ThreadState
  <2>2. (Failed(j)' <=> Failed(j)) /\ executions'[j] = executions[j]
    BY <2>1 DEF Failed
  <2>3. CASE Failed(j)
    BY <1>5, <2>1, <2>2, <2>3 DEF Supported, Of, Verdict
  <2>4. CASE ~Failed(j)
    <3>1. Len(executions[j].results) = Steps(j) /\ test_runs'[r] = "PASSED"
      BY <1>0, <2>1, <2>4 DEF JobOK, Evidence, Verdict
    <3> QED
      BY <1>5, <2>1, <2>2, <2>4, <3>1 DEF Supported, Of, Steps
  <2> QED
    BY <2>3, <2>4
<1>6. ASSUME NEW j \in Jobs, ErrorMark(j), RunOf[j] = r
      PROVE  Supported(r, test_runs[r])'
  <2>1. test_runs'[r] = "FAILED" /\ executions'[j].status = "ERROR"
    BY <1>0, <1>6 DEF ErrorMark, TypeOK, JobOK, ThreadState
  <2> QED
    BY <1>6, <2>1 DEF Supported, Of
<1>7. ASSUME NEW j \in Jobs, CleanRun(j), RunOf[j] = r, test_runs[r] # "absent"
      PROVE  Supported(r, test_runs[r])'
  <2>1. test_runs'[r] = "FAILED" /\ executions'[j].status = "ERROR"
    BY <1>0, <1>7 DEF CleanRun, HalfClean, TypeOK, IInv, Process, IsStale
  <2> QED
    BY <1>7, <2>1 DEF Supported, Of
<1>8. \/ test_runs'[r] \in {test_runs[r], "absent", "CONFIGURED"}
      \/ \E j \in Jobs : RunOf[j] = r /\
            (\/ PlanMark(j) \/ MarkRun(j) \/ FinishRun(j) \/ ErrorMark(j)
             \/ (CleanRun(j) /\ test_runs[r] # "absent"))
  <2>1. ASSUME NEW q \in Runs, CreateRun(q) \/ DeleteRun(q)
        PROVE  test_runs'[r] \in {test_runs[r], "absent", "CONFIGURED"}
    BY <1>0, <2>1 DEF CreateRun, DeleteRun, TypeOK
  <2>2. ASSUME NEW j \in Jobs,
               PlanMark(j) \/ MarkRun(j) \/ FinishRun(j) \/ ErrorMark(j) \/ CleanRun(j)
        PROVE  \/ RunOf[j] = r /\ (CleanRun(j) => test_runs[r] # "absent")
               \/ test_runs'[r] = test_runs[r]
    BY <1>0, <2>2 DEF PlanMark, MarkRun, FinishRun, ErrorMark, CleanRun, TypeOK
  <2>3. ASSUME NEW j \in Jobs,
               \/ PlanLoad(j) \/ Fault(j) \/ PlanStore(j) \/ RunLoad(j) \/ MarkExecution(j)
               \/ StepBegin(j) \/ \E outcome \in {"PASSED", "FAILED"} : StepEnd(j, outcome)
               \/ Finish(j) \/ ErrorExecution(j) \/ ErrorRun(j) \/ CleanExecution(j)
        PROVE  test_runs' = test_runs
    BY <2>3 DEF PlanLoad, Fault, PlanStore, RunLoad, MarkExecution, StepBegin, StepEnd,
       Finish, ErrorExecution, ErrorRun, CleanExecution
  <2>4. ASSUME Crash \/ Boot \/ Serve \/ UNCHANGED vars PROVE test_runs' = test_runs
    BY <2>4 DEF Crash, Boot, Serve, vars
  <2> QED
    BY <2>1, <2>2, <2>3, <2>4 DEF Next, Startup, Advance
<1> QED
  BY <1>2, <1>3, <1>4, <1>5, <1>6, <1>7, <1>8

-----------------------------------------------------------------------------
(* The theorems.                                                           *)

LEMMA InitIInv == Init => IInv
<1> SUFFICES ASSUME Init PROVE IInv
  OBVIOUS
<1> USE DEF Init
<1>1. ASSUME NEW j \in Jobs
      PROVE  /\ executions[j] = NoExecution(j) /\ executions[j] \in Execution(j)
             /\ Len(executions[j].results) = 0 /\ Steps(j) \in Nat
             /\ Evidence(j) /\ ThreadState(j)
  <2>1. executions[j] = NoExecution(j) /\ pc[j] = "new" /\ Steps(j) \in Nat
    BY JobsAssumption DEF Steps
  <2>2. executions[j] \in Execution(j) /\ Len(executions[j].results) = 0
    BY <2>1, EmptySeq DEF NoExecution, Execution, ExecutionStatuses
  <2>3. Evidence(j)
    BY <2>1, <2>2 DEF NoExecution, Evidence
  <2>4. ThreadState(j)
    BY <2>1, <2>2 DEF NoExecution, ThreadState, Planning, IsStale
  <2> QED
    BY <2>1, <2>2, <2>3, <2>4
<1>2. TypeOK
  BY <1>1, EmptySeq, JobsAssumption DEF TypeOK
<1>3. Process /\ StaleHasOwner
  BY <1>1 DEF Process, StaleHasOwner, IsStale, NoExecution
<1>4. RunStatusHasEvidence
  BY DEF RunStatusHasEvidence, Supported
<1> QED
  BY <1>1, <1>2, <1>3, <1>4 DEF IInv

LEMMA NextIInv == IInv /\ [Next]_vars => IInv'
  BY NextKeepsJobs, NextKeepsProcess, NextKeepsRunStatus DEF IInv, JobOK

(* The inductive invariant holds of every reachable state.                 *)
THEOREM OrchestratorInvariant == Spec => []IInv
  BY InitIInv, NextIInv, PTL DEF Spec

(* Crashes and failed writes included, records and threads stay in range.  *)
THEOREM OrchestratorTypeOK == Spec => []TypeOK
<1>1. IInv => TypeOK
  BY DEF IInv
<1> QED
  BY <1>1, OrchestratorInvariant, PTL

(* Whatever is interleaved, crashes or fails, the stored results are those *)
(* of the first steps, fail-fast, and the verdict follows from them.       *)
THEOREM OrchestratorEvidence == Spec => []EvidenceConsistent
<1>1. IInv => EvidenceConsistent
  BY DEF IInv, EvidenceConsistent
<1> QED
  BY <1>1, OrchestratorInvariant, PTL

(* A run's status is always accounted for by one of its executions.        *)
THEOREM OrchestratorRunStatus == Spec => []RunStatusHasEvidence
<1>1. IInv => RunStatusHasEvidence
  BY DEF IInv
<1> QED
  BY <1>1, OrchestratorInvariant, PTL

(* However often the process crashes, in the cleanup too, no execution     *)
(* from before the last restart is QUEUED or RUNNING once it serves again. *)
THEOREM OrchestratorCleanup == Spec => []StaleHasOwner
<1>1. IInv => StaleHasOwner
  BY DEF IInv
<1> QED
  BY <1>1, OrchestratorInvariant, PTL

(* An evaluated execution's evidence is never changed again.               *)
THEOREM OrchestratorEvidenceFrozen == Spec => EvidenceFrozen
<1>1. IInv /\ [Next]_vars =>
        [\A j \in Jobs : executions[j].evaluated =>
            /\ executions'[j].evaluated
            /\ executions'[j].steps = executions[j].steps
            /\ executions'[j].results = executions[j].results]_vars
  BY NextKeepsJobs DEF Keeps
<1> QED
  BY <1>1, OrchestratorInvariant, PTL DEF Spec, EvidenceFrozen

\* The lifecycle's variables, as functions of the stored executions.
State     == [j \in Jobs |-> executions[j].status]
Evaluated == {j \in Jobs : executions[j].evaluated}

LEMMA LifecycleStep ==
    ASSUME IInv, [Next]_vars
    PROVE  [Lifecycle!Next]_<<State, Evaluated>>
<1> USE DEF IInv, repositories, process, At, Goto
<1>0. TypeOK /\ DOMAIN executions = Jobs /\ \A k \in Jobs : executions[k] \in Execution(k)
  BY DEF TypeOK
<1>1. ASSUME NEW j \in Jobs, NEW to,
             executions' = [executions EXCEPT ![j].status = to]
      PROVE  State' = [State EXCEPT ![j] = to] /\ Evaluated' = Evaluated
  <2>1. \A k \in Jobs : /\ executions'[k].status = IF k = j THEN to ELSE executions[k].status
                        /\ executions'[k].evaluated = executions[k].evaluated
    BY <1>0, <1>1 DEF Execution
  <2> QED
    BY <2>1 DEF State, Evaluated
<1>2. ASSUME NEW j \in Jobs, PlanStore(j) PROVE Lifecycle!Plan(j)
  <2>1. State[j] = "none"
    BY <1>2 DEF PlanStore, ThreadState, State
  <2> QED
    BY <1>1, <1>2, <2>1 DEF PlanStore, Lifecycle!Plan, Lifecycle!Move, State, Evaluated
<1>3. ASSUME NEW j \in Jobs, MarkExecution(j) PROVE Lifecycle!Begin(j)
  <2>1. State[j] = "QUEUED"
    BY <1>3 DEF MarkExecution, ThreadState, State
  <2> QED
    BY <1>1, <1>3, <2>1 DEF MarkExecution, Lifecycle!Begin, Lifecycle!Move, State, Evaluated
<1>4. ASSUME NEW j \in Jobs, Finish(j) PROVE Lifecycle!Conclude(j)
  <2>1. State[j] = "RUNNING" /\ Verdict(j) \in {"PASSED", "FAILED"}
    BY <1>4 DEF Finish, ThreadState, State, Verdict
  <2>2. \A k \in Jobs :
          /\ executions'[k].status = IF k = j THEN Verdict(j) ELSE executions[k].status
          /\ executions'[k].evaluated = IF k = j THEN TRUE ELSE executions[k].evaluated
    BY <1>0, <1>4 DEF Finish, Execution
  <2>3. State' = [State EXCEPT ![j] = Verdict(j)] /\ Evaluated' = Evaluated \cup {j}
    BY <2>2 DEF State, Evaluated
  <2> QED
    BY <2>1, <2>3 DEF Lifecycle!Conclude, Lifecycle!Move, State, Evaluated
<1>5. ASSUME NEW j \in Jobs, ErrorExecution(j) PROVE Lifecycle!GiveUp(j)
  <2>1. State[j] \in {"QUEUED", "RUNNING", "PASSED", "FAILED"}
    BY <1>5 DEF ErrorExecution, ThreadState, State
  <2> QED
    BY <1>1, <1>5, <2>1 DEF ErrorExecution, Lifecycle!GiveUp, Lifecycle!Move, State, Evaluated
<1>6. ASSUME NEW j \in Jobs, CleanExecution(j) PROVE Lifecycle!GiveUp(j)
  <2>1. State[j] \in {"QUEUED", "RUNNING"}
    BY <1>6 DEF CleanExecution, HalfClean, IsStale, State
  <2> QED
    BY <1>1, <1>6, <2>1 DEF CleanExecution, Lifecycle!GiveUp, Lifecycle!Move, State, Evaluated
<1>7. ASSUME NEW j \in Jobs,
             StepBegin(j) \/ \E outcome \in {"PASSED", "FAILED"} : StepEnd(j, outcome)
      PROVE  UNCHANGED <<State, Evaluated>>
  <2>1. ASSUME NEW k \in Jobs
        PROVE  /\ executions'[k].status = executions[k].status
               /\ executions'[k].evaluated = executions[k].evaluated
    <3>1. CASE StepBegin(j)
      BY <1>0, <3>1 DEF StepBegin, Execution
    <3>2. ASSUME NEW outcome \in {"PASSED", "FAILED"}, StepEnd(j, outcome)
          PROVE  /\ executions'[k].status = executions[k].status
                 /\ executions'[k].evaluated = executions[k].evaluated
      <4>1. CASE k # j
        BY <1>0, <3>2, <4>1 DEF StepEnd
      <4>2. CASE k = j
        BY <1>0, <3>2, <4>2 DEF StepEnd, Execution
      <4> QED
        BY <4>1, <4>2
    <3> QED
      BY <1>7, <3>1, <3>2
  <2> QED
    BY <2>1 DEF State, Evaluated
<1>8. CASE UNCHANGED executions
  BY <1>8 DEF State, Evaluated
<1>9. \/ UNCHANGED executions
      \/ \E j \in Jobs :
           \/ PlanStore(j) \/ MarkExecution(j) \/ StepBegin(j)
           \/ \E outcome \in {"PASSED", "FAILED"} : StepEnd(j, outcome)
           \/ Finish(j) \/ ErrorExecution(j) \/ CleanExecution(j)
  BY DEF Next, Startup, Advance, CreateRun, DeleteRun, PlanLoad, PlanMark, RunLoad, MarkRun,
     FinishRun, Fault, ErrorRun, ErrorMark, Crash, Boot, CleanRun, Serve, vars
<1> QED
  BY <1>2, <1>3, <1>4, <1>5, <1>6, <1>7, <1>8, <1>9 DEF Lifecycle!Next

(* The stored executions implement the lifecycle clients may rely on.      *)
THEOREM OrchestratorImplementsLifecycle == Spec => RefinesLifecycle
<1>1. Init => Lifecycle!Init
  BY DEF Init, Lifecycle!Init, NoExecution
<1>2. IInv /\ [Next]_vars => [Lifecycle!Next]_<<State, Evaluated>>
  BY LifecycleStep
<1> QED
  BY <1>1, <1>2, OrchestratorInvariant, PTL
     DEF Spec, RefinesLifecycle, Lifecycle!Spec, State, Evaluated

-----------------------------------------------------------------------------
(* A run that is executed once.                                            *)

\* The file has a key for each stored execution, and one only.
Filed ==
    /\ \A i \in 1..Len(order) : executions[order[i]].status # "none"
    /\ \A j \in Jobs : executions[j].status # "none" => \E i \in 1..Len(order) : order[i] = j
    /\ \A i, k \in 1..Len(order) : order[i] = order[k] => i = k

\* A run that was planned for is there or was deleted.
HadRun(j) ==
    \/ pc[j] \in {"new", "refused"}
    \/ test_runs[RunOf[j]] # "absent" \/ RunOf[j] \in deleted

Calm(j) == crashes = 0 /\ faults = 0 /\ RunOf[j] \notin deleted

\* Nothing else can send a thread to the error handler.
Smooth(j) == Calm(j) => pc[j] \notin {"raised", "lost"} \cup Failing

Alone(j) == \A k \in Of(RunOf[j]) \ {j} : executions[k].status = "none"

Mirrored(j) ==
    pc[j] = "done" /\ Calm(j) /\ Alone(j) =>
        /\ test_runs[RunOf[j]] = executions[j].status
        /\ executions[j].status \in {"PASSED", "FAILED"}

AloneInv ==
    /\ crashes = 0 => mode = "up"
    /\ Filed
    /\ \A j \in Jobs : HadRun(j) /\ Smooth(j) /\ Mirrored(j)

\* What a thread's step and any other step leave alone.
ThreadStep(j) == PlanLoad(j) \/ Advance(j) \/ Fault(j)

Written(j) == PlanMark(j) \/ MarkRun(j) \/ FinishRun(j) \/ ErrorMark(j)

LEMMA ThreadFrame ==
    ASSUME NEW j \in Jobs, ThreadStep(j)
    PROVE  /\ mode = "up" /\ UNCHANGED <<deleted, mode, stale, crashes>>
           /\ PlanStore(j) \/ UNCHANGED order
           /\ Fault(j) \/ UNCHANGED faults
           /\ Written(j) \/ UNCHANGED test_runs
<1> USE DEF repositories, process, At, Written
<1>1. CASE PlanLoad(j) \/ PlanStore(j) \/ PlanMark(j) \/ RunLoad(j)
  BY <1>1 DEF PlanLoad, PlanStore, PlanMark, RunLoad
<1>2. CASE MarkExecution(j) \/ MarkRun(j) \/ StepBegin(j)
  BY <1>2 DEF MarkExecution, MarkRun, StepBegin
<1>3. ASSUME NEW outcome \in {"PASSED", "FAILED"}, StepEnd(j, outcome)
      PROVE  mode = "up" /\ UNCHANGED <<deleted, mode, stale, crashes, order, faults, test_runs>>
  BY <1>3 DEF StepEnd
<1>4. CASE Finish(j) \/ FinishRun(j)
  BY <1>4 DEF Finish, FinishRun
<1>5. CASE ErrorExecution(j) \/ ErrorRun(j) \/ ErrorMark(j)
  BY <1>5 DEF ErrorExecution, ErrorRun, ErrorMark
<1>6. CASE Fault(j)
  BY <1>6 DEF Fault
<1> HIDE DEF repositories, process, At, Written
<1> QED
  BY <1>1, <1>2, <1>3, <1>4, <1>5, <1>6 DEF ThreadStep, Advance

LEMMA OtherFrame ==
    ASSUME [Next]_vars, \A j \in Jobs : ~ThreadStep(j)
    PROVE  /\ UNCHANGED <<order, faults>> /\ deleted \subseteq deleted'
           /\ Crash \/ (UNCHANGED crashes /\ (mode = "up" => mode' = "up"))
           /\ \/ \E r \in Runs : CreateRun(r) \/ DeleteRun(r)
              \/ \E j \in Jobs : CleanRun(j)
              \/ UNCHANGED test_runs
<1> USE DEF repositories, process
<1>1. CASE \E r \in Runs : CreateRun(r) \/ DeleteRun(r)
  BY <1>1 DEF CreateRun, DeleteRun
<1>2. CASE Crash \/ Boot \/ Serve
  BY <1>2 DEF Crash, Boot, Serve
<1>3. CASE \E j \in Jobs : CleanExecution(j)
  BY <1>3 DEF CleanExecution
<1>4. CASE \E j \in Jobs : CleanRun(j)
  BY <1>4 DEF CleanRun
<1>5. CASE UNCHANGED vars
  BY <1>5 DEF vars
<1> HIDE DEF repositories, process
<1> QED
  BY <1>1, <1>2, <1>3, <1>4, <1>5 DEF Next, Startup, ThreadStep

\* Only plan_execution() adds a record or a key.
LEMMA OnlyPlanningFiles ==
    ASSUME IInv, [Next]_vars, \A j \in Jobs : ~PlanStore(j)
    PROVE  /\ UNCHANGED order
           /\ \A k \in Jobs : executions'[k].status = "none" <=> executions[k].status = "none"
<1> USE DEF repositories, process, At, Goto
<1>1. UNCHANGED order
  BY ThreadFrame, OtherFrame
<1>2. ASSUME NEW k \in Jobs, executions[k].status = "none"
      PROVE  executions'[k] = executions[k]
  <2>1. ThreadState(k) /\ Process
    BY DEF IInv
  <2>2. pc[k] \in {"new", "refused", "plan_store", "raised", "lost"} /\ k \notin stale
    BY <1>2, <2>1 DEF ThreadState, Process
  <2>3. CASE \E j \in Jobs : JobStep(j)
    <3>1. PICK j \in Jobs : JobStep(j)
      BY <2>3
    <3>2. CASE j # k
      BY <3>1, <3>2, JobStepKeepsJob DEF OnlyJob
    <3>3. CASE j = k
      BY <2>2, <3>1, <3>3 DEF JobStep, Advance, PlanLoad, PlanMark, RunLoad, MarkExecution,
         MarkRun, StepBegin, StepEnd, Finish, FinishRun, Fault, ErrorExecution, ErrorRun,
         ErrorMark, CleanExecution
    <3> QED
      BY <3>2, <3>3
  <2>4. CASE ~\E j \in Jobs : JobStep(j)
    BY <2>4 DEF Next, Startup, JobStep, CreateRun, DeleteRun, Crash, Boot, CleanRun, Serve, vars
  <2> QED
    BY <2>3, <2>4
<1>3. \A k \in Jobs : executions[k].status # "none" => executions'[k].status # "none"
  BY NextKeepsJobs DEF Keeps
<1> QED
  BY <1>1, <1>2, <1>3

LEMMA FiledKept ==
    ASSUME IInv, [Next]_vars, Filed
    PROVE  Filed'
<1>0. order \in Seq(Jobs) /\ Len(order) \in Nat /\ \A i \in 1..Len(order) : order[i] \in Jobs
  BY LenProperties, ElementOfSeq DEF IInv, TypeOK
<1>1. CASE \A j \in Jobs : ~PlanStore(j)
  <2>1. /\ order' = order
        /\ \A k \in Jobs : executions'[k].status = "none" <=> executions[k].status = "none"
    BY <1>1, OnlyPlanningFiles
  <2> QED
    BY <1>0, <2>1 DEF Filed
<1>2. ASSUME NEW j \in Jobs, PlanStore(j) PROVE Filed'
  <2>1. order' = Append(order, j) /\ executions[j].status = "none"
    BY <1>2 DEF PlanStore, At, IInv, ThreadState
  <2>2. /\ Len(order') = Len(order) + 1 /\ order'[Len(order) + 1] = j
        /\ \A i \in 1..Len(order) : order'[i] = order[i]
    BY <1>0, <2>1, AppendProperties
  <2>3. /\ executions'[j].status # "none"
        /\ \A k \in Jobs \ {j} : executions'[k] = executions[k]
    <3>1. executions'[j].status = "QUEUED"
      BY <1>2 DEF PlanStore, IInv, TypeOK, Execution
    <3> QED
      BY <1>2, <3>1, JobStepKeepsJob DEF OnlyJob, JobStep, Advance
  <2>4. \A i \in 1..Len(order) : order[i] # j
    BY <2>1 DEF Filed
  <2>5. \A i \in 1..(Len(order) + 1) : i \in 1..Len(order) \/ i = Len(order) + 1
    BY <1>0
  <2>6. \A i \in 1..Len(order) : i \in 1..(Len(order) + 1)
    BY <1>0
  <2>7. Len(order) + 1 \in 1..(Len(order) + 1)
    BY <1>0
  <2>8. \A i \in 1..(Len(order) + 1) : executions'[order'[i]].status # "none"
    BY <1>0, <2>2, <2>3, <2>4, <2>5 DEF Filed
  <2>9. ASSUME NEW k \in Jobs, executions'[k].status # "none"
        PROVE  \E i \in 1..(Len(order) + 1) : order'[i] = k
    BY <2>2, <2>3, <2>6, <2>7, <2>9 DEF Filed
  <2>10. \A i, k \in 1..(Len(order) + 1) : order'[i] = order'[k] => i = k
    BY <2>2, <2>4, <2>5 DEF Filed
  <2> QED
    BY <2>2, <2>8, <2>9, <2>10 DEF Filed
<1> QED
  BY <1>1, <1>2

\* What was deleted stays so marked, a run goes by deletion only, and calm is
\* no crash and no fault so far.
LEMMA CalmBefore ==
    ASSUME IInv, [Next]_vars, NEW j \in Jobs
    PROVE  /\ deleted \subseteq deleted'
           /\ test_runs'[RunOf[j]] = "absent" =>
                 test_runs[RunOf[j]] = "absent" \/ RunOf[j] \in deleted'
           /\ crashes' = 0 => crashes = 0 /\ ~Crash
           /\ Calm(j)' => Calm(j) /\ ~Crash /\ \A k \in Jobs : ~Fault(k)
<1> USE DEF repositories, process, At, Goto, SetRun
<1>0. TypeOK /\ RunOf \in [Jobs -> Runs] /\ RunOf[j] \in Runs
  BY JobsAssumption DEF IInv
<1>1. deleted \subseteq deleted'
  BY ThreadFrame, OtherFrame
<1>2. crashes \in Nat /\ faults \in Nat
  BY <1>0, JobsAssumption DEF TypeOK
<1>3. crashes' = 0 => crashes = 0 /\ ~Crash
  <2>1. CASE Crash
    BY <1>2, <2>1 DEF Crash
  <2>2. CASE ~Crash
    <3>1. UNCHANGED crashes
      BY <2>2, ThreadFrame, OtherFrame
    <3> QED
      BY <2>2, <3>1
  <2> QED
    BY <2>1, <2>2
<1>4. faults' = 0 => faults = 0 /\ \A k \in Jobs : ~Fault(k)
  <2>1. CASE \E k \in Jobs : Fault(k)
    BY <1>2, <2>1 DEF Fault
  <2>2. CASE \A k \in Jobs : ~Fault(k)
    <3>1. UNCHANGED faults
      BY <2>2, ThreadFrame, OtherFrame
    <3> QED
      BY <2>2, <3>1
  <2> QED
    BY <2>1, <2>2
<1>5. test_runs'[RunOf[j]] = "absent" =>
        test_runs[RunOf[j]] = "absent" \/ RunOf[j] \in deleted'
  <2>1. ASSUME NEW k \in Jobs, Written(k) \/ CleanRun(k)
        PROVE  test_runs'[RunOf[j]] = test_runs[RunOf[j]] \/ test_runs'[RunOf[j]] # "absent"
    BY <1>0, <2>1, JobsAssumption
       DEF TypeOK, Written, PlanMark, MarkRun, FinishRun, Verdict, ErrorMark, CleanRun
  <2>2. ASSUME NEW r \in Runs, CreateRun(r) \/ DeleteRun(r)
        PROVE  test_runs'[RunOf[j]] = "absent" =>
                 test_runs[RunOf[j]] = "absent" \/ RunOf[j] \in deleted'
    BY <1>0, <2>2 DEF TypeOK, CreateRun, DeleteRun
  <2> QED
    BY <2>1, <2>2, ThreadFrame, OtherFrame
<1> QED
  BY <1>1, <1>3, <1>4, <1>5 DEF Calm

LEMMA AloneBefore ==
    ASSUME IInv, [Next]_vars, NEW j \in Jobs, Alone(j)'
    PROVE  Alone(j)
<1>1. \A k \in Jobs : executions[k].status # "none" => executions'[k].status # "none"
  BY NextKeepsJobs DEF Keeps
<1> QED
  BY <1>1 DEF Alone, Of

\* How the places of a thread follow each other while all is calm.
LEMMA CalmThread ==
    ASSUME IInv, AloneInv, [Next]_vars, NEW j \in Jobs
    PROVE  HadRun(j)' /\ Smooth(j)'
<1> USE DEF repositories, process, At, Goto
<1>0. TypeOK /\ HadRun(j) /\ Smooth(j)
  BY DEF IInv, AloneInv
<1>1. CASE pc'[j] = pc[j]
  BY <1>0, <1>1, CalmBefore DEF HadRun, Smooth
<1>2. CASE pc'[j] # pc[j]
  <2>1. CASE Crash
    BY <1>0, <1>2, <2>1, CalmBefore DEF HadRun, Smooth, Crash, Live, Planning, Running, Failing
  <2>2. CASE \E k \in Jobs : JobStep(k)
    <3>1. PICK k \in Jobs : JobStep(k)
      BY <2>2
    <3>2. k = j
      BY <1>2, <3>1, JobStepKeepsJob DEF OnlyJob
    <3>3. HadRun(j)'
      <4>1. CASE pc[j] \in {"new", "refused"}
        <5>1. PlanLoad(j)
          BY <1>0, <1>2, <3>1, <3>2, <4>1 DEF JobStep, Advance, PlanStore, PlanMark, RunLoad,
             MarkExecution, MarkRun, StepBegin, StepEnd, Finish, FinishRun, Fault,
             ErrorExecution, ErrorRun, ErrorMark, CleanExecution, Planning, Running, Failing
        <5>2. pc'[j] = "refused" \/ test_runs'[RunOf[j]] # "absent"
          BY <1>0, <5>1 DEF PlanLoad, TypeOK
        <5> QED
          BY <5>2 DEF HadRun
      <4>2. CASE pc[j] \notin {"new", "refused"}
        BY <1>0, <4>2, CalmBefore DEF HadRun
      <4> QED
        BY <4>1, <4>2
    <3>4. ASSUME Calm(j)' PROVE pc'[j] \notin {"raised", "lost"} \cup Failing
      <4>1. Calm(j) /\ ~Fault(j) /\ pc[j] \notin {"raised", "lost"} \cup Failing
        BY <1>0, <3>4, CalmBefore DEF Smooth
      <4>2. CASE RunLoad(j)
        <5>1. test_runs[RunOf[j]] # "absent"
          BY <1>0, <4>1, <4>2 DEF RunLoad, HadRun, Calm
        <5> QED
          BY <1>0, <4>2, <5>1 DEF RunLoad, TypeOK, Failing
      <4>3. CASE ~RunLoad(j)
        BY <1>0, <1>2, <3>1, <3>2, <4>1, <4>3 DEF TypeOK, JobStep, Advance, PlanLoad, PlanStore,
           PlanMark, MarkExecution, MarkRun, StepBegin, StepEnd, Finish, FinishRun,
           ErrorExecution, ErrorRun, ErrorMark, CleanExecution, Failing
      <4> QED
        BY <4>2, <4>3
    <3> QED
      BY <3>3, <3>4 DEF Smooth
  <2>3. CASE ~Crash /\ ~\E k \in Jobs : JobStep(k)
    BY <1>2, <2>3 DEF Next, Startup, JobStep, CreateRun, DeleteRun, Boot, CleanRun, Serve, vars
  <2> QED
    BY <2>1, <2>2, <2>3
<1> QED
  BY <1>1, <1>2

\* Nobody else writes the run of an execution that is alone.
LEMMA MirrorKept ==
    ASSUME IInv, AloneInv, [Next]_vars, NEW j \in Jobs
    PROVE  Mirrored(j)'
<1> USE DEF repositories, process, At, Goto, SetRun
<1> SUFFICES ASSUME pc'[j] = "done", Calm(j)', Alone(j)'
             PROVE  /\ test_runs'[RunOf[j]] = executions'[j].status
                    /\ executions'[j].status \in {"PASSED", "FAILED"}
  BY DEF Mirrored
<1>0. TypeOK /\ Process /\ HadRun(j) /\ Smooth(j) /\ Mirrored(j) /\ \A k \in Jobs : ThreadState(k)
  BY DEF IInv, AloneInv
<1>1. Calm(j) /\ Alone(j) /\ ~Crash /\ mode = "up" /\ RunOf[j] \notin deleted'
  BY CalmBefore, AloneBefore DEF AloneInv, Calm
<1>2. pc[j] \notin {"raised", "lost"} \cup Failing
  BY <1>0, <1>1 DEF Smooth
<1>3. CASE pc[j] = "done"
  <2>1. /\ test_runs[RunOf[j]] = executions[j].status
        /\ executions[j].status \in {"PASSED", "FAILED"}
    BY <1>0, <1>1, <1>3 DEF Mirrored
  <2>2. ~JobStep(j) /\ ~CleanRun(j)
    BY <1>1, <1>3 DEF JobStep, Advance, PlanLoad, PlanStore, PlanMark, RunLoad, MarkExecution,
       MarkRun, StepBegin, StepEnd, Finish, FinishRun, Fault, ErrorExecution, ErrorRun,
       ErrorMark, CleanExecution, CleanRun, Planning, Running, Failing
  <2>3. executions'[j] = executions[j]
    <3>1. ASSUME NEW k \in Jobs, JobStep(k) PROVE executions'[j] = executions[j]
      BY <2>2, <3>1, JobStepKeepsJob DEF OnlyJob
    <3> QED
      BY <3>1 DEF Next, Startup, JobStep, CreateRun, DeleteRun, Crash, Boot, CleanRun, Serve, vars
  <2>4. test_runs'[RunOf[j]] = test_runs[RunOf[j]]
    <3>1. ASSUME NEW k \in Jobs, RunOf[k] = RunOf[j],
                 PlanMark(k) \/ MarkRun(k) \/ FinishRun(k) \/ ErrorMark(k)
          PROVE  FALSE
      <4>1. k # j
        BY <2>2, <3>1 DEF JobStep, Advance
      <4>2. executions[k].status # "none"
        BY <1>0, <3>1 DEF PlanMark, MarkRun, FinishRun, ErrorMark, ThreadState
      <4> QED
        BY <1>1, <3>1, <4>1, <4>2 DEF Alone, Of
    <3>2. ASSUME NEW k \in Jobs, RunOf[k] # RunOf[j],
                 PlanMark(k) \/ MarkRun(k) \/ FinishRun(k) \/ ErrorMark(k)
          PROVE  test_runs'[RunOf[j]] = test_runs[RunOf[j]]
      BY <1>0, <3>2, JobsAssumption DEF TypeOK, PlanMark, MarkRun, FinishRun, ErrorMark
    <3>3. ASSUME NEW r \in Runs, CreateRun(r) \/ DeleteRun(r)
          PROVE  test_runs'[RunOf[j]] = test_runs[RunOf[j]]
      <4>1. r # RunOf[j]
        BY <1>1, <2>1, <3>3 DEF CreateRun, DeleteRun
      <4> QED
        BY <1>0, <3>3, <4>1, JobsAssumption DEF TypeOK, CreateRun, DeleteRun
    <3>4. \A k \in Jobs : ~CleanRun(k)
      BY <1>1 DEF CleanRun
    <3> QED
      BY <3>1, <3>2, <3>3, <3>4, ThreadFrame, OtherFrame DEF Written
  <2> QED
    BY <2>1, <2>3, <2>4
<1>4. CASE pc[j] # "done"
  <2>1. \E k \in Jobs : JobStep(k)
    BY <1>1, <1>4 DEF Next, Startup, JobStep, CreateRun, DeleteRun, Boot, CleanRun, Serve, vars
  <2>2. JobStep(j)
    BY <1>4, <2>1, JobStepKeepsJob DEF OnlyJob
  <2>3. FinishRun(j)
    BY <1>0, <1>1, <1>2, <1>4, <2>2 DEF TypeOK, JobStep, Advance, PlanLoad, PlanStore, PlanMark,
       RunLoad, MarkExecution, MarkRun, StepBegin, StepEnd, Finish, Fault, ErrorExecution,
       ErrorRun, ErrorMark, CleanExecution, Failing
  <2>4. /\ test_runs'[RunOf[j]] = Verdict(j) /\ executions' = executions
        /\ executions[j].status = Verdict(j)
    BY <1>0, <2>3, JobsAssumption DEF FinishRun, TypeOK, ThreadState
  <2> QED
    BY <2>4 DEF Verdict
<1> QED
  BY <1>3, <1>4

LEMMA AloneInvHolds == Spec => []AloneInv
<1>1. Init => AloneInv
  BY EmptySeq DEF Init, AloneInv, Filed, HadRun, Smooth, Mirrored, Failing, NoExecution
<1>2. IInv /\ AloneInv /\ [Next]_vars => AloneInv'
  <2> SUFFICES ASSUME IInv, AloneInv, [Next]_vars PROVE AloneInv'
    OBVIOUS
  <2>1. (crashes = 0 => mode = "up")'
    <3>1. crashes' = 0 => crashes = 0 /\ ~Crash /\ mode = "up"
      <4>1. CASE Crash
        BY <4>1, JobsAssumption DEF Crash, IInv, TypeOK
      <4>2. CASE ~Crash
        <5>1. UNCHANGED crashes
          BY <4>2, ThreadFrame, OtherFrame
        <5> QED
          BY <4>2, <5>1 DEF AloneInv
      <4> QED
        BY <4>1, <4>2
    <3>2. mode = "up" /\ ~Crash => mode' = "up"
      BY ThreadFrame, OtherFrame
    <3> QED
      BY <3>1, <3>2
  <2>2. Filed'
    BY FiledKept DEF AloneInv
  <2>3. \A j \in Jobs : HadRun(j)' /\ Smooth(j)' /\ Mirrored(j)'
    BY CalmThread, MirrorKept
  <2> QED
    BY <2>1, <2>2, <2>3 DEF AloneInv
<1> QED
  BY <1>1, <1>2, OrchestratorInvariant, PTL DEF Spec

LEMMA AloneIsMirrored == IInv /\ AloneInv => MirrorsWhenAlone
<1> SUFFICES ASSUME IInv, AloneInv, NEW r \in Runs, Settled(r),
                    Cardinality(Planned(r)) = 1, r \notin deleted, crashes = 0, faults = 0
             PROVE  test_runs[r] = Mirror(executions[Latest(r)].status)
  BY DEF MirrorsWhenAlone
<1> DEFINE n == Len(order)
           keys == {order[i] : i \in 1..n}
<1>1. order \in Seq(Jobs) /\ n \in Nat /\ \A i \in 1..n : order[i] \in Jobs
  BY LenProperties, ElementOfSeq DEF IInv, TypeOK
<1>2. IsFiniteSet(Planned(r))
  <2>1. order \in Surjection(1..n, keys)
    <3>1. order \in [1..n -> keys]
      BY <1>1, LenProperties
    <3> QED
      BY <3>1 DEF Surjection
  <2>2. IsFiniteSet(keys)
    BY <1>1, <2>1, FS_Interval, FS_Surjection
  <2>3. Planned(r) \subseteq keys
    BY DEF Planned, Of, AloneInv, Filed
  <2> QED
    BY <2>2, <2>3, FS_Subset
<1>3. PICK j : Planned(r) = {j}
  BY <1>2, FS_Singleton
<1>4. j \in Jobs /\ RunOf[j] = r /\ executions[j].status # "none" /\ Alone(j)
  BY <1>3 DEF Planned, Alone, Of
<1>5. Latest(r) = j
  <2>1. PICK i \in 1..n : order[i] = j
    BY <1>4 DEF AloneInv, Filed
  <2>2. \A k \in 1..n : RunOf[order[k]] = r => k = i
    <3>1. ASSUME NEW k \in 1..n, RunOf[order[k]] = r PROVE k = i
      <4>1. order[k] \in Planned(r)
        BY <1>1, <3>1 DEF AloneInv, Filed, Planned, Of
      <4> QED
        BY <1>3, <2>1, <4>1 DEF AloneInv, Filed
    <3> QED
      BY <3>1
  <2>3. RunOf[order[i]] = r /\ \A k \in 1..n : RunOf[order[k]] = r => k <= i
    BY <1>1, <1>4, <2>1, <2>2
  <2>4. (CHOOSE l \in 1..n : /\ RunOf[order[l]] = r
                             /\ \A k \in 1..n : RunOf[order[k]] = r => k <= l) = i
    BY <2>2, <2>3
  <2> QED
    BY <2>1, <2>4 DEF Latest
<1>6. pc[j] = "done"
  <2>1. pc[j] \notin Live
    BY <1>4 DEF Settled, Of
  <2>2. pc[j] \notin {"raised", "lost"}
    BY <1>4 DEF AloneInv, Smooth, Calm
  <2>3. pc[j] \notin {"new", "refused"}
    BY <1>4 DEF IInv, ThreadState
  <2> QED
    BY <1>4, <2>1, <2>2, <2>3 DEF IInv, TypeOK
<1>7. test_runs[r] = executions[j].status /\ executions[j].status \in {"PASSED", "FAILED"}
  BY <1>4, <1>6 DEF AloneInv, Mirrored, Calm
<1> QED
  BY <1>5, <1>7 DEF Mirror

(* Whatever else goes on, a run executed once without a crash, an error or *)
(* a deletion ends with the status of that execution.                      *)
THEOREM OrchestratorMirrorsWhenAlone == Spec => []MirrorsWhenAlone
  BY AloneInvHolds, AloneIsMirrored, OrchestratorInvariant, PTL

-----------------------------------------------------------------------------
(* A run that is gone.                                                     *)

\* The places from which a thread may yet store its run without reading it.
Storing == Planning \cup Running \cup {"error_mark"}

Gone(r) ==
    /\ r \in deleted /\ test_runs[r] = "absent"
    /\ \A j \in Of(r) : pc[j] \notin Storing

\* A thread that is not at such a place does not get there: it reads the run
\* first, and the run is not there.
LEMMA GoneThread ==
    ASSUME IInv, NEW r \in Runs, Gone(r), NEW j \in Of(r), ThreadStep(j)
    PROVE  ~Written(j) /\ pc'[j] \notin Storing
<1> USE DEF At, Goto, Storing, Planning, Running, Failing
<1>1. j \in Jobs /\ RunOf[j] = r /\ pc[j] \notin Storing /\ test_runs[r] = "absent"
  BY DEF Gone, Of
<1>2. pc \in [Jobs -> Live \cup {"new", "refused", "raised", "lost", "done"}]
  BY DEF IInv, TypeOK
<1>3. ~Written(j)
  BY <1>1 DEF Written, PlanMark, MarkRun, FinishRun, ErrorMark
<1>4. PlanLoad(j) \/ RunLoad(j) \/ ErrorExecution(j) \/ ErrorRun(j) \/ Fault(j)
  <2>1. /\ ~PlanStore(j) /\ ~MarkExecution(j) /\ ~StepBegin(j) /\ ~Finish(j)
        /\ \A outcome \in {"PASSED", "FAILED"} : ~StepEnd(j, outcome)
    BY <1>1 DEF PlanStore, MarkExecution, StepBegin, StepEnd, Finish
  <2> QED
    BY <1>3, <2>1 DEF ThreadStep, Advance, Written
<1>5. pc'[j] \notin Storing
  <2>1. CASE PlanLoad(j)
    BY <1>1, <1>2, <2>1 DEF PlanLoad
  <2>2. CASE RunLoad(j)
    BY <1>1, <1>2, <2>2 DEF RunLoad
  <2>3. CASE ErrorExecution(j)
    BY <1>1, <1>2, <2>3 DEF ErrorExecution
  <2>4. CASE ErrorRun(j)
    BY <1>1, <1>2, <2>4 DEF ErrorRun
  <2>5. CASE Fault(j)
    BY <1>1, <1>2, <2>5 DEF Fault
  <2> QED
    BY <1>4, <2>1, <2>2, <2>3, <2>4, <2>5
<1> QED
  BY <1>3, <1>5

LEMMA GoneKept ==
    ASSUME IInv, [Next]_vars, NEW r \in Runs, Gone(r)
    PROVE  Gone(r)'
<1>0. TypeOK /\ r \in deleted /\ test_runs[r] = "absent" /\ RunOf \in [Jobs -> Runs]
  BY JobsAssumption DEF IInv, Gone
<1>1. ASSUME NEW j \in Jobs, ThreadStep(j) PROVE Gone(r)'
  <2>1. deleted' = deleted /\ (Written(j) \/ test_runs' = test_runs)
    BY <1>1, ThreadFrame
  <2>2. \A k \in Jobs \ {j} : pc'[k] = pc[k]
    BY <1>1, JobStepKeepsJob DEF ThreadStep, JobStep, OnlyJob
  <2>3. CASE RunOf[j] = r
    <3>1. ~Written(j) /\ pc'[j] \notin Storing
      BY <1>1, <2>3, GoneThread DEF Of
    <3> QED
      BY <1>0, <2>1, <2>2, <3>1 DEF Gone, Of
  <2>4. CASE RunOf[j] # r
    <3>1. test_runs'[r] = test_runs[r]
      <4>1. CASE Written(j)
        BY <1>0, <2>4, <4>1 DEF TypeOK, Written, PlanMark, MarkRun, FinishRun, ErrorMark, SetRun
      <4>2. CASE test_runs' = test_runs
        BY <4>2
      <4> QED
        BY <2>1, <4>1, <4>2
    <3>2. \A k \in Of(r) : pc'[k] = pc[k]
      BY <2>2, <2>4 DEF Of
    <3> QED
      BY <1>0, <2>1, <3>1, <3>2 DEF Gone, Of
  <2> QED
    BY <2>3, <2>4
<1>2. CASE \A j \in Jobs : ~ThreadStep(j)
  <2>1. deleted \subseteq deleted'
    BY <1>2, OtherFrame
  <2>2. test_runs'[r] = "absent"
    <3>1. ASSUME NEW q \in Runs, CreateRun(q) \/ DeleteRun(q) PROVE test_runs'[r] = "absent"
      BY <1>0, <3>1 DEF TypeOK, CreateRun, DeleteRun, SetRun
    <3>2. ASSUME NEW j \in Jobs, CleanRun(j) PROVE test_runs'[r] = "absent"
      BY <1>0, <3>2 DEF TypeOK, CleanRun, SetRun
    <3> QED
      BY <1>0, <1>2, <3>1, <3>2, OtherFrame
  <2>3. \A j \in Of(r) : pc'[j] \notin Storing
    <3>1. \A j \in Jobs : pc'[j] = pc[j] \/ pc'[j] = "lost"
      <4>1. CASE Crash
        BY <1>0, <4>1 DEF TypeOK, Crash
      <4>2. ASSUME NEW q \in Runs, CreateRun(q) \/ DeleteRun(q) PROVE pc' = pc
        BY <4>2 DEF CreateRun, DeleteRun
      <4>3. CASE Startup
        BY <4>3 DEF Startup, Boot, CleanExecution, CleanRun, Serve
      <4>4. CASE UNCHANGED vars
        BY <4>4 DEF vars
      <4> QED
        BY <1>2, <4>1, <4>2, <4>3, <4>4 DEF Next, ThreadStep
    <3> QED
      BY <3>1 DEF Gone, Of, Storing, Planning, Running
  <2> QED
    BY <1>0, <2>1, <2>2, <2>3 DEF Gone, Of
<1> QED
  BY <1>1, <1>2

(* A deleted run stays deleted from the moment on at which no thread is    *)
(* between reading it and storing it: a queued execution that starts later *)
(* ends with an error, and neither its handler nor a restart brings the    *)
(* run back.  Before that moment the code does bring it back               *)
(* (orchestrator.py:89-179; async_runner.py:84-92,113-124).                *)
THEOREM OrchestratorGoneForGood ==
    Spec => [][\A r \in Runs : Gone(r) => Gone(r)']_vars
<1>1. IInv /\ [Next]_vars => [\A r \in Runs : Gone(r) => Gone(r)']_vars
  BY GoneKept
<1> QED
  BY <1>1, OrchestratorInvariant, PTL DEF Spec

-----------------------------------------------------------------------------
(* How long an execution can take.                                         *)

Beginning == {"new", "plan_store", "plan_mark", "planned",
              "mark_execution", "mark_run", "step", "stepping"}

\* The steps of a thread from each place to its end, the steps of the plan
\* aside, on the longest way.
Ahead ==
    [new |-> 11, plan_store |-> 10, plan_mark |-> 9, planned |-> 8,
     mark_execution |-> 7, mark_run |-> 6, step |-> 5, stepping |-> 4,
     finish |-> 5, finish_run |-> 4, error |-> 3, error_run |-> 2, error_mark |-> 1,
     refused |-> 0, raised |-> 0, lost |-> 0, done |-> 0]

\* Each step of the plan begins and ends.
ToCome(j) ==
    Ahead[pc[j]] +
        IF pc[j] \in Beginning THEN 2 * (Steps(j) - Len(executions[j].results)) ELSE 0

Places == Live \cup {"new", "refused", "raised", "lost", "done"}

LEMMA ToComeIs ==
    ASSUME IInv, NEW j \in Jobs
    PROVE  /\ pc[j] \in Places /\ Steps(j) \in Nat /\ Len(executions[j].results) \in 0..Steps(j)
           /\ pc[j] = "new" => Len(executions[j].results) = 0
           /\ ToCome(j) \in Nat
<1>1. pc[j] \in Places /\ Steps(j) \in Nat
  BY JobsAssumption DEF IInv, TypeOK, Places, Steps
<1>2. Len(executions[j].results) \in 0..Steps(j)
  <2>1. Len(executions[j].results) \in Nat
    BY LenProperties DEF IInv, TypeOK, Execution
  <2> QED
    BY <1>1, <2>1 DEF IInv, Evidence
<1>3. pc[j] = "new" => Len(executions[j].results) = 0
  BY EmptySeq DEF IInv, ThreadState
<1>4. Ahead[pc[j]] \in Nat
  BY <1>1 DEF Ahead, Places, Live, Planning, Running, Failing
<1>5. 2 * (Steps(j) - Len(executions[j].results)) \in Nat
  BY <1>1, <1>2
<1> QED
  BY <1>1, <1>2, <1>3, <1>4, <1>5 DEF ToCome

\* A step from one place to another that leaves the results alone.
LEMMA NextPlace ==
    ASSUME IInv, NEW j \in Jobs, NEW b \in Places, pc'[j] = b,
           executions'[j].results = executions[j].results,
           Ahead[b] < Ahead[pc[j]], b \in Beginning => pc[j] \in Beginning
    PROVE  ToCome(j)' < ToCome(j)
<1> DEFINE n == Len(executions[j].results)
<1>1. Steps(j) \in Nat /\ n \in 0..Steps(j) /\ pc[j] \in Places
  BY ToComeIs
<1>2. Ahead[b] \in Nat /\ Ahead[pc[j]] \in Nat
  BY <1>1 DEF Ahead, Places, Live, Planning, Running, Failing
<1>3. /\ ToCome(j)  = Ahead[pc[j]] + IF pc[j] \in Beginning THEN 2 * (Steps(j) - n) ELSE 0
      /\ ToCome(j)' = Ahead[b] + IF b \in Beginning THEN 2 * (Steps(j) - n) ELSE 0
  BY DEF ToCome, Steps
<1>4. 2 * (Steps(j) - n) \in Nat
  BY <1>1
<1> HIDE DEF n
<1> QED
  BY <1>2, <1>3, <1>4

LEMMA OwnStepDescends ==
    ASSUME IInv, NEW j \in Jobs, ThreadStep(j)
    PROVE  ToCome(j)' < ToCome(j)
<1> USE DEF At, Goto
<1>1. /\ pc \in [Jobs -> Places] /\ DOMAIN executions = Jobs
      /\ executions[j] \in Execution(j)
  BY DEF IInv, TypeOK, Places
<1> DEFINE To(b) == pc'[j] = b /\ executions'[j].results = executions[j].results
<1>2. CASE PlanLoad(j)
  <2>1. pc[j] = "new" /\ (To("refused") \/ To("plan_store"))
    BY <1>1, <1>2 DEF PlanLoad, repositories
  <2> QED
    BY <2>1, NextPlace DEF Ahead, Beginning, Places, Live, Planning
<1>3. CASE PlanStore(j)
  <2>1. pc[j] = "plan_store" /\ To("plan_mark")
    BY <1>1, <1>3 DEF PlanStore, Execution
  <2> QED
    BY <2>1, NextPlace DEF Ahead, Beginning, Places, Live, Planning
<1>4. CASE PlanMark(j)
  <2>1. pc[j] = "plan_mark" /\ To("planned")
    BY <1>1, <1>4 DEF PlanMark
  <2> QED
    BY <2>1, NextPlace DEF Ahead, Beginning, Places, Live
<1>5. CASE RunLoad(j)
  <2>1. pc[j] = "planned" /\ (To("mark_execution") \/ To("error") \/ To("raised"))
    BY <1>1, <1>5 DEF RunLoad, repositories
  <2> QED
    BY <2>1, NextPlace DEF Ahead, Beginning, Places, Live, Running, Failing
<1>6. CASE MarkExecution(j)
  <2>1. pc[j] = "mark_execution" /\ To("mark_run")
    BY <1>1, <1>6 DEF MarkExecution, Execution
  <2> QED
    BY <2>1, NextPlace DEF Ahead, Beginning, Places, Live, Running
<1>7. CASE MarkRun(j)
  <2>1. pc[j] = "mark_run" /\ To("step")
    BY <1>1, <1>7 DEF MarkRun
  <2> QED
    BY <2>1, NextPlace DEF Ahead, Beginning, Places, Live, Running
<1>8. CASE StepBegin(j)
  <2>1. pc[j] = "step" /\ To("stepping")
    BY <1>1, <1>8 DEF StepBegin, Execution
  <2> QED
    BY <2>1, NextPlace DEF Ahead, Beginning, Places, Live, Running
<1>9. ASSUME NEW outcome \in {"PASSED", "FAILED"}, StepEnd(j, outcome)
      PROVE  ToCome(j)' < ToCome(j)
  <2> DEFINE n == Len(executions[j].results)
  <2>1. /\ pc[j] = "stepping" /\ pc'[j] \in {"finish", "step"}
        /\ executions'[j].results = Append(executions[j].results, outcome)
    BY <1>1, <1>9 DEF StepEnd, Execution
  <2>2. Steps(j) \in Nat /\ n \in 0..Steps(j) /\ n < Steps(j)
    BY <2>1, ToComeIs DEF IInv, ThreadState
  <2>3. Len(executions'[j].results) = n + 1
    BY <1>1, <2>1, AppendProperties DEF Execution
  <2>4. ToCome(j) = 4 + 2 * (Steps(j) - n)
    BY <2>1 DEF ToCome, Ahead, Beginning
  <2>5. \/ ToCome(j)' = 5 + 2 * (Steps(j) - (n + 1))
        \/ ToCome(j)' = 5 + 0
    BY <2>1, <2>3 DEF ToCome, Ahead, Beginning, Steps
  <2> HIDE DEF n
  <2> QED
    BY <2>2, <2>4, <2>5
<1>10. CASE Finish(j)
  <2>1. pc[j] = "finish" /\ To("finish_run")
    BY <1>1, <1>10 DEF Finish, Execution
  <2> QED
    BY <2>1, NextPlace DEF Ahead, Beginning, Places, Live, Running
<1>11. CASE FinishRun(j)
  <2>1. pc[j] = "finish_run" /\ To("done")
    BY <1>1, <1>11 DEF FinishRun
  <2> QED
    BY <2>1, NextPlace DEF Ahead, Beginning, Places
<1>12. CASE ErrorExecution(j)
  <2>1. pc[j] = "error" /\ To("error_run")
    BY <1>1, <1>12 DEF ErrorExecution, Execution
  <2> QED
    BY <2>1, NextPlace DEF Ahead, Beginning, Places, Live, Failing
<1>13. CASE ErrorRun(j)
  <2>1. pc[j] = "error_run" /\ (To("done") \/ To("error_mark"))
    BY <1>1, <1>13 DEF ErrorRun, repositories
  <2> QED
    BY <2>1, NextPlace DEF Ahead, Beginning, Places, Live, Failing
<1>14. CASE ErrorMark(j)
  <2>1. pc[j] = "error_mark" /\ To("done")
    BY <1>1, <1>14 DEF ErrorMark
  <2> QED
    BY <2>1, NextPlace DEF Ahead, Beginning, Places
<1>15. CASE Fault(j)
  <2>1. /\ pc[j] \in Planning \cup Running \cup Failing
        /\ To("raised") \/ (pc[j] \in Running /\ To("error"))
    BY <1>1, <1>15 DEF Fault, repositories
  <2>2. CASE To("raised")
    BY <2>1, <2>2, NextPlace DEF Ahead, Beginning, Places, Planning, Running, Failing
  <2>3. CASE pc[j] \in Running /\ To("error")
    BY <2>3, NextPlace DEF Ahead, Beginning, Places, Live, Running, Failing
  <2> QED
    BY <2>1, <2>2, <2>3
<1> QED
  BY <1>2, <1>3, <1>4, <1>5, <1>6, <1>7, <1>8, <1>9, <1>10, <1>11, <1>12, <1>13, <1>14, <1>15
     DEF ThreadStep, Advance

\* Nobody else makes an execution longer.
LEMMA OtherStepLeaves ==
    ASSUME IInv, [Next]_vars, NEW j \in Jobs, ~ThreadStep(j)
    PROVE  ToCome(j)' <= ToCome(j)
<1>1. ToCome(j) \in Nat
  BY ToComeIs
<1>2. CASE Crash
  <2>1. pc'[j] = "lost" \/ (pc'[j] = pc[j] /\ pc[j] \notin Live)
    BY <1>2 DEF Crash, IInv, TypeOK
  <2>2. executions' = executions
    BY <1>2 DEF Crash, repositories
  <2>3. ToCome(j)' = 0 \/ ToCome(j)' = ToCome(j)
    BY <2>1, <2>2 DEF ToCome, Ahead, Beginning, Steps
  <2> QED
    BY <1>1, <2>3
<1>3. CASE ~Crash
  <2>1. pc'[j] = pc[j] /\ executions'[j].results = executions[j].results
    <3>1. ASSUME NEW k \in Jobs, ThreadStep(k)
          PROVE  pc'[j] = pc[j] /\ executions'[j] = executions[j]
      BY <3>1, JobStepKeepsJob DEF ThreadStep, JobStep, OnlyJob
    <3>2. ASSUME NEW k \in Jobs, CleanExecution(k)
          PROVE  pc'[j] = pc[j] /\ executions'[j].results = executions[j].results
      BY <3>2 DEF CleanExecution, IInv, TypeOK, Execution
    <3>3. ASSUME NEW k \in Jobs, CleanRun(k)
          PROVE  pc'[j] = pc[j] /\ executions'[j] = executions[j]
      BY <3>3 DEF CleanRun
    <3>4. CASE Boot \/ Serve \/ UNCHANGED vars
      BY <3>4 DEF Boot, Serve, vars, repositories
    <3>5. ASSUME NEW r \in Runs, CreateRun(r) \/ DeleteRun(r)
          PROVE  pc'[j] = pc[j] /\ executions'[j] = executions[j]
      BY <3>5 DEF CreateRun, DeleteRun
    <3> QED
      BY <1>3, <3>1, <3>2, <3>3, <3>4, <3>5 DEF Next, Startup, ThreadStep
  <2>2. ToCome(j)' = ToCome(j)
    BY <2>1 DEF ToCome, Steps
  <2> QED
    BY <1>1, <2>2
<1> QED
  BY <1>2, <1>3

\* A step of its thread takes from what is to come, no other step adds to it.
Ends(j) == IF ThreadStep(j) THEN ToCome(j)' < ToCome(j) ELSE ToCome(j)' <= ToCome(j)

LEMMA StepEnds ==
    IInv /\ [Next]_vars => \A j \in Jobs : Ends(j)
  BY OwnStepDescends, OtherStepLeaves DEF Ends

(* No execution goes on for ever: of a plan of n steps its thread has at    *)
(* most 2 n + 11 steps to take; each that it takes, on every way an error   *)
(* can send it, leaves it fewer, and no crash, cleanup, deletion or other   *)
(* execution gives it more.  That it takes them is the scheduler's part     *)
(* (orchestrator.py:89-179; async_runner.py:78-94).                         *)
THEOREM OrchestratorEnds ==
    Spec => /\ [](\A j \in Jobs : ToCome(j) \in 0 .. 2 * Steps(j) + 11)
            /\ [][\A j \in Jobs : Ends(j)]_vars
<1>1. ASSUME IInv, NEW j \in Jobs PROVE ToCome(j) \in 0 .. 2 * Steps(j) + 11
  <2> DEFINE n == Len(executions[j].results)
  <2>1. /\ pc[j] \in Places /\ Steps(j) \in Nat /\ n \in 0..Steps(j) /\ ToCome(j) \in Nat
    BY <1>1, ToComeIs
  <2>2. Ahead[pc[j]] \in 0..11
    BY <2>1 DEF Ahead, Places, Live, Planning, Running, Failing
  <2>3. ToCome(j) = Ahead[pc[j]] + IF pc[j] \in Beginning THEN 2 * (Steps(j) - n) ELSE 0
    BY DEF ToCome
  <2>4. (IF pc[j] \in Beginning THEN 2 * (Steps(j) - n) ELSE 0) \in 0 .. 2 * Steps(j)
    BY <2>1
  <2> HIDE DEF n
  <2> QED
    BY <2>1, <2>2, <2>3, <2>4
<1>2. IInv => \A j \in Jobs : ToCome(j) \in 0 .. 2 * Steps(j) + 11
  BY <1>1
<1>3. IInv /\ [Next]_vars => [\A j \in Jobs : Ends(j)]_vars
  BY StepEnds
<1> QED
  BY <1>2, <1>3, OrchestratorInvariant, PTL DEF Spec
=============================================================================
