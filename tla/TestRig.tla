------------------------------- MODULE TestRig -------------------------------
(***************************************************************************)
(* Steps run by the Inji test rigs: InjiApiTestRigExecutor.execute         *)
(* (backend/app/inji_executors.py), the process it starts (inji_process.py)*)
(* and the report that process leaves in the rig's working directory       *)
(* (inji_report.py).                                                       *)
(*                                                                         *)
(* A rig's working directory is configured once and shared by all steps of *)
(* its provider, one after the other or, up to the limit of executions, at *)
(* the same time.  The process is in a session of its own: it outlives a   *)
(* crash of the backend.  What it does, and when, is external.             *)
(***************************************************************************)
EXTENDS Naturals, FiniteSets

CONSTANTS Jobs,        \* steps to be run
          Rigs,        \* working directories
          RigOf,       \* the rig of a step
          NoJob,
          MaxTests,    \* bound: passed and failed tests of a report
          MaxCrashes   \* bound: crashes of the backend

ASSUME RigAssumption ==
    RigOf \in [Jobs -> Rigs] /\ NoJob \notin Jobs /\ MaxTests \in Nat /\ MaxCrashes \in Nat

VARIABLES pc,          \* where execute() is
          process,     \* the process of a step
          wrote,       \* its report has been written completely,
          passed,      \* and says that so many tests passed
          failed,      \* and failed
          author,      \* whose report is in a directory (NoJob: none),
          whole,       \* and whether it is one
          evidence,    \* the report a step's result was read from
          result,      \* its StepResult
          overlapped,  \* history: the steps that met another in their directory,
          left,        \* and those whose process could not be killed
          crashes

vars == <<pc, process, passed, failed, wrote, author, whole, evidence, result, overlapped, left, crashes>>

report == <<passed, failed, wrote>>
file   == <<author, whole>>

Live(j) == process[j] \in {"running", "writing", "written"}

\* From the start of its process to the reading of the report.
Busy(j) == Live(j) \/ pc[j] \in {"waiting", "locating", "parsing"}

Sharing(j) == {k \in Jobs \ {j} : RigOf[k] = RigOf[j]}

Init ==
    /\ pc = [j \in Jobs |-> "idle"]
    /\ process = [j \in Jobs |-> "none"]
    /\ passed = [j \in Jobs |-> 0] /\ failed = [j \in Jobs |-> 0]
    /\ wrote = [j \in Jobs |-> FALSE]
    /\ author = [r \in Rigs |-> NoJob] /\ whole = [r \in Rigs |-> FALSE]
    /\ evidence = [j \in Jobs |-> NoJob]
    /\ result = [j \in Jobs |-> "none"]
    /\ overlapped = {} /\ left = {}
    /\ crashes = 0

-----------------------------------------------------------------------------
(* execute()                                                               *)

Finish(j, status) ==
    /\ pc' = [pc EXCEPT ![j] = "done"]
    /\ result' = [result EXCEPT ![j] = status]

\* No or incomplete configuration, no JAR, or Popen raises.
Refuse(j) ==
    /\ pc[j] = "idle" /\ Finish(j, "FAILED")
    /\ UNCHANGED <<process, report, file, evidence, overlapped, left, crashes>>

Launch(j) ==
    /\ pc[j] = "idle"
    /\ pc' = [pc EXCEPT ![j] = "waiting"]
    /\ process' = [process EXCEPT ![j] = "running"]
    /\ LET met == {k \in Sharing(j) : Busy(k)}
       IN  overlapped' = overlapped \cup met \cup {k \in {j} : met # {}}
    /\ UNCHANGED <<report, file, evidence, result, left, crashes>>

\* Mutated: the end of the process is not waited for.
CollectEarly(j) ==
    /\ pc[j] = "waiting"
    /\ pc' = [pc EXCEPT ![j] = "locating"]
    /\ UNCHANGED <<process, report, file, evidence, result, overlapped, left, crashes>>

\* communicate() returns, or raises on output that is no text.
Collect(j) ==
    /\ pc[j] = "waiting" /\ ~Live(j)
    /\ \/ pc' = [pc EXCEPT ![j] = "locating"] /\ UNCHANGED result
       \/ Finish(j, "FAILED")
    /\ UNCHANGED <<process, report, file, evidence, overlapped, left, crashes>>

\* Mutated: a status of its own for the timeout; no timeout for a process that
\* does not end.
TimeOutError(j) ==
    /\ pc[j] = "waiting" /\ Finish(j, "ERROR")
    /\ process' = [process EXCEPT ![j] = "ended"]
    /\ UNCHANGED <<report, file, evidence, overlapped, left, crashes>>
TimeOutEnded(j) ==
    /\ pc[j] = "waiting" /\ ~Live(j)
    /\ pc' = [pc EXCEPT ![j] = "killing"]
    /\ UNCHANGED <<process, report, file, evidence, result, overlapped, left, crashes>>

\* Even an ended process times out while something holds its output open.
TimeOut(j) ==
    /\ pc[j] = "waiting"
    /\ pc' = [pc EXCEPT ![j] = "killing"]
    /\ UNCHANGED <<process, report, file, evidence, result, overlapped, left, crashes>>

\* Mutated: the process is left alone.
KillNothing(j) ==
    /\ pc[j] = "killing" /\ Finish(j, "FAILED")
    /\ UNCHANGED <<process, report, file, evidence, overlapped, left, crashes>>

\* The group is killed, unless it has ended meanwhile, and waiting for the rest
\* of the output has a timeout as well.  When the group cannot be killed, the
\* child alone is: what it started lives on, or all of it where that raises too.
Kill(j) ==
    /\ pc[j] = "killing" /\ Finish(j, "FAILED")
    /\ \/ process' = [process EXCEPT ![j] = "ended"] /\ UNCHANGED left
       \/ Live(j) /\ left' = left \cup {j} /\ UNCHANGED process
    /\ UNCHANGED <<report, file, evidence, overlapped, crashes>>

\* locate_report(): a report lies in the same place of the directory whoever
\* wrote it.
Locate(j) ==
    /\ pc[j] = "locating"
    /\ IF author[RigOf[j]] = NoJob THEN Finish(j, "FAILED")
         ELSE pc' = [pc EXCEPT ![j] = "parsing"] /\ UNCHANGED result
    /\ UNCHANGED <<process, report, file, evidence, overlapped, left, crashes>>

AllPassed(j) == failed[j] = 0 /\ passed[j] > 0

\* Mutated: a report of nothing passes.
NoneFailed(j) == failed[j] = 0
ParseNoneFailed(j) ==
    /\ pc[j] = "parsing"
    /\ LET k == author[RigOf[j]] IN
       IF k # NoJob /\ whole[RigOf[j]]
         THEN /\ Finish(j, IF NoneFailed(k) THEN "PASSED" ELSE "FAILED")
              /\ evidence' = [evidence EXCEPT ![j] = k]
         ELSE Finish(j, "FAILED") /\ UNCHANGED evidence
    /\ UNCHANGED <<process, report, file, overlapped, left, crashes>>

\* The report may have been removed or opened for writing again since.
Parse(j) ==
    /\ pc[j] = "parsing"
    /\ LET k == author[RigOf[j]] IN
       IF k # NoJob /\ whole[RigOf[j]]
         THEN /\ Finish(j, IF AllPassed(k) THEN "PASSED" ELSE "FAILED")
              /\ evidence' = [evidence EXCEPT ![j] = k]
         ELSE Finish(j, "FAILED") /\ UNCHANGED evidence
    /\ UNCHANGED <<process, report, file, overlapped, left, crashes>>

-----------------------------------------------------------------------------
(* The process, the directory and the backend.                             *)

\* Opening the report truncates what was there.
Open(j) ==
    /\ process[j] = "running"
    /\ process' = [process EXCEPT ![j] = "writing"]
    /\ author' = [author EXCEPT ![RigOf[j]] = j]
    /\ whole' = [whole EXCEPT ![RigOf[j]] = FALSE]
    /\ UNCHANGED <<pc, report, evidence, result, overlapped, left, crashes>>

\* Over another's report either may be legible, or neither.
Close(j) ==
    /\ process[j] = "writing"
    /\ process' = [process EXCEPT ![j] = "written"]
    /\ wrote' = [wrote EXCEPT ![j] = TRUE]
    /\ \E p, f \in 0..MaxTests :
          passed' = [passed EXCEPT ![j] = p] /\ failed' = [failed EXCEPT ![j] = f]
    /\ \/ /\ author' = [author EXCEPT ![RigOf[j]] = j]
          /\ whole' = [whole EXCEPT ![RigOf[j]] = TRUE]
       \/ /\ author[RigOf[j]] # j
          /\ whole' = [whole EXCEPT ![RigOf[j]] = FALSE]
          /\ UNCHANGED author
    /\ UNCHANGED <<pc, evidence, result, overlapped, left, crashes>>

Exit(j) ==
    /\ Live(j)
    /\ process' = [process EXCEPT ![j] = "ended"]
    /\ UNCHANGED <<pc, report, file, evidence, result, overlapped, left, crashes>>

\* The rig is built anew while it does not run, or its directory cleaned.
Clean(r) ==
    /\ \A j \in Jobs : RigOf[j] = r => ~Live(j)
    /\ author' = [author EXCEPT ![r] = NoJob] /\ whole' = [whole EXCEPT ![r] = FALSE]
    /\ UNCHANGED <<pc, process, report, evidence, result, overlapped, left, crashes>>

InHand(j) == pc[j] \notin {"idle", "done", "lost"}

Crash ==
    /\ crashes < MaxCrashes
    /\ \E j \in Jobs : InHand(j)
    /\ pc' = [j \in Jobs |-> IF InHand(j) THEN "lost" ELSE pc[j]]
    /\ crashes' = crashes + 1
    /\ UNCHANGED <<process, report, file, evidence, result, overlapped, left>>

-----------------------------------------------------------------------------

Execute(j) == Collect(j) \/ TimeOut(j) \/ Kill(j) \/ Locate(j) \/ Parse(j)

Next ==
    \/ \E j \in Jobs : Refuse(j) \/ Launch(j) \/ Execute(j)
    \/ \E j \in Jobs : Open(j) \/ Close(j) \/ Exit(j)
    \/ \E r \in Rigs : Clean(r)
    \/ Crash

Spec == Init /\ [][Next]_vars

(* The thread of a step goes on, since each of its waits has a timeout; a  *)
(* process may run for ever.                                               *)
FairSpec == Spec /\ \A j \in Jobs : WF_vars(Execute(j))

-----------------------------------------------------------------------------

TypeOK ==
    /\ pc \in [Jobs -> {"idle", "waiting", "killing", "locating", "parsing", "done", "lost"}]
    /\ process \in [Jobs -> {"none", "running", "writing", "written", "ended"}]
    /\ passed \in [Jobs -> 0..MaxTests] /\ failed \in [Jobs -> 0..MaxTests]
    /\ wrote \in [Jobs -> BOOLEAN]
    /\ author \in [Rigs -> Jobs \cup {NoJob}] /\ whole \in [Rigs -> BOOLEAN]
    /\ evidence \in [Jobs -> Jobs \cup {NoJob}]
    /\ result \in [Jobs -> {"none", "PASSED", "FAILED"}]
    /\ overlapped \subseteq Jobs /\ left \subseteq Jobs
    /\ crashes \in 0..MaxCrashes

(* "guaranteeing the child is not left running if we give up on it"        *)
(* (inji_process.py:61-63): whoever was first, the timeout or the end of   *)
(* the process, no step has a result while its process lives, unless the   *)
(* operating system refused to kill it (inji_process.py:116-122).          *)
NoneLeftRunning == \A j \in Jobs : result[j] # "none" => ~Live(j) \/ j \in left

(* "PASSED requires at least one real pass and zero failures"              *)
(* (inji_report.py:49-51), of tests that ran: behind every pass is a       *)
(* report, written to its end by a process of the same rig, that says so.  *)
PassHasReport ==
    \A j \in Jobs : result[j] = "PASSED" =>
        \E k \in Jobs :
            /\ evidence[j] = k /\ RigOf[k] = RigOf[j] /\ wrote[k]
            /\ failed[k] = 0 /\ passed[k] > 0

(* A step that wrote its report and met no other step in the directory is  *)
(* judged by that report and not by one left there (inji_report.py:54-70), *)
(* even if an orphan of a crashed backend was there before it.             *)
OwnReportWhenAlone ==
    \A j \in Jobs :
        wrote[j] /\ j \notin overlapped /\ result[j] # "none" =>
            /\ evidence[j] \in {j, NoJob}
            /\ result[j] = "PASSED" <=> evidence[j] = j /\ failed[j] = 0 /\ passed[j] > 0

(* A step ends however long its process runs, unless the backend dies      *)
(* first (inji_process.py:86-108).                                         *)
RigStepEnds == \A j \in Jobs : pc[j] = "waiting" ~> result[j] # "none" \/ pc[j] = "lost"

(* "This module never fabricates a result: a missing or malformed report   *)
(* is a distinct, explicit failure mode, never silently treated as a pass" *)
(* (inji_report.py:12-13): a step whose process wrote no report does not   *)
(* pass.                                                                   *)
MissingReportFails == \A j \in Jobs : result[j] = "PASSED" => wrote[j]
=============================================================================
