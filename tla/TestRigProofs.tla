---------------------------- MODULE TestRigProofs ----------------------------
(***************************************************************************)
(* Proofs about TestRig: no process outlives its result, every pass rests  *)
(* on a report, and on the step's own when it was alone in its directory,  *)
(* for any steps, rigs, reports and number of crashes.                     *)
(***************************************************************************)
EXTENDS TestRig, TLAPS

\* pc, process, result and report of one step agree.
Stage(j) ==
    /\ pc[j] = "idle" => process[j] = "none"
    /\ pc[j] \in {"locating", "parsing"} => ~Live(j)
    /\ pc[j] = "done" => ~Live(j) \/ j \in left
    /\ j \in left => pc[j] = "done" /\ evidence[j] = NoJob
    /\ result[j] # "none" <=> pc[j] = "done"
    /\ process[j] \in {"none", "running", "writing"} => ~wrote[j]

\* What lies in a directory is of this rig, and a whole report was completed.
Filed(r) ==
    /\ author[r] # NoJob => RigOf[author[r]] = r
    /\ whole[r] /\ author[r] # NoJob => wrote[author[r]]

\* What a result was read from.
Sourced(j) ==
    /\ evidence[j] = NoJob => result[j] # "PASSED"
    /\ evidence[j] # NoJob =>
          /\ pc[j] = "done" /\ RigOf[evidence[j]] = RigOf[j] /\ wrote[evidence[j]]
          /\ result[j] = "PASSED" <=> AllPassed(evidence[j])

\* Two steps that are in one directory at the same time have met.
Met(j, k) == k \in Sharing(j) /\ Busy(j) /\ Live(k) => j \in overlapped /\ k \in overlapped

\* While a step that met nobody is busy, nobody writes over its report.
Sole(j) ==
    /\ j \notin overlapped
    /\ process[j] \in {"writing", "written"} \/ (wrote[j] /\ Busy(j))
    => author[RigOf[j]] \in {j, NoJob}

Own(j) == wrote[j] /\ j \notin overlapped => evidence[j] \in {j, NoJob}

IInv ==
    /\ TypeOK
    /\ \A j \in Jobs : Stage(j) /\ Sourced(j) /\ Sole(j) /\ Own(j)
    /\ \A j, k \in Jobs : Met(j, k)
    /\ \A r \in Rigs : Filed(r)

LEMMA InitIInv == Init => IInv
<1> USE RigAssumption
<1> SUFFICES ASSUME Init PROVE IInv
  OBVIOUS
<1>1. TypeOK
  BY DEF Init, TypeOK
<1>2. ASSUME NEW j \in Jobs PROVE Stage(j) /\ Sourced(j) /\ Sole(j) /\ Own(j)
  BY DEF Init, Stage, Sourced, Sole, Own, Live, Busy
<1>3. ASSUME NEW j \in Jobs, NEW k \in Jobs PROVE Met(j, k)
  BY DEF Init, Met, Live, Sharing
<1>4. ASSUME NEW r \in Rigs PROVE Filed(r)
  BY DEF Init, Filed
<1> QED
  BY <1>1, <1>2, <1>3, <1>4 DEF IInv

-----------------------------------------------------------------------------
(* The steps of execute().                                                 *)

\* A step that goes on, or ends with FAILED and no report, its process unchanged.
LEMMA ThreadKeeps ==
    ASSUME IInv, NEW j \in Jobs,
           NEW next \in {"locating", "parsing", "killing", "done"},
           pc' = [pc EXCEPT ![j] = next],
           next = "done" => result' = [result EXCEPT ![j] = "FAILED"],
           next # "done" => result' = result,
           pc[j] \in {"idle", "waiting", "locating", "parsing"},
           next # "killing" => ~Live(j),
           next # "done" => pc[j] # "idle",
           UNCHANGED <<process, report, file, evidence, overlapped, left, crashes>>
    PROVE  IInv'
<1> USE RigAssumption DEF report, file
<1>1. TypeOK'
  BY DEF IInv, TypeOK
<1>2. \A i \in Jobs : (Busy(i)' => Busy(i)) /\ Live(i)' = Live(i)
  BY DEF IInv, TypeOK, Live, Busy
<1>3. ASSUME NEW i \in Jobs PROVE Stage(i)' /\ Sourced(i)' /\ Sole(i)' /\ Own(i)'
  <2>1. Stage(i)'
    BY <1>2 DEF IInv, TypeOK, Stage, Live
  <2>2. Sourced(i)'
    BY DEF IInv, TypeOK, Sourced, Stage, AllPassed
  <2>3. Sole(i)' /\ Own(i)'
    BY <1>2 DEF IInv, TypeOK, Sole, Own
  <2> QED
    BY <2>1, <2>2, <2>3
<1>4. ASSUME NEW i \in Jobs, NEW k \in Jobs PROVE Met(i, k)'
  BY <1>2 DEF IInv, Met, Sharing
<1>5. ASSUME NEW r \in Rigs PROVE Filed(r)'
  BY DEF IInv, Filed
<1> QED
  BY <1>1, <1>3, <1>4, <1>5 DEF IInv

LEMMA LaunchKeeps == ASSUME IInv, NEW j \in Jobs, Launch(j) PROVE IInv'
<1> USE RigAssumption DEF report, file
<1>1. /\ pc[j] = "idle" /\ process[j] = "none"
      /\ pc' = [pc EXCEPT ![j] = "waiting"] /\ process' = [process EXCEPT ![j] = "running"]
      /\ UNCHANGED <<passed, failed, wrote, author, whole, evidence, result, left, crashes>>
      /\ overlapped \subseteq overlapped' /\ overlapped' \subseteq Jobs
      /\ \A k \in Sharing(j) : Busy(k) => k \in overlapped' /\ j \in overlapped'
  BY DEF Launch, IInv, Stage, TypeOK, Sharing
<1>2. TypeOK'
  BY <1>1 DEF IInv, TypeOK
<1>3. \A i \in Jobs \ {j} : Busy(i)' = Busy(i) /\ Live(i)' = Live(i)
  BY <1>1 DEF IInv, TypeOK, Live, Busy
<1>4. ASSUME NEW i \in Jobs PROVE Stage(i)' /\ Sourced(i)' /\ Sole(i)' /\ Own(i)'
  <2>1. Stage(i)'
    BY <1>1, <1>3 DEF IInv, TypeOK, Stage, Live
  <2>2. Sourced(i)'
    BY <1>1 DEF IInv, TypeOK, Sourced, Stage, AllPassed
  <2>3. Sole(i)'
    BY <1>1, <1>3 DEF IInv, TypeOK, Sole, Stage
  <2>4. Own(i)'
    BY <1>1 DEF IInv, Own
  <2> QED
    BY <2>1, <2>2, <2>3, <2>4
<1>5. ASSUME NEW i \in Jobs, NEW k \in Jobs PROVE Met(i, k)'
  BY <1>1, <1>3 DEF IInv, Met, Sharing, Busy
<1>6. ASSUME NEW r \in Rigs PROVE Filed(r)'
  BY <1>1 DEF IInv, Filed
<1> QED
  BY <1>2, <1>4, <1>5, <1>6 DEF IInv

LEMMA KillKeeps == ASSUME IInv, NEW j \in Jobs, Kill(j) PROVE IInv'
<1> USE RigAssumption DEF report, file
<1>1. /\ pc[j] = "killing" /\ pc' = [pc EXCEPT ![j] = "done"]
      /\ result' = [result EXCEPT ![j] = "FAILED"]
      /\ left \subseteq left' /\ left' \subseteq left \cup {j}
      /\ UNCHANGED <<passed, failed, wrote, author, whole, evidence, overlapped, crashes>>
  BY DEF Kill, Finish
<1>2. \/ process' = [process EXCEPT ![j] = "ended"]
      \/ process' = process /\ j \in left'
  BY DEF Kill
<1>3. TypeOK'
  BY <1>1, <1>2 DEF IInv, TypeOK
<1>4. \A i \in Jobs : (Busy(i)' => Busy(i)) /\ (Live(i)' => Live(i))
  BY <1>1, <1>2 DEF IInv, TypeOK, Live, Busy
<1>5. ASSUME NEW i \in Jobs PROVE Stage(i)' /\ Sourced(i)' /\ Sole(i)' /\ Own(i)'
  <2>1. Stage(i)'
    <3>1. j \in left' => evidence[j] = NoJob
      BY <1>1 DEF IInv, Sourced
    <3> QED
      BY <1>1, <1>2, <3>1 DEF IInv, TypeOK, Stage, Live
  <2>2. Sourced(i)'
    BY <1>1 DEF IInv, TypeOK, Sourced, Stage, AllPassed
  <2>3. Sole(i)' /\ Own(i)'
    BY <1>1, <1>2, <1>4 DEF IInv, TypeOK, Sole, Own
  <2> QED
    BY <2>1, <2>2, <2>3
<1>6. ASSUME NEW i \in Jobs, NEW k \in Jobs PROVE Met(i, k)'
  BY <1>1, <1>4 DEF IInv, Met, Sharing
<1>7. ASSUME NEW r \in Rigs PROVE Filed(r)'
  BY <1>1 DEF IInv, Filed
<1> QED
  BY <1>3, <1>5, <1>6, <1>7 DEF IInv

\* A result read from a whole report.
LEMMA ParseKeeps ==
    ASSUME IInv, NEW j \in Jobs, NEW k \in Jobs,
           pc[j] = "parsing", k = author[RigOf[j]], whole[RigOf[j]],
           Finish(j, IF AllPassed(k) THEN "PASSED" ELSE "FAILED"),
           evidence' = [evidence EXCEPT ![j] = k],
           UNCHANGED <<process, report, file, overlapped, left, crashes>>
    PROVE  IInv'
<1> USE RigAssumption DEF report, file
<1>1. RigOf[j] \in Rigs /\ RigOf[k] = RigOf[j] /\ wrote[k] /\ k # NoJob
  BY DEF IInv, Filed
<1>2. pc' = [pc EXCEPT ![j] = "done"] /\ result' = [result EXCEPT ![j] = IF AllPassed(k) THEN "PASSED" ELSE "FAILED"]
  BY DEF Finish
<1>3. TypeOK'
  BY <1>2 DEF IInv, TypeOK
<1>4. \A i \in Jobs : (Busy(i)' => Busy(i)) /\ Live(i)' = Live(i)
  BY <1>2 DEF IInv, TypeOK, Live, Busy
<1>5. \A i \in Jobs : AllPassed(i)' = AllPassed(i)
  BY DEF AllPassed
<1>6. ASSUME NEW i \in Jobs PROVE Stage(i)' /\ Sourced(i)' /\ Sole(i)' /\ Own(i)'
  <2>1. Stage(i)'
    BY <1>2, <1>4 DEF IInv, TypeOK, Stage, Live
  <2>2. Sourced(i)'
    BY <1>1, <1>2, <1>5 DEF IInv, TypeOK, Sourced, Stage
  <2>3. Sole(i)'
    BY <1>4 DEF IInv, TypeOK, Sole
  <2>4. Own(i)'
    BY DEF IInv, TypeOK, Own, Sole, Busy
  <2> QED
    BY <2>1, <2>2, <2>3, <2>4
<1>7. ASSUME NEW i \in Jobs, NEW m \in Jobs PROVE Met(i, m)'
  BY <1>4 DEF IInv, Met, Sharing
<1>8. ASSUME NEW r \in Rigs PROVE Filed(r)'
  BY DEF IInv, Filed
<1> QED
  BY <1>3, <1>6, <1>7, <1>8 DEF IInv

-----------------------------------------------------------------------------
(* The process, the directory and the backend.                             *)

LEMMA OpenKeeps == ASSUME IInv, NEW j \in Jobs, Open(j) PROVE IInv'
<1> USE RigAssumption DEF report, file
<1>1. /\ process[j] = "running" /\ process' = [process EXCEPT ![j] = "writing"] /\ ~wrote[j]
      /\ author' = [author EXCEPT ![RigOf[j]] = j] /\ whole' = [whole EXCEPT ![RigOf[j]] = FALSE]
      /\ UNCHANGED <<pc, passed, failed, wrote, evidence, result, overlapped, left, crashes>>
  BY DEF Open, IInv, Stage
<1>2. TypeOK'
  BY <1>1 DEF IInv, TypeOK
<1>3. \A i \in Jobs : Busy(i)' = Busy(i) /\ Live(i)' = Live(i)
  BY <1>1 DEF IInv, TypeOK, Live, Busy
<1>4. ASSUME NEW i \in Jobs PROVE Stage(i)' /\ Sourced(i)' /\ Sole(i)' /\ Own(i)'
  <2>1. Stage(i)'
    BY <1>1, <1>3 DEF IInv, TypeOK, Stage, Live
  <2>2. Sourced(i)' /\ Own(i)'
    BY <1>1 DEF IInv, TypeOK, Sourced, Own, AllPassed
  <2>3. Sole(i)'
    <3>1. CASE i = j
      BY <1>1, <3>1 DEF IInv, TypeOK, Sole
    <3>2. CASE i # j
      <4>1. Met(i, j) /\ Live(j)
        BY <1>1 DEF IInv, Live
      <4> QED
        BY <1>1, <1>3, <3>2, <4>1 DEF IInv, TypeOK, Sole, Met, Sharing, Busy, Live
    <3> QED
      BY <3>1, <3>2
  <2> QED
    BY <2>1, <2>2, <2>3
<1>5. ASSUME NEW i \in Jobs, NEW k \in Jobs PROVE Met(i, k)'
  BY <1>1, <1>3 DEF IInv, Met, Sharing
<1>6. ASSUME NEW r \in Rigs PROVE Filed(r)'
  BY <1>1 DEF IInv, TypeOK, Filed
<1> QED
  BY <1>2, <1>4, <1>5, <1>6 DEF IInv

LEMMA CloseKeeps == ASSUME IInv, NEW j \in Jobs, Close(j) PROVE IInv'
<1> USE RigAssumption DEF report, file
<1>1. /\ process[j] = "writing" /\ process' = [process EXCEPT ![j] = "written"] /\ ~wrote[j]
      /\ wrote' = [wrote EXCEPT ![j] = TRUE]
      /\ passed' \in [Jobs -> 0..MaxTests] /\ failed' \in [Jobs -> 0..MaxTests]
      /\ \A i \in Jobs \ {j} : passed'[i] = passed[i] /\ failed'[i] = failed[i]
      /\ UNCHANGED <<pc, evidence, result, overlapped, left, crashes>>
  BY DEF Close, IInv, TypeOK, Stage
<1>2. \/ /\ author' = [author EXCEPT ![RigOf[j]] = j]
         /\ whole' = [whole EXCEPT ![RigOf[j]] = TRUE]
      \/ /\ author' = author
         /\ whole' = [whole EXCEPT ![RigOf[j]] = FALSE]
  BY DEF Close
<1>3. TypeOK'
  BY <1>1, <1>2 DEF IInv, TypeOK
<1>4. \A i \in Jobs : Busy(i)' = Busy(i) /\ Live(i)' = Live(i)
  BY <1>1 DEF IInv, TypeOK, Live, Busy
<1>5. ASSUME NEW i \in Jobs PROVE Stage(i)' /\ Sourced(i)' /\ Sole(i)' /\ Own(i)'
  <2>1. Stage(i)'
    BY <1>1, <1>4 DEF IInv, TypeOK, Stage, Live
  <2>2. Sourced(i)'
    BY <1>1 DEF IInv, TypeOK, Sourced, AllPassed
  <2>3. Own(i)'
    <3>1. CASE i = j
      BY <1>1, <3>1 DEF IInv, TypeOK, Sourced, Own, Stage, Live
    <3>2. CASE i # j
      BY <1>1, <3>2 DEF IInv, TypeOK, Own
    <3> QED
      BY <3>1, <3>2
  <2>4. Sole(i)'
    <3>1. CASE i = j
      BY <1>1, <1>2, <3>1 DEF IInv, TypeOK, Sole
    <3>2. CASE i # j
      <4>1. Met(i, j) /\ Live(j)
        BY <1>1 DEF IInv, Live
      <4> QED
        BY <1>1, <1>2, <1>4, <3>2, <4>1 DEF IInv, TypeOK, Sole, Met, Sharing, Busy, Live
    <3> QED
      BY <3>1, <3>2
  <2> QED
    BY <2>1, <2>2, <2>3, <2>4
<1>6. ASSUME NEW i \in Jobs, NEW k \in Jobs PROVE Met(i, k)'
  BY <1>1, <1>4 DEF IInv, Met, Sharing
<1>7. ASSUME NEW r \in Rigs PROVE Filed(r)'
  BY <1>1, <1>2 DEF IInv, TypeOK, Filed
<1> QED
  BY <1>3, <1>5, <1>6, <1>7 DEF IInv

\* Nobody becomes busy, and no report changes or appears.
Quiet ==
    /\ UNCHANGED <<passed, failed, wrote, evidence, result, overlapped, left>>
    /\ \A i \in Jobs : process'[i] \in {process[i], "ended"} /\ pc'[i] \in {pc[i], "lost"}
    /\ \A i \in Jobs : pc'[i] # pc[i] => pc[i] \notin {"idle", "done"}
    /\ \A i \in Jobs : process[i] = "none" => process'[i] = "none"
    /\ \A r \in Rigs : /\ author'[r] \in {author[r], NoJob}
                       /\ author'[r] # NoJob => whole'[r] = whole[r]

\* A process ends, a directory is cleaned, the backend crashes, or nothing
\* happens.
LEMMA EnvironmentKeeps ==
    ASSUME IInv, \/ \E j \in Jobs : Exit(j)
                 \/ \E r \in Rigs : Clean(r)
                 \/ Crash
                 \/ UNCHANGED vars
    PROVE  IInv'
<1> USE RigAssumption DEF report, file
<1>1. Quiet
  <2>1. ASSUME NEW j \in Jobs, Exit(j) PROVE Quiet
    BY <2>1 DEF Quiet, IInv, TypeOK, Exit, Live
  <2>2. ASSUME NEW r \in Rigs, Clean(r) PROVE Quiet
    BY <2>2 DEF Quiet, IInv, TypeOK, Clean
  <2>3. CASE Crash
    BY <2>3 DEF Quiet, IInv, TypeOK, Crash, InHand
  <2>4. CASE UNCHANGED vars
    BY <2>4 DEF Quiet, vars
  <2> QED
    BY <2>1, <2>2, <2>3, <2>4
<1>2. TypeOK'
  <2>1. ASSUME NEW j \in Jobs, Exit(j) PROVE TypeOK'
    BY <2>1 DEF IInv, TypeOK, Exit
  <2>2. ASSUME NEW r \in Rigs, Clean(r) PROVE TypeOK'
    BY <2>2 DEF IInv, TypeOK, Clean
  <2>3. CASE Crash
    <3>1. crashes' \in 0..MaxCrashes
      BY <2>3 DEF IInv, TypeOK, Crash
    <3> QED
      BY <2>3, <3>1 DEF IInv, TypeOK, Crash
  <2>4. CASE UNCHANGED vars
    BY <2>4 DEF IInv, TypeOK, vars
  <2> QED
    BY <2>1, <2>2, <2>3, <2>4
<1>3. \A i \in Jobs : (Busy(i)' => Busy(i)) /\ (Live(i)' => Live(i))
  BY <1>1 DEF Quiet, Live, Busy
<1>4. ASSUME NEW i \in Jobs PROVE Stage(i)' /\ Sourced(i)' /\ Sole(i)' /\ Own(i)'
  <2>1. Stage(i)'
    BY <1>1, <1>3 DEF Quiet, IInv, Stage
  <2>2. Sourced(i)' /\ Own(i)'
    BY <1>1 DEF Quiet, IInv, Sourced, Own, AllPassed
  <2>3. Sole(i)'
    BY <1>1, <1>3 DEF Quiet, IInv, Sole
  <2> QED
    BY <2>1, <2>2, <2>3
<1>5. ASSUME NEW i \in Jobs, NEW k \in Jobs PROVE Met(i, k)'
  BY <1>1, <1>3 DEF Quiet, IInv, Met, Sharing
<1>6. ASSUME NEW r \in Rigs PROVE Filed(r)'
  BY <1>1 DEF Quiet, IInv, TypeOK, Filed
<1> QED
  BY <1>2, <1>4, <1>5, <1>6 DEF IInv

LEMMA NextIInv == IInv /\ [Next]_vars => IInv'
<1> SUFFICES ASSUME IInv, [Next]_vars PROVE IInv'
  OBVIOUS
<1>1. ASSUME NEW j \in Jobs, Refuse(j) \/ Collect(j) \/ TimeOut(j) \/ Locate(j) PROVE IInv'
  <2>1. CASE Refuse(j)
    BY <2>1, ThreadKeeps DEF Refuse, Finish, IInv, Stage, Live
  <2>2. CASE Collect(j)
    BY <2>2, ThreadKeeps DEF Collect, Finish
  <2>3. CASE TimeOut(j)
    BY <2>3, ThreadKeeps DEF TimeOut
  <2>4. CASE Locate(j)
    BY <2>4, ThreadKeeps DEF Locate, Finish, IInv, Stage
  <2> QED
    BY <1>1, <2>1, <2>2, <2>3, <2>4
<1>2. ASSUME NEW j \in Jobs, Parse(j) PROVE IInv'
  <2> DEFINE k == author[RigOf[j]]
  <2>1. k \in Jobs \cup {NoJob} /\ pc[j] = "parsing" /\ ~Live(j)
    BY <1>2, RigAssumption DEF Parse, IInv, TypeOK, Stage
  <2>2. CASE k # NoJob /\ whole[RigOf[j]]
    BY <1>2, <2>1, <2>2, ParseKeeps DEF Parse
  <2>3. CASE ~(k # NoJob /\ whole[RigOf[j]])
    BY <1>2, <2>1, <2>3, ThreadKeeps DEF Parse, Finish
  <2> QED
    BY <2>2, <2>3
<1> QED
  BY <1>1, <1>2, LaunchKeeps, KillKeeps, OpenKeeps, CloseKeeps, EnvironmentKeeps DEF Next, Execute

-----------------------------------------------------------------------------
(* The theorems.                                                           *)

(* The inductive invariant holds of every reachable state.                 *)
THEOREM RigInvariant == Spec => []IInv
  BY InitIInv, NextIInv, PTL DEF Spec

(* Steps, rigs and reports stay in their ranges.                           *)
THEOREM RigTypeOK == Spec => []TypeOK
<1>1. IInv => TypeOK
  BY DEF IInv
<1> QED
  BY <1>1, RigInvariant, PTL

(* No step has a result while its process lives, unless it could not be    *)
(* killed.                                                                 *)
THEOREM RigLeavesNoneRunning == Spec => []NoneLeftRunning
<1>1. IInv => NoneLeftRunning
  BY DEF IInv, Stage, NoneLeftRunning
<1> QED
  BY <1>1, RigInvariant, PTL

(* Every pass rests on a complete report of its rig that says so.          *)
THEOREM RigPassHasReport == Spec => []PassHasReport
<1>1. IInv => PassHasReport
  BY DEF IInv, TypeOK, Sourced, PassHasReport, AllPassed
<1> QED
  BY <1>1, RigInvariant, PTL

(* A step alone in its directory is judged by the report it wrote.         *)
THEOREM RigOwnReport == Spec => []OwnReportWhenAlone
<1>1. IInv => OwnReportWhenAlone
  BY RigAssumption DEF IInv, TypeOK, Sourced, Own, OwnReportWhenAlone, AllPassed
<1> QED
  BY <1>1, RigInvariant, PTL

-----------------------------------------------------------------------------
(* A result stands.                                                        *)

\* The result of step j, the report it was read from and what that report says.
Stands(j) ==
    /\ result'[j] = result[j] /\ evidence'[j] = evidence[j]
    /\ evidence[j] # NoJob =>
          /\ passed'[evidence[j]] = passed[evidence[j]]
          /\ failed'[evidence[j]] = failed[evidence[j]]

LEMMA ResultStands ==
    IInv /\ [Next]_vars => \A j \in Jobs : result[j] # "none" => Stands(j)
<1> SUFFICES ASSUME IInv, [Next]_vars, NEW j \in Jobs, result[j] # "none"
             PROVE  Stands(j)
  OBVIOUS
<1>1. TypeOK /\ pc[j] = "done"
  BY DEF IInv, Stage
<1>2. evidence[j] # NoJob => evidence[j] \in Jobs /\ wrote[evidence[j]]
  BY <1>1 DEF IInv, Sourced, TypeOK
<1>3. \A k \in Jobs : wrote[k] => process[k] \notin {"none", "running", "writing"}
  BY DEF IInv, Stage
<1>4. ASSUME NEW k \in Jobs, Refuse(k) \/ Launch(k) \/ Execute(k) PROVE Stands(j)
  <2>1. k # j
    BY <1>1, <1>4
       DEF Refuse, Launch, Execute, Collect, TimeOut, Kill, Locate, Parse
  <2>2. result'[j] = result[j]
    BY <1>1, <1>4, <2>1
       DEF TypeOK, Refuse, Launch, Execute, Collect, TimeOut, Kill, Locate, Parse, Finish
  <2>3. evidence'[j] = evidence[j]
    BY <1>1, <1>4, <2>1
       DEF TypeOK, Refuse, Launch, Execute, Collect, TimeOut, Kill, Locate, Parse, Finish
  <2>4. passed' = passed /\ failed' = failed
    BY <1>4 DEF Refuse, Launch, Execute, Collect, TimeOut, Kill, Locate, Parse, report
  <2> QED
    BY <2>2, <2>3, <2>4 DEF Stands
<1>5. ASSUME NEW k \in Jobs, Close(k) PROVE Stands(j)
  <2>1. process[k] = "writing" /\ evidence' = evidence /\ result' = result
    BY <1>5 DEF Close
  <2>2. evidence[j] # NoJob => evidence[j] # k
    BY <1>2, <1>3, <2>1
  <2>3. \A i \in Jobs \ {k} : passed'[i] = passed[i] /\ failed'[i] = failed[i]
    BY <1>1, <1>5 DEF Close, TypeOK
  <2> QED
    BY <1>2, <2>1, <2>2, <2>3 DEF Stands
<1>6. ASSUME NEW k \in Jobs, Open(k) \/ Exit(k) PROVE Stands(j)
  BY <1>6 DEF Open, Exit, report, Stands
<1>7. ASSUME NEW r \in Rigs, Clean(r) PROVE Stands(j)
  BY <1>7 DEF Clean, report, Stands
<1>8. CASE Crash \/ UNCHANGED vars
  BY <1>8 DEF Crash, vars, report, Stands
<1> QED
  BY <1>4, <1>5, <1>6, <1>7, <1>8 DEF Next

(* A step's result is given once, and stays true to the report it was read *)
(* from: whoever opens, overwrites or removes that report afterwards, an   *)
(* orphan of an earlier backend included, it was complete when it was read *)
(* (inji_executors.py:81-225; inji_report.py:54-112).                      *)
THEOREM RigResultStands ==
    Spec => [][\A j \in Jobs : result[j] # "none" => Stands(j)]_vars
<1>1. IInv /\ [Next]_vars => [\A j \in Jobs : result[j] # "none" => Stands(j)]_vars
  BY ResultStands
<1> QED
  BY <1>1, RigInvariant, PTL DEF Spec
=============================================================================
