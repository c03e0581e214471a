----------------------- MODULE ConformanceStepProofs -----------------------
(***************************************************************************)
(* Proofs about ConformanceStep: nothing is created twice at the suite, at *)
(* most one creation is unknown to the executor, and the step's verdict    *)
(* rests on the suite's, for any number of modules and retries.            *)
(***************************************************************************)
EXTENDS ConformanceStep, FiniteSetTheorems, SequenceTheorems, TLAPS

\* The one request that creates what position i stands for (0: the plan).
Creation(i) == [call |-> IF i = 0 THEN "create_plan" ELSE "create_test",
                module |-> i, attempt |-> 0]

Created(i) == IF i = 0 THEN plans ELSE created[i]
Known(i)   == i \in ids

\* Position i has not been asked for yet.
Ahead(i) == i > module \/ (i = module /\ pc \in Creating /\ ~waiting)

\* Each thing is asked for once: before that it is nowhere, then it is in the
\* request or at the suite, but not in both.
Slot(i) ==
    /\ Created(i) <= 1
    /\ Creation(i) \in wire => Created(i) = 0
    /\ Ahead(i) => Creation(i) \notin wire /\ Created(i) = 0 /\ ~Known(i)
    /\ Known(i) => Creation(i) \notin wire
    /\ i < module => Known(i)

\* Where the client is.
Place ==
    /\ pc \in Creating => attempt = 0
    /\ pc \notin {"create_plan", "done"} => module \in 1..modules /\ Len(results) = module - 1
    /\ pc = "create_plan" => module = 0 /\ results = <<>>
    /\ pc \in {"start", "wait", "info"} => Known(module)
    /\ pc # "done" => step.status = "none"
    /\ pc = "done" => ~waiting
    /\ pc \in Creating /\ answer.code # "none" => waiting /\ Creation(module) \notin wire
    /\ \A m \in wire : m.call \in Creating => m = Creation(m.module)

\* What the client has been told is so at the suite.
Told ==
    /\ \A i \in Positions : state[i] # "none" => created[i] > 0
    /\ pc = "wait" /\ answer.body \in {"FINISHED", "INTERRUPTED"} =>
          state[module] = answer.body
    /\ pc = "info" => state[module] = "FINISHED"
    /\ pc = "info" /\ answer.body \in {"passed", "failed"} => result[module] = answer.body

Reported(i) ==
    /\ results[i] = "PASSED" => state[i] = "FINISHED" /\ result[i] = "passed"
    /\ results[i] = "FAILED" =>
          \/ state[i] = "INTERRUPTED"
          \/ state[i] = "FINISHED" /\ result[i] = "failed"

Verdict ==
    /\ Len(results) <= module
    /\ \A i \in 1..Len(results) : Reported(i)
    /\ step.status = "PASSED" =>
          /\ AllReported /\ module = modules /\ Known(module)
          /\ \A i \in 1..modules : results[i] = "PASSED"
    /\ step.status = "FAILED" /\ step.modules # <<>> =>
          AllReported /\ \E i \in 1..modules : results[i] # "PASSED"

IInv == TypeOK /\ (\A i \in 0..MaxModules : Slot(i)) /\ Place /\ Told /\ Verdict

Outcomes == {"PASSED", "FAILED", "UNKNOWN"}

\* A request that has not been sent is well typed.
LEMMA FreshRequest ==
    /\ [code |-> "none", body |-> "none"] \in [code : Codes \cup {"none"}, body : Bodies]
    /\ 0 \in 0..MaxRetries /\ 0 \in 0..MaxModules /\ FALSE \in BOOLEAN
<1>1. "none" \in Codes \cup {"none"} /\ "none" \in Bodies
  BY DEF Bodies
<1> QED
  BY <1>1, SizesAssumption

-----------------------------------------------------------------------------
(* The initial states.                                                     *)

LEMMA InitIInv == Init => IInv
<1> SUFFICES ASSUME Init PROVE IInv
  OBVIOUS
<1> USE SizesAssumption DEF Init, Silence
<1>1. TypeOK
  <2>1. results \in Seq(Outcomes) /\ step \in [status : {"none", "PASSED", "FAILED"}, modules : Seq(Outcomes)]
    BY EmptySeq
  <2>2. answer \in [code : Codes \cup {"none"}, body : Bodies] /\ pc \in Calls
    BY FreshRequest DEF Calls, Creating
  <2>3. /\ plans \in Nat /\ created \in [Positions -> Nat]
        /\ state \in [Positions -> {"none", "created", "running", "FINISHED", "INTERRUPTED"}]
        /\ result \in [Positions -> {"none", "passed", "failed", "other"}]
    OBVIOUS
  <2>4. /\ module \in 0..MaxModules /\ modules \in 0..MaxModules
        /\ attempt \in 0..MaxRetries /\ waiting \in BOOLEAN
        /\ ids \in SUBSET (0..MaxModules) /\ wire \in SUBSET Requests
    BY FreshRequest
  <2> QED
    BY <2>1, <2>2, <2>3, <2>4 DEF TypeOK, Outcomes
<1>2. \A i \in 0..MaxModules : Slot(i)
  BY DEF Slot, Created, Known, Ahead, Positions
<1>3. Place /\ Told /\ Verdict
  BY EmptySeq DEF Place, Told, Verdict, AllReported, Known, Creating, Positions
<1> QED
  BY <1>1, <1>2, <1>3 DEF IInv

-----------------------------------------------------------------------------
(* The suite's steps.                                                      *)

\* What happens at the suite leaves ended modules as they are.
Final == \A i \in Positions : state[i] \in {"FINISHED", "INTERRUPTED"} =>
            state'[i] = state[i] /\ result'[i] = result[i]

LEMMA FinalKeepsVerdict ==
    ASSUME IInv, Final, UNCHANGED <<pc, module, modules, ids, results, step>>
    PROVE  Verdict'
<1> USE SizesAssumption DEF Positions
<1>1. \A i \in 1..Len(results) : Reported(i)'
  <2>1. Len(results) \in Nat /\ Len(results) <= module /\ module \in 0..MaxModules
    BY LenProperties DEF IInv, TypeOK, Verdict
  <2>2. ASSUME NEW i \in 1..Len(results) PROVE Reported(i)'
    <3>1. i \in Positions /\ Reported(i)
      BY <2>1 DEF IInv, Verdict
    <3> QED
      BY <3>1 DEF Reported, Final
  <2> QED
    BY <2>2
<1> QED
  BY <1>1 DEF IInv, Verdict, AllReported, Known

LEMMA CreationKeeps ==
    ASSUME IInv, NEW m \in wire, NEW code \in Codes, HandleCreation(m, code)
    PROVE  IInv'
<1> USE SizesAssumption DEF Positions
<1> DEFINE i == m.module
<1>1. m = Creation(i) /\ i \in 0..MaxModules /\ m \in Requests
  BY DEF HandleCreation, IInv, TypeOK, Place, Requests
<1>2. /\ UNCHANGED <<pc, module, modules, attempt, waiting, ids, results, step>>
      /\ wire' = wire \ {m}
      /\ \/ answer' = answer
         \/ /\ answer' = [code |-> code, body |-> "none"]
            /\ waiting /\ pc \in Creating /\ m = Creation(module)
  BY <1>1 DEF HandleCreation, Answered, Creation, Creating
<1>3. /\ result' = result
      /\ \/ UNCHANGED <<plans, created, state>>
         \/ i = 0 /\ plans' = plans + 1 /\ UNCHANGED <<created, state>>
         \/ /\ i \in Positions /\ plans' = plans
            /\ created' = [created EXCEPT ![i] = @ + 1]
            /\ state' = [state EXCEPT ![i] = "created"]
  BY <1>1 DEF HandleCreation, Creation, Creating
<1>4. TypeOK'
  <2>1. answer' \in [code : Codes \cup {"none"}, body : Bodies] /\ wire' \in SUBSET Requests
    BY <1>2 DEF IInv, TypeOK, Codes, Bodies
  <2>2. /\ plans' \in Nat /\ created' \in [Positions -> Nat]
        /\ state' \in [Positions -> {"none", "created", "running", "FINISHED", "INTERRUPTED"}]
        /\ result' \in [Positions -> {"none", "passed", "failed", "other"}]
    <3>1. plans' \in Nat /\ result' = result
      BY <1>3 DEF IInv, TypeOK
    <3>2. created' \in [Positions -> Nat]
      BY <1>3 DEF IInv, TypeOK
    <3>3. state' \in [Positions -> {"none", "created", "running", "FINISHED", "INTERRUPTED"}]
      BY <1>3 DEF IInv, TypeOK
    <3> QED
      BY <3>1, <3>2, <3>3 DEF IInv, TypeOK
  <2> QED
    BY <1>2, <2>1, <2>2 DEF IInv, TypeOK
<1>5. /\ Created(i) = 0 /\ Created(i)' \in {0, 1} /\ ~Ahead(i)
      /\ \A k \in 0..MaxModules \ {i} : Created(k)' = Created(k)
  BY <1>1, <1>3 DEF IInv, TypeOK, Slot, Created
<1>6. ASSUME NEW k \in 0..MaxModules PROVE Slot(k)'
  BY <1>1, <1>2, <1>5 DEF IInv, TypeOK, Slot, Known, Ahead, Creation
<1>7. Place'
  BY <1>2 DEF IInv, Place, Known
<1>8. i > 0 => state[i] = "none"
  BY <1>1, <1>5 DEF IInv, TypeOK, Told, Created
<1>9. Final /\ \A k \in Positions : state'[k] # "none" => created'[k] > 0
  <2>1. \A k \in Positions : created[k] \in Nat /\ (state[k] # "none" => created[k] > 0)
    BY DEF IInv, TypeOK, Told
  <2>2. CASE UNCHANGED <<created, state>>
    BY <1>3, <2>1, <2>2 DEF Final
  <2>3. CASE /\ i \in Positions
             /\ created' = [created EXCEPT ![i] = @ + 1]
             /\ state' = [state EXCEPT ![i] = "created"]
    <3>1. state[i] = "none" /\ created[i] + 1 > 0
      BY <1>8, <2>1, <2>3
    <3> QED
      BY <1>3, <2>1, <2>3, <3>1 DEF Final, IInv, TypeOK
  <2> QED
    BY <1>3, <2>2, <2>3
<1>10. Told'
  BY <1>2, <1>9 DEF IInv, TypeOK, Told, Place, Final, Creating
<1>11. Verdict'
  BY <1>2, <1>9, FinalKeepsVerdict
<1> QED
  BY <1>4, <1>6, <1>7, <1>10, <1>11 DEF IInv

LEMMA QueryKeeps ==
    ASSUME IInv, NEW m \in wire, NEW code \in Codes,
           HandleStart(m, code) \/ HandleQuery(m, code)
    PROVE  IInv'
<1> USE SizesAssumption DEF Positions
<1>1. m \in Requests /\ m.call \notin Creating /\ m.call \in {"start", "wait", "info"}
  BY DEF HandleStart, HandleQuery, IInv, TypeOK, Requests, Creating
<1>2. /\ UNCHANGED <<pc, module, modules, attempt, waiting, ids, results, step>>
      /\ wire' = wire \ {m}
  BY DEF HandleStart, HandleQuery, Answered
<1>3. /\ UNCHANGED <<plans, created, result>>
      /\ \/ state' = state
         \/ /\ state[m.module] = "created"
            /\ state' = [state EXCEPT ![m.module] = "running"]
  BY DEF HandleStart, HandleQuery, suite
<1>4. \/ answer' = answer
      \/ /\ pc = m.call /\ module = m.module /\ module \in Positions /\ waiting
         /\ answer'.code = code
         /\ answer' \in [code : Codes \cup {"none"}, body : Bodies]
         /\ pc = "wait" => answer'.body \in {state[module], "none"} /\ state' = state
         /\ pc = "info" => answer'.body \in {result[module], "none"} /\ state' = state
  <2>1. CASE ~(waiting /\ m = [call |-> pc, module |-> module, attempt |-> attempt])
    BY <2>1 DEF HandleStart, HandleQuery, Answered
  <2>2. CASE waiting /\ m = [call |-> pc, module |-> module, attempt |-> attempt]
    <3>1. pc = m.call /\ module = m.module /\ module \in Positions
      BY <1>1, <2>2 DEF IInv, TypeOK, Place
    <3>2. CASE HandleStart(m, code)
      BY <2>2, <3>1, <3>2 DEF HandleStart, Answered, Bodies
    <3>3. CASE HandleQuery(m, code)
      <4>1. /\ state' = state
            /\ \/ answer' = [code |-> code, body |-> IF pc = "wait" THEN state[module] ELSE result[module]]
               \/ answer' = [code |-> code, body |-> "none"]
        BY <2>2, <3>1, <3>3 DEF HandleQuery, Answered, suite
      <4>2. state[module] \in Bodies /\ result[module] \in Bodies /\ "none" \in Bodies
        BY <3>1 DEF IInv, TypeOK, Bodies
      <4>3. ASSUME NEW body \in Bodies, answer' = [code |-> code, body |-> body]
            PROVE  /\ answer'.code = code /\ answer'.body = body
                   /\ answer' \in [code : Codes \cup {"none"}, body : Bodies]
        BY <4>3
      <4>4. CASE answer' = [code |-> code, body |-> "none"]
        BY <2>2, <3>1, <4>1, <4>2, <4>3, <4>4
      <4>5. CASE pc = "wait" /\ answer' = [code |-> code, body |-> state[module]]
        BY <2>2, <3>1, <4>1, <4>2, <4>3, <4>5
      <4>6. CASE pc # "wait" /\ answer' = [code |-> code, body |-> result[module]]
        BY <2>2, <3>1, <4>1, <4>2, <4>3, <4>6
      <4> QED
        BY <4>1, <4>4, <4>5, <4>6
    <3> QED
      BY <3>2, <3>3
  <2> QED
    BY <2>1, <2>2
<1>5. TypeOK'
  <2>1. state' \in [Positions -> {"none", "created", "running", "FINISHED", "INTERRUPTED"}]
    BY <1>3 DEF IInv, TypeOK
  <2> QED
    BY <1>2, <1>3, <1>4, <2>1 DEF IInv, TypeOK
<1>6. created' = created /\ plans' = plans /\ result' = result
  BY <1>3
<1>7. ASSUME NEW k \in 0..MaxModules PROVE Slot(k)'
  BY <1>1, <1>2, <1>6 DEF IInv, Slot, Known, Ahead, Creation, Created
<1>8. Place'
  BY <1>1, <1>2, <1>4 DEF IInv, Place, Known
<1>9. Final /\ \A k \in Positions : state'[k] # "none" => state[k] # "none"
  BY <1>3 DEF IInv, TypeOK, Final
<1>10. Told'
  <2>1. CASE answer' = answer
    BY <1>2, <1>6, <1>9, <2>1 DEF IInv, TypeOK, Told, Place, Final
  <2>2. CASE answer' # answer
    BY <1>1, <1>2, <1>4, <1>6, <1>9, <2>2 DEF IInv, TypeOK, Told, Place, Final
  <2> QED
    BY <2>1, <2>2
<1>11. Verdict'
  BY <1>2, <1>9, FinalKeepsVerdict
<1> QED
  BY <1>5, <1>7, <1>8, <1>10, <1>11 DEF IInv

LEMMA OtherSuiteStepsKeep ==
    ASSUME IInv, \/ \E m \in wire : Lose(m)
                 \/ \E i \in Positions : ModuleEnds(i)
                 \/ UNCHANGED vars
    PROVE  IInv'
<1> USE SizesAssumption DEF Positions, client, vars
<1> USE DEF suite
<1>1. UNCHANGED client /\ wire' \subseteq wire
  BY DEF Lose, ModuleEnds
<1>2. /\ UNCHANGED <<plans, created>>
      /\ \/ UNCHANGED <<state, result>>
         \/ \E i \in Positions :
              /\ state[i] \in {"created", "running"}
              /\ \E s \in {"FINISHED", "INTERRUPTED"} : state' = [state EXCEPT ![i] = s]
              /\ \/ result' = result
                 \/ \E r \in {"passed", "failed", "other"} : result' = [result EXCEPT ![i] = r]
  BY DEF Lose, ModuleEnds
<1>3. TypeOK'
  BY <1>1, <1>2 DEF IInv, TypeOK
<1>4. created' = created /\ plans' = plans
  BY <1>2
<1>5. ASSUME NEW k \in 0..MaxModules PROVE Slot(k)'
  BY <1>1, <1>4 DEF IInv, Slot, Known, Ahead, Creation, Created
<1>6. Place'
  BY <1>1 DEF IInv, Place, Known, Creation
<1>7. Final /\ \A k \in Positions : state'[k] # "none" => state[k] # "none"
  BY <1>2 DEF IInv, TypeOK, Final
<1>8. Told'
  BY <1>1, <1>4, <1>7 DEF IInv, TypeOK, Told, Place, Final
<1>9. Verdict'
  BY <1>1, <1>7, FinalKeepsVerdict
<1> QED
  BY <1>3, <1>5, <1>6, <1>8, <1>9 DEF IInv

-----------------------------------------------------------------------------
(* The client's steps.                                                     *)

LEMMA SendKeeps == ASSUME IInv, Send PROVE IInv'
<1> USE SizesAssumption DEF Positions
<1> DEFINE m == [call |-> pc, module |-> module, attempt |-> attempt]
<1>1. /\ wire' = wire \cup {m} /\ waiting' = TRUE /\ pc \in Calls /\ ~waiting
      /\ UNCHANGED <<pc, module, modules, attempt, answer, ids, results, step>>
      /\ UNCHANGED <<plans, created, state, result>>
  BY DEF Send, suite
<1>2. m \in Requests /\ (pc \in Creating => m = Creation(module)) /\ (pc \notin Creating => m.call \notin Creating)
  BY <1>1 DEF Requests, IInv, TypeOK, Place, Creation, Creating, Calls
<1>3. TypeOK'
  BY <1>1, <1>2 DEF IInv, TypeOK
<1>4. ASSUME NEW i \in 0..MaxModules PROVE Slot(i)'
  <2>1. CASE i = module /\ pc \in Creating
    BY <1>1, <1>2, <2>1 DEF IInv, TypeOK, Slot, Ahead, Created, Known, Creation
  <2>2. CASE ~(i = module /\ pc \in Creating)
    <3>1. Creation(i) # m
      BY <1>2, <2>2 DEF Creation, Creating
    <3> QED
      BY <1>1, <2>2, <3>1 DEF IInv, TypeOK, Slot, Ahead, Created, Known
  <2> QED
    BY <2>1, <2>2
<1>5. Place'
  <2>1. pc # "done"
    BY <1>1 DEF Calls, Creating
  <2> QED
    BY <1>1, <1>2, <2>1 DEF IInv, Place, Known
<1>6. Told' /\ Verdict'
  BY <1>1 DEF IInv, Told, Verdict, AllReported, Reported, Known
<1> QED
  BY <1>3, <1>4, <1>5, <1>6 DEF IInv

LEMMA RetryKeeps == ASSUME IInv, Retry PROVE IInv'
<1> USE SizesAssumption DEF Positions
<1>1. /\ pc \in {"wait", "info"} /\ attempt < MaxRetries /\ attempt' = attempt + 1
      /\ waiting' = FALSE /\ answer' = [code |-> "none", body |-> "none"]
      /\ UNCHANGED <<pc, module, modules, ids, results, step, wire>>
      /\ UNCHANGED <<plans, created, state, result>>
  BY DEF Retry, Retryable, Silence, suite
<1>2. TypeOK'
  <2>1. attempt' \in 0..MaxRetries
    BY <1>1 DEF IInv, TypeOK
  <2>2. answer' \in [code : Codes \cup {"none"}, body : Bodies] /\ waiting' \in BOOLEAN
    BY <1>1, FreshRequest
  <2> QED
    BY <1>1, <2>1, <2>2 DEF IInv, TypeOK
<1>3. ASSUME NEW i \in 0..MaxModules PROVE Slot(i)'
  BY <1>1 DEF IInv, Slot, Ahead, Created, Known, Creating
<1>4. Place'
  BY <1>1 DEF IInv, Place, Known, Creating
<1>5. Told' /\ Verdict'
  BY <1>1 DEF IInv, Told, Verdict, AllReported, Reported, Known
<1> QED
  BY <1>2, <1>3, <1>4, <1>5 DEF IInv

\* A step that fails: nothing is sent any more.
LEMMA FailKeeps ==
    ASSUME IInv, Fail, ids' = ids \/ (pc = "create_plan" /\ answer.code = "ok" /\ ids' = ids \cup {0}),
           UNCHANGED <<wire, suite>>
    PROVE  IInv'
<1> USE SizesAssumption DEF Positions
<1>1. /\ pc' = "done" /\ waiting' = FALSE /\ answer' = [code |-> "none", body |-> "none"]
      /\ attempt' = 0 /\ step' = [status |-> "FAILED", modules |-> <<>>]
      /\ UNCHANGED <<module, modules, results, wire>>
      /\ UNCHANGED <<plans, created, state, result>>
  BY DEF Fail, Call, Silence, suite
<1>2. TypeOK'
  BY <1>1, EmptySeq, FreshRequest DEF IInv, TypeOK
<1>3. ASSUME NEW i \in 0..MaxModules PROVE Slot(i)'
  BY <1>1 DEF IInv, TypeOK, Slot, Ahead, Created, Known, Creating, Place
<1>4. Place'
  BY <1>1 DEF IInv, Place, Known, Creating
<1>5. Told' /\ Verdict'
  BY <1>1 DEF IInv, Told, Verdict, AllReported, Reported, Known
<1> QED
  BY <1>2, <1>3, <1>4, <1>5 DEF IInv

\* The next call for the module in hand, with its id known.
LEMMA NextCallKeeps ==
    ASSUME IInv, NEW call \in {"start", "wait", "info"}, Call(call, module),
           pc \notin {"create_plan", "done"},
           \/ pc # "create_test" /\ ids' = ids
           \/ answer.code = "ok" /\ ids' = ids \cup {module},
           call = "info" => state[module] = "FINISHED",
           UNCHANGED <<modules, results, step, wire, suite>>
    PROVE  IInv'
<1> USE SizesAssumption DEF Positions
<1>1. /\ pc' = call /\ waiting' = FALSE /\ answer' = [code |-> "none", body |-> "none"]
      /\ attempt' = 0
      /\ UNCHANGED <<module, modules, results, step, wire>>
      /\ UNCHANGED <<plans, created, state, result>>
  BY DEF Call, Silence, suite
<1>2. TypeOK'
  BY <1>1, FreshRequest DEF IInv, TypeOK, Calls
<1>3. ids \subseteq ids' /\ ids' \subseteq ids \cup {module} /\ module \in ids'
  BY DEF IInv, Place, Known, TypeOK, Calls, Creating
<1>4. module \in ids' => Creation(module) \notin wire
  BY DEF IInv, Place, TypeOK, Slot, Known, Calls, Creating
<1>5. ASSUME NEW i \in 0..MaxModules PROVE Slot(i)'
  BY <1>1, <1>3, <1>4 DEF IInv, TypeOK, Slot, Ahead, Created, Known, Creating
<1>6. Place'
  BY <1>1, <1>3 DEF IInv, Place, Known, Creating, TypeOK, Calls
<1>7. Told' /\ Verdict'
  BY <1>1, <1>3 DEF IInv, Told, Verdict, AllReported, Reported, Known
<1> QED
  BY <1>2, <1>5, <1>6, <1>7 DEF IInv

\* A module's result that the suite bears out.
LEMMA RecordKeeps ==
    ASSUME IInv, NEW outcome \in Outcomes, Record(outcome), pc \in {"wait", "info"},
           outcome = "PASSED" => state[module] = "FINISHED" /\ result[module] = "passed",
           outcome = "FAILED" => \/ state[module] = "INTERRUPTED"
                                 \/ state[module] = "FINISHED" /\ result[module] = "failed",
           UNCHANGED <<wire, suite>>
    PROVE  IInv'
<1> USE SizesAssumption DEF Positions
<1> DEFINE n == Len(results)
<1>1. /\ n \in Nat /\ n = module - 1 /\ module \in 1..modules /\ modules \in 0..MaxModules
      /\ results \in Seq(Outcomes) /\ module \in ids
  BY LenProperties DEF IInv, TypeOK, Place, Outcomes, Known
<1>2. /\ results' = Append(results, outcome) /\ results' \in Seq(Outcomes) /\ Len(results') = module
      /\ results'[module] = outcome
      /\ \A i \in 1..n : results'[i] = results[i]
  BY <1>1, AppendProperties DEF Record
<1>3. /\ waiting' = FALSE /\ answer' = [code |-> "none", body |-> "none"] /\ attempt' = 0
      /\ UNCHANGED <<modules, ids, wire, plans, created, state, result>>
  BY DEF Record, Call, Silence, suite
<1>4. \/ /\ module = modules /\ pc' = "done" /\ module' = module
         /\ step'.modules = results' /\ step' \in [status : {"PASSED", "FAILED"}, modules : Seq(Outcomes)]
         /\ step'.status = "PASSED" <=> \A i \in 1..modules : results'[i] = "PASSED"
      \/ /\ module < modules /\ pc' = "create_test" /\ module' = module + 1 /\ step' = step
  <2>1. CASE module = modules
    BY <1>2, <2>1 DEF Record, Call
  <2>2. CASE module # modules
    BY <1>1, <2>2 DEF Record, Call
  <2> QED
    BY <2>1, <2>2
<1>5. TypeOK'
  <2>1. /\ attempt' \in 0..MaxRetries /\ waiting' \in BOOLEAN
        /\ answer' \in [code : Codes \cup {"none"}, body : Bodies]
    BY <1>3, FreshRequest
  <2>2. module' \in 0..MaxModules /\ pc' \in Calls \cup {"done"}
    BY <1>1, <1>4 DEF Calls, Creating
  <2>3. /\ results' \in Seq({"PASSED", "FAILED", "UNKNOWN"})
        /\ step' \in [status : {"none", "PASSED", "FAILED"}, modules : Seq({"PASSED", "FAILED", "UNKNOWN"})]
    BY <1>2, <1>4 DEF IInv, TypeOK, Outcomes
  <2> QED
    BY <1>3, <2>1, <2>2, <2>3 DEF IInv, TypeOK
<1>6. ASSUME NEW i \in 0..MaxModules PROVE Slot(i)'
  BY <1>1, <1>3, <1>4 DEF IInv, TypeOK, Slot, Ahead, Created, Known, Creating
<1>7. Place'
  BY <1>1, <1>2, <1>3, <1>4 DEF IInv, Place, Known, Creating
<1>8. Told'
  BY <1>3, <1>4 DEF IInv, Told
<1>9. Verdict'
  <2>1. \A i \in 1..Len(results') : Reported(i)'
    BY <1>1, <1>2, <1>3 DEF IInv, Verdict, Reported
  <2>2. step.status = "none"
    BY DEF IInv, Place
  <2> QED
    BY <1>1, <1>2, <1>3, <1>4, <2>1, <2>2 DEF Verdict, AllReported, Known
<1> QED
  BY <1>5, <1>6, <1>7, <1>8, <1>9 DEF IInv

LEMMA PlanCreatedKeeps == ASSUME IInv, PlanCreated PROVE IInv'
<1> USE SizesAssumption DEF Positions
<1>1. pc = "create_plan" /\ answer.code = "ok" /\ ids' = ids \cup {0} /\ UNCHANGED <<wire, suite>>
  BY DEF PlanCreated, Returns
<1>2. CASE Fail
  BY <1>1, <1>2, FailKeeps
<1>3. CASE modules' \in Positions /\ Call("create_test", 1) /\ UNCHANGED <<results, step>>
  <2>1. /\ pc' = "create_test" /\ module' = 1 /\ attempt' = 0 /\ waiting' = FALSE
        /\ answer' = [code |-> "none", body |-> "none"]
        /\ UNCHANGED <<results, step, wire, plans, created, state, result>>
    BY <1>1, <1>3 DEF Call, Silence, suite
  <2>2. module = 0 /\ results = <<>> /\ Creation(0) \notin wire /\ step.status = "none" /\ 0 \in 0..MaxModules
    BY <1>1 DEF IInv, Place, Creating
  <2>3. TypeOK'
    <3>1. /\ attempt' \in 0..MaxRetries /\ waiting' \in BOOLEAN
          /\ answer' \in [code : Codes \cup {"none"}, body : Bodies]
      BY <2>1, FreshRequest
    <3>2. module' \in 0..MaxModules /\ modules' \in 0..MaxModules /\ pc' \in Calls
      BY <1>3, <2>1 DEF Calls, Creating
    <3>3. ids' \in SUBSET (0..MaxModules)
      BY <1>1, <2>2 DEF IInv, TypeOK
    <3> QED
      BY <2>1, <3>1, <3>2, <3>3 DEF IInv, TypeOK
  <2>4. ASSUME NEW i \in 0..MaxModules PROVE Slot(i)'
    BY <1>1, <2>1, <2>2 DEF IInv, TypeOK, Slot, Ahead, Created, Known, Creating
  <2>5. Place'
    BY <1>1, <1>3, <2>1, <2>2, EmptySeq DEF IInv, Place, Known, Creating
  <2>6. Told' /\ Verdict'
    BY <2>1, <2>2, EmptySeq DEF IInv, Told, Verdict, AllReported, Reported, Known
  <2> QED
    BY <2>3, <2>4, <2>5, <2>6 DEF IInv
<1> QED
  BY <1>2, <1>3 DEF PlanCreated

LEMMA ExecuteKeeps == ASSUME IInv, Execute PROVE IInv'
<1>1. CASE Misconfigured
  BY <1>1, FailKeeps DEF Misconfigured
<1>2. CASE TestCreated
  BY <1>2, NextCallKeeps DEF TestCreated, Returns
<1>3. CASE Started
  BY <1>3, NextCallKeeps DEF Started
<1>4. CASE StateReached
  <2>1. pc = "wait" /\ UNCHANGED <<wire, suite>>
    BY <1>4 DEF StateReached, Returns
  <2>2. CASE answer.body = "INTERRUPTED"
    BY <1>4, <2>1, <2>2, RecordKeeps DEF StateReached, IInv, Told, Outcomes
  <2>3. CASE answer.body = "FINISHED"
    BY <1>4, <2>1, <2>3, NextCallKeeps DEF StateReached, IInv, Told
  <2>4. CASE answer.body \notin {"INTERRUPTED", "FINISHED"}
    BY <1>4, <2>1, <2>4, RecordKeeps DEF StateReached, Outcomes
  <2> QED
    BY <2>2, <2>3, <2>4
<1>5. CASE InfoRead
  <2>1. pc = "info" /\ UNCHANGED <<wire, suite>> /\ state[module] = "FINISHED"
    BY <1>5 DEF InfoRead, Returns, IInv, Told
  <2>2. CASE answer.body = "passed"
    BY <1>5, <2>1, <2>2, RecordKeeps DEF InfoRead, IInv, Told, Outcomes
  <2>3. CASE answer.body = "failed"
    BY <1>5, <2>1, <2>3, RecordKeeps DEF InfoRead, IInv, Told, Outcomes
  <2>4. CASE answer.body \notin {"passed", "failed"}
    BY <1>5, <2>1, <2>4, RecordKeeps DEF InfoRead, Outcomes
  <2> QED
    BY <2>2, <2>3, <2>4
<1>6. CASE Error
  <2>1. CASE pc = "info"
    BY <1>6, <2>1, RecordKeeps DEF Error, Outcomes
  <2>2. CASE pc # "info"
    BY <1>6, <2>2, FailKeeps DEF Error
  <2> QED
    BY <2>1, <2>2
<1> QED
  BY <1>1, <1>2, <1>3, <1>4, <1>5, <1>6, SendKeeps, RetryKeeps, PlanCreatedKeeps DEF Execute

LEMMA NextIInv == IInv /\ [Next]_vars => IInv'
  BY ExecuteKeeps, CreationKeeps, QueryKeeps, OtherSuiteStepsKeep DEF Next, Handle

-----------------------------------------------------------------------------
(* The theorems.                                                           *)

(* The inductive invariant holds of every reachable state.                 *)
THEOREM StepInvariant == Spec => []IInv
  BY InitIInv, NextIInv, PTL DEF Spec

(* What the executor knows and what the suite has stay in their ranges.    *)
THEOREM StepTypeOK == Spec => []TypeOK
<1>1. IInv => TypeOK
  BY DEF IInv
<1> QED
  BY <1>1, StepInvariant, PTL

(* However many requests are lost, late or answered with an error, the     *)
(* step's plan and each of its modules are created once at most.           *)
THEOREM StepCreatesOnce == Spec => []NothingCreatedTwice
<1>1. IInv => NothingCreatedTwice
  <2> SUFFICES ASSUME IInv PROVE NothingCreatedTwice
    OBVIOUS
  <2>1. Slot(0) /\ \A i \in Positions : Slot(i) /\ i # 0
    BY SizesAssumption DEF IInv, Positions
  <2> QED
    BY <2>1 DEF NothingCreatedTwice, Slot, Created
<1> QED
  BY <1>1, StepInvariant, PTL

(* A step passes only if all its modules finished and passed at the suite. *)
THEOREM StepVerdict == Spec => []VerdictRestsOnSuite
<1>1. IInv => VerdictRestsOnSuite
  <2> SUFFICES ASSUME IInv PROVE VerdictRestsOnSuite
    OBVIOUS
  <2> QED
    BY DEF IInv, Verdict, AllReported, Reported, VerdictRestsOnSuite
<1> QED
  BY <1>1, StepInvariant, PTL

(* What the suite has, or may still get, and the executor does not know    *)
(* of, is one plan or module at most, and nothing once the step passed.    *)
THEOREM StepLeavesOneUnknown == Spec => []OneUnknownAtMost
<1>1. IInv => OneUnknownAtMost
  <2> SUFFICES ASSUME IInv PROVE OneUnknownAtMost
    OBVIOUS
  <2> USE SizesAssumption DEF Positions
  <2>1. \A i \in 0..MaxModules : i \in Unknown <=> ~Known(i) /\ Created(i) > 0
    BY DEF Unknown, Known, Created
  <2>2. Unknown \subseteq {module}
    BY <2>1 DEF IInv, TypeOK, Slot, Ahead, Unknown
  <2>3. Late \subseteq {Creation(module)}
    <3>1. ASSUME NEW m \in Late PROVE m = Creation(module)
      <4>1. m \in wire /\ m = Creation(m.module) /\ m.module \in 0..MaxModules
        BY <3>1 DEF Late, IInv, Place, TypeOK, Requests
      <4>2. m.module = module
        BY <4>1 DEF IInv, TypeOK, Slot, Ahead
      <4> QED
        BY <4>1, <4>2
    <3> QED
      BY <3>1
  <2>4. Unknown = {} \/ Late = {}
    BY <2>1, <2>2, <2>3 DEF IInv, TypeOK, Slot, Late
  <2>5. Cardinality(Unknown) + Cardinality(Late) <= 1
    <3>1. /\ Cardinality(Unknown) \in Nat /\ Cardinality(Unknown) <= 1
          /\ Cardinality(Late) \in Nat /\ Cardinality(Late) <= 1
      <4>1. ASSUME NEW x, NEW S \in SUBSET {x}
            PROVE  Cardinality(S) \in Nat /\ Cardinality(S) <= 1
        <5>1. IsFiniteSet({x}) /\ Cardinality({x}) = 1
          BY FS_Singleton
        <5>2. IsFiniteSet(S) /\ Cardinality(S) <= Cardinality({x})
          BY <5>1, FS_Subset
        <5> QED
          BY <5>1, <5>2, FS_CardinalityType
      <4> QED
        BY <2>2, <2>3, <4>1
    <3>2. Unknown = {} => Cardinality(Unknown) = 0
      BY FS_EmptySet
    <3>3. Late = {} => Cardinality(Late) = 0
      BY FS_EmptySet
    <3> QED
      BY <2>4, <3>1, <3>2, <3>3
  <2>6. step.status = "PASSED" => Unknown = {} /\ Late = {}
    BY <2>1, <2>2, <2>3 DEF IInv, TypeOK, Slot, Verdict, AllReported, Late
  <2> QED
    BY <2>5, <2>6 DEF OneUnknownAtMost
<1> QED
  BY <1>1, StepInvariant, PTL

-----------------------------------------------------------------------------
(* How long a step can take.                                               *)

\* Sending a request and what follows it, for each call of a module: the two
\* that are sent once and the two that are retried.
PerModule == 4 * MaxRetries + 8

\* Of these, what comes after a call.
Rest(call) ==
    CASE call = "create_test" -> 4 * MaxRetries + 6
      [] call = "start"       -> 4 * MaxRetries + 4
      [] call = "wait"        -> 2 * MaxRetries + 2
      [] OTHER                -> 0

\* What is left of the call in hand, and the modules after the one in hand.
InCall == 2 * (IF pc \in Retryable THEN MaxRetries - attempt ELSE 0)
            + IF waiting THEN 1 ELSE 2
Modules == IF pc = "create_plan" THEN MaxModules ELSE modules - module

ToCome == IF pc = "done" THEN 0 ELSE InCall + Rest(pc) + Modules * PerModule

LEMMA Product ==
    ASSUME NEW k \in Nat, NEW n \in Nat
    PROVE  k * n \in Nat /\ (k + 1) * n = k * n + n
OBVIOUS

LEMMA ProductGrows ==
    ASSUME NEW k \in Nat, NEW l \in Nat, k <= l, NEW n \in Nat
    PROVE  k * n <= l * n
OBVIOUS

LEMMA ToComeIs ==
    ASSUME IInv
    PROVE  /\ pc \in Calls \cup {"done"} /\ InCall \in Nat \ {0}
           /\ Rest(pc) \in Nat /\ PerModule \in Nat
           /\ pc # "done" => Modules \in 0..MaxModules
           /\ ToCome \in Nat
<1>1. /\ pc \in Calls \cup {"done"} /\ attempt \in 0..MaxRetries /\ MaxRetries \in Nat
      /\ MaxModules \in Nat /\ module \in 0..MaxModules /\ modules \in 0..MaxModules
      /\ waiting \in BOOLEAN
  BY SizesAssumption DEF IInv, TypeOK
<1>2. InCall \in Nat \ {0}
  <2>1. (IF pc \in Retryable THEN MaxRetries - attempt ELSE 0) \in Nat
    BY <1>1
  <2>2. (IF waiting THEN 1 ELSE 2) \in Nat \ {0}
    OBVIOUS
  <2> QED
    BY <2>1, <2>2 DEF InCall
<1>3. Rest(pc) \in Nat /\ PerModule \in Nat
  BY <1>1 DEF Rest, PerModule
<1>4. pc # "done" => Modules \in 0..MaxModules
  <2>1. pc \notin {"create_plan", "done"} => module \in 1..modules
    BY DEF IInv, Place
  <2> QED
    BY <1>1, <2>1 DEF Modules
<1>5. ToCome \in Nat
  <2>1. ASSUME pc # "done" PROVE Modules * PerModule \in Nat
    BY <1>1, <1>3, <1>4, <2>1, Product
  <2> QED
    BY <1>2, <1>3, <2>1 DEF ToCome
<1> QED
  BY <1>1, <1>2, <1>3, <1>4, <1>5

\* A later call of the same module.
LEMMA LaterCall ==
    ASSUME IInv, NEW call \in Calls, Call(call, module), modules' = modules,
           call \notin Creating, pc \in Calls, pc # "create_plan",
           2 * (IF call \in Retryable THEN MaxRetries ELSE 0) + 2 + Rest(call) <= Rest(pc)
    PROVE  ToCome' < ToCome
<1>1. /\ pc \in Calls /\ InCall \in Nat \ {0} /\ Rest(pc) \in Nat /\ PerModule \in Nat
      /\ Modules \in Nat /\ MaxRetries \in Nat
  BY ToComeIs, SizesAssumption DEF Calls, Creating
<1>2. Modules * PerModule \in Nat
  BY <1>1, Product
<1>3. /\ pc' = call /\ module' = module /\ attempt' = 0 /\ ~waiting'
      /\ call # "done" /\ call # "create_plan" /\ pc # "done"
  BY DEF Call, Calls, Creating
<1>4. Modules' = Modules
  BY <1>3 DEF Modules
<1>5. InCall' = 2 * (IF call \in Retryable THEN MaxRetries ELSE 0) + 2
  BY <1>1, <1>3 DEF InCall, Retryable
<1>6. ToCome' = InCall' + Rest(call) + Modules * PerModule
  BY <1>3, <1>4 DEF ToCome, Rest, PerModule
<1>7. ToCome = InCall + Rest(pc) + Modules * PerModule
  BY <1>3 DEF ToCome
<1>8. Rest(call) \in Nat
  BY <1>1 DEF Rest
<1>9. InCall' \in Nat
  BY <1>1, <1>5
<1>10. InCall' + Rest(call) <= Rest(pc)
  BY <1>5
<1> QED
  BY <1>1, <1>2, <1>6, <1>7, <1>8, <1>9, <1>10

\* The first call of the next module.
LEMMA NextModule ==
    ASSUME IInv, NEW i \in Nat, Call("create_test", i), pc \in Calls,
           modules' - i \in Nat, (modules' - i) + 1 <= Modules
    PROVE  ToCome' < ToCome
<1>1. /\ InCall \in Nat \ {0} /\ Rest(pc) \in Nat /\ PerModule \in Nat
      /\ Modules \in Nat /\ MaxRetries \in Nat /\ pc # "done"
  BY ToComeIs, SizesAssumption DEF Calls, Creating
<1> DEFINE left == modules' - i
<1>2. /\ left * PerModule \in Nat /\ (left + 1) * PerModule = left * PerModule + PerModule
      /\ (left + 1) * PerModule <= Modules * PerModule /\ Modules * PerModule \in Nat
  <2> HIDE DEF left
  <2>1. left \in Nat /\ left + 1 \in Nat /\ left + 1 <= Modules
    BY DEF left
  <2> QED
    BY <1>1, <2>1, Product, ProductGrows
<1>3. pc' = "create_test" /\ module' = i /\ attempt' = 0 /\ ~waiting'
  BY DEF Call
<1>4. Modules' = left /\ InCall' = 2
  BY <1>3 DEF Modules, InCall, Retryable
<1>5. Rest(pc') = 4 * MaxRetries + 6 /\ PerModule' = PerModule
  BY <1>3 DEF Rest, PerModule
<1>6. ToCome' = 2 + (4 * MaxRetries + 6) + left * PerModule
  BY <1>3, <1>4, <1>5 DEF ToCome, Rest
<1>7. ToCome = InCall + Rest(pc) + Modules * PerModule
  BY <1>1 DEF ToCome
<1>8. 2 + (4 * MaxRetries + 6) = PerModule
  BY <1>1 DEF PerModule
<1> HIDE DEF left
<1> QED
  BY <1>1, <1>2, <1>6, <1>7, <1>8

\* The end of the step.
LEMMA LastCall ==
    ASSUME IInv, Call("done", module), pc \in Calls
    PROVE  ToCome' < ToCome
<1>1. /\ InCall \in Nat \ {0} /\ Rest(pc) \in Nat /\ PerModule \in Nat
      /\ Modules \in Nat /\ pc # "done"
  BY ToComeIs, SizesAssumption DEF Calls, Creating
<1>2. Modules * PerModule \in Nat
  BY <1>1, Product
<1>3. ToCome' = 0
  BY DEF Call, ToCome
<1>4. ToCome = InCall + Rest(pc) + Modules * PerModule
  BY <1>1 DEF ToCome
<1> QED
  BY <1>1, <1>2, <1>3, <1>4

LEMMA RecordDescends ==
    ASSUME IInv, NEW outcome \in Outcomes, Record(outcome), pc \in {"wait", "info"}
    PROVE  ToCome' < ToCome
<1>1. pc \in Calls /\ module \in 1..modules /\ modules \in 0..MaxModules /\ MaxModules \in Nat
  BY SizesAssumption DEF Calls, IInv, TypeOK, Place
<1>2. CASE module = modules
  BY <1>1, <1>2, LastCall DEF Record
<1>3. CASE module # modules
  <2>1. Call("create_test", module + 1) /\ modules' = modules
    BY <1>3 DEF Record
  <2>2. /\ module + 1 \in Nat /\ modules - (module + 1) \in Nat
        /\ (modules - (module + 1)) + 1 <= modules - module
    BY <1>1, <1>3
  <2>3. Modules = modules - module
    BY DEF Modules
  <2> QED
    BY <1>1, <2>1, <2>2, <2>3, NextModule
<1> QED
  BY <1>2, <1>3

\* A request is sent, or sent again: the call in hand gets shorter.
LEMMA SameCall ==
    ASSUME IInv, pc \in Calls, UNCHANGED <<pc, module, modules>>, InCall' < InCall,
           InCall' \in Nat
    PROVE  ToCome' < ToCome
<1>1. /\ InCall \in Nat /\ Rest(pc) \in Nat /\ PerModule \in Nat
      /\ Modules \in Nat /\ pc # "done"
  BY ToComeIs, SizesAssumption DEF Calls, Creating
<1>2. Modules * PerModule \in Nat
  BY <1>1, Product
<1>3. ToCome' = InCall' + Rest(pc) + Modules * PerModule
  BY <1>1 DEF ToCome, Modules, Rest, PerModule
<1>4. ToCome = InCall + Rest(pc) + Modules * PerModule
  BY <1>1 DEF ToCome
<1> QED
  BY <1>1, <1>2, <1>3, <1>4

LEMMA ExecuteDescends == ASSUME IInv, Execute PROVE ToCome' < ToCome
<1>1. /\ attempt \in 0..MaxRetries /\ MaxRetries \in Nat /\ MaxModules \in Nat
      /\ module \in 0..MaxModules /\ waiting \in BOOLEAN /\ pc \in Calls \cup {"done"}
  BY SizesAssumption DEF IInv, TypeOK
<1>2. CASE Send
  <2>1. pc \in Calls /\ ~waiting /\ waiting' /\ UNCHANGED <<pc, module, modules, attempt>>
    BY <1>2 DEF Send
  <2>2. (IF pc \in Retryable THEN MaxRetries - attempt ELSE 0) \in Nat
    BY <1>1
  <2>3. InCall' < InCall /\ InCall' \in Nat
    BY <2>1, <2>2 DEF InCall
  <2> QED
    BY <2>1, <2>3, SameCall
<1>3. CASE Retry
  <2>1. /\ pc \in Retryable /\ attempt < MaxRetries /\ waiting
        /\ attempt' = attempt + 1 /\ ~waiting' /\ UNCHANGED <<pc, module, modules>>
    BY <1>3 DEF Retry, Transient
  <2>2. InCall = 2 * (MaxRetries - attempt) + 1 /\ InCall' = 2 * (MaxRetries - (attempt + 1)) + 2
    BY <2>1 DEF InCall
  <2>3. InCall' < InCall /\ InCall' \in Nat
    BY <1>1, <2>1, <2>2
  <2> QED
    BY <2>1, <2>3, SameCall DEF Retryable, Calls
<1>4. CASE Misconfigured
  BY <1>4, LastCall DEF Misconfigured, Fail, Calls, Creating
<1>5. CASE PlanCreated
  <2>1. pc = "create_plan" /\ pc \in Calls
    BY <1>5 DEF PlanCreated, Returns, Calls, Creating
  <2>2. CASE Fail
    BY <2>1, <2>2, LastCall DEF Fail
  <2>3. CASE modules' \in Positions /\ Call("create_test", 1)
    <3>0. modules' \in 1..MaxModules /\ Modules = MaxModules
      BY <2>1, <2>3 DEF Positions, Modules
    <3>1. modules' - 1 \in Nat /\ (modules' - 1) + 1 <= Modules
      <4>1. PICK k \in 1..MaxModules : modules' = k
        BY <3>0
      <4> QED
        BY <1>1, <3>0, <4>1
    <3> QED
      BY <2>1, <2>3, <3>1, NextModule
  <2> QED
    BY <1>5, <2>2, <2>3 DEF PlanCreated
<1>6. CASE TestCreated
  <2>1. pc = "create_test" /\ Call("start", module) /\ modules' = modules
    BY <1>6 DEF TestCreated, Returns
  <2>2. "start" \notin Retryable /\ "start" \in Calls /\ "start" \notin Creating /\ pc \in Calls
    BY <2>1 DEF Retryable, Calls, Creating
  <2>3. Rest("start") = 4 * MaxRetries + 4 /\ Rest(pc) = 4 * MaxRetries + 6
    BY <2>1 DEF Rest
  <2>4. 2 * (IF "start" \in Retryable THEN MaxRetries ELSE 0) + 2 + Rest("start") <= Rest(pc)
    BY <1>1, <2>2, <2>3
  <2> QED
    BY <2>1, <2>2, <2>4, LaterCall
<1>7. CASE Started
  <2>1. pc = "start" /\ Call("wait", module) /\ modules' = modules
    BY <1>7 DEF Started
  <2>2. "wait" \in Retryable /\ "wait" \in Calls /\ "wait" \notin Creating /\ pc \in Calls
    BY <2>1 DEF Retryable, Calls, Creating
  <2>3. Rest("wait") = 2 * MaxRetries + 2 /\ Rest(pc) = 4 * MaxRetries + 4
    BY <2>1 DEF Rest
  <2>4. 2 * (IF "wait" \in Retryable THEN MaxRetries ELSE 0) + 2 + Rest("wait") <= Rest(pc)
    BY <1>1, <2>2, <2>3
  <2> QED
    BY <2>1, <2>2, <2>4, LaterCall
<1>8. CASE StateReached
  <2>1. pc = "wait"
    BY <1>8 DEF StateReached, Returns
  <2>2. \/ \E outcome \in Outcomes : Record(outcome)
        \/ Call("info", module) /\ modules' = modules
    BY <1>8 DEF StateReached, Outcomes
  <2>3. CASE Call("info", module) /\ modules' = modules
    <3>1. "info" \in Retryable /\ "info" \in Calls /\ "info" \notin Creating /\ pc \in Calls
      BY <2>1 DEF Retryable, Calls, Creating
    <3>2. Rest("info") = 0 /\ Rest(pc) = 2 * MaxRetries + 2
      BY <2>1 DEF Rest
    <3>3. 2 * (IF "info" \in Retryable THEN MaxRetries ELSE 0) + 2 + Rest("info") <= Rest(pc)
      BY <1>1, <3>1, <3>2
    <3> QED
      BY <2>1, <2>3, <3>1, <3>3, LaterCall
  <2> QED
    BY <2>1, <2>2, <2>3, RecordDescends
<1>9. CASE InfoRead
  <2>1. pc = "info" /\ \E outcome \in Outcomes : Record(outcome)
    BY <1>9 DEF InfoRead, Returns, Outcomes
  <2> QED
    BY <2>1, RecordDescends
<1>10. CASE Error
  <2>1. pc \in Calls
    BY <1>1, <1>10 DEF Error, Raises, IInv, Place
  <2>2. CASE pc = "info"
    BY <1>10, <2>2, RecordDescends DEF Error, Outcomes
  <2>3. CASE pc # "info"
    BY <1>10, <2>1, <2>3, LastCall DEF Error, Fail
  <2> QED
    BY <2>2, <2>3
<1> QED
  BY <1>2, <1>3, <1>4, <1>5, <1>6, <1>7, <1>8, <1>9, <1>10 DEF Execute

LEMMA OtherStepLeaves ==
    ASSUME [Next]_vars, ~Execute
    PROVE  ToCome' = ToCome
<1>1. UNCHANGED <<pc, module, modules, attempt, waiting>>
  <2>1. ASSUME NEW m \in wire, Handle(m) PROVE UNCHANGED <<pc, module, modules, attempt, waiting>>
    BY <2>1 DEF Handle, HandleCreation, HandleStart, HandleQuery, Answered
  <2>2. ASSUME NEW m \in wire, Lose(m) PROVE UNCHANGED <<pc, module, modules, attempt, waiting>>
    BY <2>2 DEF Lose, client
  <2>3. ASSUME NEW i \in Positions, ModuleEnds(i)
        PROVE  UNCHANGED <<pc, module, modules, attempt, waiting>>
    BY <2>3 DEF ModuleEnds, client
  <2>4. CASE UNCHANGED vars
    BY <2>4 DEF vars, client
  <2> QED
    BY <2>1, <2>2, <2>3, <2>4 DEF Next
<1> QED
  BY <1>1 DEF ToCome, InCall, Modules, Rest, PerModule

\* A step of the executor takes from what is to come; the suite and the network
\* add nothing to it.
Ends == IF Execute THEN ToCome' < ToCome ELSE ToCome' = ToCome

(* However often requests and answers are lost, late or errors, a step     *)
(* takes at most 2 + n (4 r + 8) steps for a plan of n modules and r       *)
(* retries, half of which send a request: every one leaves fewer, and      *)
(* nothing the suite does adds one.  That each wait ends is the timeouts'  *)
(* part (openid_client.py:199-291; openid_executor.py:98-199).             *)
THEOREM StepIsBounded ==
    Spec => /\ [](ToCome \in 0 .. 2 + MaxModules * PerModule)
            /\ [][Ends]_vars
<1>1. ASSUME IInv PROVE ToCome \in 0 .. 2 + MaxModules * PerModule
  <2>1. /\ ToCome \in Nat /\ PerModule \in Nat /\ MaxModules \in Nat /\ MaxRetries \in Nat
        /\ MaxModules * PerModule \in Nat
    BY <1>1, ToComeIs, SizesAssumption, Product
  <2>2. CASE pc = "done"
    BY <2>1, <2>2 DEF ToCome
  <2>3. CASE pc = "create_plan"
    <3>1. InCall <= 2 /\ InCall \in Nat /\ Rest(pc) = 0 /\ Modules = MaxModules
      BY <1>1, <2>3, ToComeIs DEF InCall, Rest, Retryable, Modules
    <3>2. ToCome = InCall + Rest(pc) + Modules * PerModule
      BY <2>3 DEF ToCome
    <3> QED
      BY <2>1, <3>1, <3>2
  <2>4. CASE pc \in {"create_test", "start", "wait", "info"}
    <3>1. /\ module \in 1..modules /\ modules \in 0..MaxModules /\ Modules = modules - module
          /\ attempt \in 0..MaxRetries /\ MaxRetries \in Nat
      BY <1>1, <2>4, SizesAssumption DEF IInv, TypeOK, Place, Modules
    <3>2. Modules \in Nat /\ Modules + 1 \in Nat /\ Modules + 1 <= MaxModules
      BY <2>1, <3>1
    <3>3. /\ (Modules + 1) * PerModule = Modules * PerModule + PerModule
          /\ (Modules + 1) * PerModule <= MaxModules * PerModule /\ Modules * PerModule \in Nat
      <4>1. (Modules + 1) * PerModule = Modules * PerModule + PerModule /\ Modules * PerModule \in Nat
        BY <2>1, <3>2, Product
      <4>2. (Modules + 1) * PerModule <= MaxModules * PerModule
        BY <2>1, <3>2, ProductGrows
      <4> QED
        BY <4>1, <4>2
    <3>4. InCall + Rest(pc) <= PerModule
      BY <2>4, <3>1 DEF InCall, Rest, Retryable, PerModule
    <3>5. ToCome = InCall + Rest(pc) + Modules * PerModule /\ InCall \in Nat /\ Rest(pc) \in Nat
      BY <1>1, <2>4, ToComeIs DEF ToCome
    <3> QED
      BY <2>1, <3>3, <3>4, <3>5
  <2> QED
    BY <1>1, <2>2, <2>3, <2>4, ToComeIs DEF Calls, Creating
<1>2. IInv => ToCome \in 0 .. 2 + MaxModules * PerModule
  BY <1>1
<1>3. IInv /\ [Next]_vars => [Ends]_vars
  BY ExecuteDescends, OtherStepLeaves DEF Ends
<1> QED
  BY <1>2, <1>3, StepInvariant, PTL DEF Spec
=============================================================================
