--------------------------- MODULE ConformanceStep ---------------------------
(***************************************************************************)
(* One step of provider "openid": OpenIDConformanceExecutor.execute        *)
(* (backend/app/openid_executor.py) and the calls it makes through         *)
(* OpenIDConformanceClient (openid_client.py) to a Conformance Suite,      *)
(* which is external.                                                      *)
(*                                                                         *)
(* A request may be lost, or be handled long after the client has given up *)
(* on it; an answer may be an error although the request was carried out.  *)
(* Giving up is a timeout or a connection error: both are transient, and   *)
(* only the calls in Retryable are sent again after one.  The modules of a *)
(* plan are run one after the other and are known here by their position.  *)
(***************************************************************************)
EXTENDS Naturals, Sequences, FiniteSets

CONSTANTS MaxRetries,   \* of _request()
          MaxModules    \* bound: the most modules a plan lists

ASSUME SizesAssumption == MaxRetries \in Nat /\ MaxModules \in Nat

VARIABLES pc,        \* the call execute() is in, or "done"
          module,    \* the position of the module in hand
          modules,   \* how many modules are to be run
          attempt,   \* of _request()
          waiting,   \* this attempt's request has been sent
          answer,    \* what came back for it
          ids,       \* whose ids it has: 0 for the plan, positions for modules
          results,   \* module_results
          step,      \* the StepResult
          wire,      \* requests the suite has not handled yet
          plans,     \* at the suite: how many plans were created,
          created,   \* how often each module was,
          state,     \* the state of each module
          result     \* and its result

suite   == <<plans, created, state, result>>
client  == <<pc, module, modules, attempt, waiting, answer, ids, results, step>>
vars    == <<client, wire, suite>>

Positions == 1..MaxModules
Creating  == {"create_plan", "create_test"}
Calls     == Creating \cup {"start", "wait", "info"}

\* Mutated: every call is sent again.
RetryableAll == Calls

\* start_test() is not sent again either.
Retryable == {"wait", "info"}

Silence == [code |-> "none", body |-> "none"]

\* no: 400 or 404; bad: 401, another status, or a body that cannot be used;
\* down: 5xx.
Codes  == {"ok", "no", "bad", "down"}
Bodies == {"none", "created", "running", "FINISHED", "INTERRUPTED", "passed", "failed", "other"}

Requests == [call : Calls, module : 0..MaxModules, attempt : 0..MaxRetries]

Init ==
    /\ pc = "create_plan" /\ module = 0 /\ modules = 0
    /\ attempt = 0 /\ waiting = FALSE /\ answer = Silence
    /\ ids = {}
    /\ results = <<>>
    /\ step = [status |-> "none", modules |-> <<>>]
    /\ wire = {}
    /\ plans = 0
    /\ created = [i \in Positions |-> 0]
    /\ state = [i \in Positions |-> "none"]
    /\ result = [i \in Positions |-> "none"]

-----------------------------------------------------------------------------
(* The suite.                                                              *)

\* A request is carried out or not, and answered; nobody reads the answer if
\* the client has given up on this request.
Answered(m, code, body) ==
    /\ wire' = wire \ {m}
    /\ answer' = IF waiting /\ m = [call |-> pc, module |-> module, attempt |-> attempt]
                   THEN [code |-> code, body |-> body] ELSE answer
    /\ UNCHANGED <<pc, module, modules, attempt, waiting, ids, results, step>>

HandleCreation(m, code) ==
    /\ m.call \in Creating
    /\ \/ /\ code # "no" /\ m.call = "create_plan"
          /\ plans' = plans + 1 /\ UNCHANGED <<created, state>>
       \/ /\ code # "no" /\ m.call = "create_test"
          /\ created' = [created EXCEPT ![m.module] = @ + 1]
          /\ state' = [state EXCEPT ![m.module] = "created"]
          /\ UNCHANGED plans
       \/ code # "ok" /\ UNCHANGED <<plans, created, state>>
    /\ Answered(m, code, "none")
    /\ UNCHANGED result

HandleStart(m, code) ==
    /\ m.call = "start"
    /\ \/ /\ code # "no" /\ state[m.module] = "created"
          /\ state' = [state EXCEPT ![m.module] = "running"]
       \/ UNCHANGED state
    /\ Answered(m, code, "none")
    /\ UNCHANGED <<plans, created, result>>

\* wait-state answers with the state when it is final or its timeoutMs is over,
\* info with the result; either may answer without saying it.
HandleQuery(m, code) ==
    /\ m.call \in {"wait", "info"}
    /\ \/ Answered(m, code, IF m.call = "wait" THEN state[m.module] ELSE result[m.module])
       \/ Answered(m, code, "none")
    /\ UNCHANGED suite

Handle(m) == \E code \in Codes :
    HandleCreation(m, code) \/ HandleStart(m, code) \/ HandleQuery(m, code)

Lose(m) == wire' = wire \ {m} /\ UNCHANGED <<client, suite>>

\* A module ends, whether it had to be started or not.
ModuleEnds(i) ==
    /\ state[i] \in {"created", "running"}
    /\ \/ state' = [state EXCEPT ![i] = "INTERRUPTED"] /\ UNCHANGED result
       \/ \E outcome \in {"passed", "failed", "other"} :
             /\ state' = [state EXCEPT ![i] = "FINISHED"]
             /\ result' = [result EXCEPT ![i] = outcome]
    /\ UNCHANGED <<client, wire, plans, created>>

-----------------------------------------------------------------------------
(* _request()                                                              *)

Send ==
    /\ pc \in Calls /\ ~waiting
    /\ wire' = wire \cup {[call |-> pc, module |-> module, attempt |-> attempt]}
    /\ waiting' = TRUE
    /\ UNCHANGED <<pc, module, modules, attempt, answer, ids, results, step, suite>>

\* A timeout or a lost connection while no answer has come, or a 5xx.
Transient == waiting /\ answer.code \in {"none", "down"}

\* Mutated: one retry too many; attempts not counted.
RetryOnceMore ==
    /\ Transient /\ pc \in Retryable /\ attempt <= MaxRetries
    /\ attempt' = attempt + 1 /\ waiting' = FALSE /\ answer' = Silence
    /\ UNCHANGED <<pc, module, modules, ids, results, step, wire, suite>>
RetryForever ==
    /\ Transient /\ pc \in Retryable /\ attempt < MaxRetries
    /\ waiting' = FALSE /\ answer' = Silence
    /\ UNCHANGED <<pc, module, modules, attempt, ids, results, step, wire, suite>>

Retry ==
    /\ Transient /\ pc \in Retryable /\ attempt < MaxRetries
    /\ attempt' = attempt + 1 /\ waiting' = FALSE /\ answer' = Silence
    /\ UNCHANGED <<pc, module, modules, ids, results, step, wire, suite>>

\* The call raises to its caller.
Raises ==
    /\ waiting
    /\ \/ Transient /\ (pc \notin Retryable \/ attempt = MaxRetries)
       \/ answer.code = "bad"
       \/ answer.code = "no" /\ pc # "start"

Returns(call) == pc = call /\ answer.code = "ok"

-----------------------------------------------------------------------------
(* execute() and _run_module()                                             *)

Call(call, i) ==
    /\ pc' = call /\ module' = i
    /\ attempt' = 0 /\ waiting' = FALSE /\ answer' = Silence

\* The result of an error: no modules in its details.
Fail ==
    /\ Call("done", module)
    /\ step' = [status |-> "FAILED", modules |-> <<>>]
    /\ UNCHANGED <<modules, results>>

\* One module's result, then the next module or the step's result.
Record(outcome) ==
    /\ results' = Append(results, outcome)
    /\ IF module = modules
         THEN /\ Call("done", module)
              /\ step' = [status |-> IF \A i \in 1..modules : results'[i] = "PASSED"
                                       THEN "PASSED" ELSE "FAILED",
                          modules |-> results']
         ELSE Call("create_test", module + 1) /\ UNCHANGED step
    /\ UNCHANGED <<modules, ids>>

\* No plan name, or no usable base URL.
Misconfigured ==
    /\ pc = "create_plan" /\ ~waiting
    /\ Fail /\ UNCHANGED <<ids, wire, suite>>

\* The modules are the configured ones, or those the plan lists; without any
\* the step fails.
PlanCreated ==
    /\ Returns("create_plan")
    /\ ids' = ids \cup {0}
    /\ \/ Fail
       \/ /\ modules' \in Positions
          /\ Call("create_test", 1) /\ UNCHANGED <<results, step>>
    /\ UNCHANGED <<wire, suite>>

TestCreated ==
    /\ Returns("create_test")
    /\ ids' = ids \cup {module}
    /\ Call("start", module)
    /\ UNCHANGED <<modules, results, step, wire, suite>>

\* 404 and 400 mean that the module needs no start.
Started ==
    /\ pc = "start" /\ answer.code \in {"ok", "no"}
    /\ Call("wait", module)
    /\ UNCHANGED <<modules, ids, results, step, wire, suite>>

\* Mutated: FINISHED taken for PASSED.
StateReachedPassing ==
    /\ Returns("wait")
    /\ Record(IF answer.body = "FINISHED" THEN "PASSED" ELSE "FAILED")
    /\ UNCHANGED <<wire, suite>>

StateReached ==
    /\ Returns("wait")
    /\ CASE answer.body = "INTERRUPTED" -> Record("FAILED")
         [] answer.body = "FINISHED" ->
              Call("info", module) /\ UNCHANGED <<modules, ids, results, step>>
         [] OTHER -> Record("UNKNOWN")
    /\ UNCHANGED <<wire, suite>>

\* _extract_result()
InfoRead ==
    /\ Returns("info")
    /\ Record(CASE answer.body = "passed" -> "PASSED"
                [] answer.body = "failed" -> "FAILED"
                [] OTHER -> "UNKNOWN")
    /\ UNCHANGED <<wire, suite>>

\* Mutated: a module that cannot be created is a failed module.
ErrorTolerated ==
    /\ Raises
    /\ IF pc \in {"info", "create_test"} THEN Record("UNKNOWN") ELSE Fail /\ UNCHANGED ids
    /\ UNCHANGED <<wire, suite>>

\* An error ends the step; while a result is read it is swallowed.
Error ==
    /\ Raises
    /\ IF pc = "info" THEN Record("UNKNOWN") ELSE Fail /\ UNCHANGED ids
    /\ UNCHANGED <<wire, suite>>

-----------------------------------------------------------------------------

Execute ==
    \/ Send \/ Retry \/ Misconfigured
    \/ PlanCreated \/ TestCreated \/ Started \/ StateReached \/ InfoRead \/ Error

Next ==
    \/ Execute
    \/ \E m \in wire : Handle(m) \/ Lose(m)
    \/ \E i \in Positions : ModuleEnds(i)

Spec == Init /\ [][Next]_vars

(* Every wait of the client has a timeout.  The suite owes nothing.        *)
FairSpec == Spec /\ WF_vars(Execute)

-----------------------------------------------------------------------------

TypeOK ==
    /\ pc \in Calls \cup {"done"}
    /\ module \in 0..MaxModules /\ modules \in 0..MaxModules
    /\ attempt \in 0..MaxRetries /\ waiting \in BOOLEAN
    /\ answer \in [code : Codes \cup {"none"}, body : Bodies]
    /\ ids \in SUBSET (0..MaxModules)
    /\ results \in Seq({"PASSED", "FAILED", "UNKNOWN"})
    /\ step \in [status : {"none", "PASSED", "FAILED"}, modules : Seq({"PASSED", "FAILED", "UNKNOWN"})]
    /\ wire \in SUBSET Requests
    /\ plans \in Nat /\ created \in [Positions -> Nat]
    /\ state \in [Positions -> {"none", "created", "running", "FINISHED", "INTERRUPTED"}]
    /\ result \in [Positions -> {"none", "passed", "failed", "other"}]

(* "a network failure after the server has already created the resource    *)
(* must not silently become a duplicate plan/module on retry"              *)
(* (openid_client.py:79-81): whatever is lost, late or answered with an    *)
(* error, the suite creates one plan for the step and each module once.    *)
NothingCreatedTwice ==
    /\ plans <= 1
    /\ \A i \in Positions : created[i] <= 1

\* What the suite has created and the executor does not know the id of (0 is
\* the plan), and what a late request may yet create.
Unknown == {i \in 0..MaxModules :
              i \notin ids /\ IF i = 0 THEN plans > 0 ELSE created[i] > 0}
Late == {m \in wire : m.call \in Creating}

(* A lost answer costs at most one plan or module at the suite that nobody *)
(* knows of, and the step does not pass over it (openid_executor.py:98-142).*)
OneUnknownAtMost ==
    /\ Cardinality(Unknown) + Cardinality(Late) <= 1
    /\ step.status = "PASSED" => Unknown = {} /\ Late = {}

\* The step's result names every module of the plan, in order.
AllReported == modules > 0 /\ Len(step.modules) = modules /\ step.modules = results

(* A result is never made up, nor given in part: the step passes only if   *)
(* every module of the plan finished at the suite and passed there; a step *)
(* that failed reports all modules, one of which is not PASSED, or was     *)
(* ended by an error and reports none, whatever those before it did        *)
(* (openid_executor.py:120-142); and a module taken for PASSED or FAILED   *)
(* is so at the suite (openid_executor.py:17-28,161-199).                  *)
VerdictRestsOnSuite ==
    /\ step.status = "PASSED" => AllReported /\ \A i \in 1..modules :
          state[i] = "FINISHED" /\ result[i] = "passed"
    /\ step.status = "FAILED" /\ step.modules # <<>> =>
          AllReported /\ \E i \in 1..modules : results[i] # "PASSED"
    /\ \A i \in 1..Len(results) :
          /\ results[i] = "PASSED" => state[i] = "FINISHED" /\ result[i] = "passed"
          /\ results[i] = "FAILED" =>
                \/ state[i] = "INTERRUPTED"
                \/ state[i] = "FINISHED" /\ result[i] = "failed"

(* The step ends, even if the suite never answers again                    *)
(* (openid_client.py:199-228,279-291).                                     *)
StepEnds == <>(step.status # "none")
=============================================================================
