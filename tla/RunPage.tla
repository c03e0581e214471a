------------------------------- MODULE RunPage -------------------------------
(***************************************************************************)
(* The page of one test run in the browser (frontend/app/test-runs/[id]/   *)
(* page.tsx): it reads the run's executions once, shows one of them, polls *)
(* it while it is pending, and lets the user execute the run again, look   *)
(* at an older execution, or delete the run.                               *)
(*                                                                         *)
(* Every request goes through the proxy to the backend and back, and may   *)
(* be overtaken by others or fail on the way: what is applied to the page  *)
(* is a snapshot of the moment the backend handled it.  Of a record the    *)
(* page tells apart whether it is pending (QUEUED, RUNNING) or final.      *)
(***************************************************************************)
EXTENDS Naturals, Sequences

CONSTANTS Polls,         \* ticks of the interval whose requests may be out at once
          MaxExecutions  \* bound on the executions of the run

ASSUME MaxAssumption == MaxExecutions \in Nat

VARIABLES records,   \* the backend: each execution's status, in planned order
          page,      \* "loading", "ready", or "failed": no run to show
          load,      \* answers to the first requests, <<>> while there is none
          shown,     \* execution, or NoExecution
          history,   \* executionHistory: the records as some answer had them
          timer,     \* the execution the interval polls, 0 if it is cleared
          polls,     \* what each tick's callback is doing
          handler,   \* what handleExecute() is doing
          error,     \* an error is shown
          asked,     \* history: the execution planned for this page last; 0 when the
                     \* user chose another since, or its answer met a polling page
          torn       \* history: the list may lag behind what is shown

pvars == <<page, load>>          \* the page as a whole
evars == <<shown, timer>>        \* the execution shown and its interval
vars  == <<records, pvars, evars, history, polls, handler, error, asked, torn>>

Ids         == 1..MaxExecutions
NoExecution == [id |-> 0, status |-> "none"]
Entry(i, list) == [id |-> i, status |-> list[i]]

Unloaded == [latest |-> <<>>, list |-> <<>>]

\* An asynchronous function at one of its awaits, with what it was answered.
Call(at, id, status, list) == [at |-> at, id |-> id, status |-> status, list |-> list]
Waiting(at) == Call(at, 0, "none", <<>>)
Idle == Waiting("idle")

Init ==
    /\ records = <<>> /\ page = "loading" /\ load = Unloaded
    /\ shown = NoExecution /\ timer = 0 /\ history = <<>>
    /\ polls = [p \in Polls |-> Idle] /\ handler = Idle
    /\ error = FALSE /\ asked = 0 /\ torn = TRUE

-----------------------------------------------------------------------------
(* The backend.                                                            *)

\* Another client of the API has the run executed.
Elsewhere ==
    /\ Len(records) < MaxExecutions
    /\ records' = Append(records, "pending")
    /\ UNCHANGED <<pvars, evars, history, polls, handler, error, asked, torn>>

\* The execution ends, whichever way.
Ends(i) ==
    /\ i \in 1..Len(records) /\ records[i] = "pending"
    /\ records' = [records EXCEPT ![i] = "final"]
    /\ UNCHANGED <<pvars, evars, history, polls, handler, error, asked, torn>>

-----------------------------------------------------------------------------
(* Promise.all of the first three requests.                                *)

\* An answer of 404 is the null of a run not yet executed.
LatestHandled ==
    /\ page = "loading" /\ load.latest = <<>>
    /\ load' = [load EXCEPT !.latest =
                  <<IF records = <<>> THEN NoExecution ELSE Entry(Len(records), records)>>]
    /\ UNCHANGED <<records, page, evars, history, polls, handler, error, asked, torn>>

FirstListHandled ==
    /\ page = "loading" /\ load.list = <<>>
    /\ load' = [load EXCEPT !.list = <<records>>]
    /\ UNCHANGED <<records, page, evars, history, polls, handler, error, asked, torn>>

Loaded ==
    /\ page = "loading" /\ load.latest # <<>> /\ load.list # <<>>
    /\ page' = "ready" /\ load' = Unloaded
    /\ shown' = load.latest[1] /\ history' = load.list[1]
    /\ UNCHANGED <<records, timer, polls, handler, error, asked, torn>>

\* "Test run not found." or an error, and nothing to click.
LoadFails ==
    /\ page = "loading"
    /\ page' = "failed" /\ load' = Unloaded
    /\ UNCHANGED <<records, evars, history, polls, handler, error, asked, torn>>

-----------------------------------------------------------------------------
(* The effect on [execution, runId], and the interval it sets.             *)

IsPending(execution) == execution.status = "pending"

\* Mutated: no polling next to an error.
TargetUnlessError == IF IsPending(shown) /\ ~error THEN shown.id ELSE 0

Target == IF IsPending(shown) THEN shown.id ELSE 0

\* React runs the effect some time after the state was set.  Its cleanup
\* clears the interval and does not cancel what a tick has already sent.
Effect ==
    /\ timer # Target
    /\ timer' = Target
    /\ UNCHANGED <<records, pvars, shown, history, polls, handler, error, asked, torn>>

Tick(p) ==
    /\ timer # 0 /\ polls[p].at = "idle"
    /\ polls' = [polls EXCEPT ![p] = Call("sent", timer, "none", <<>>)]
    /\ UNCHANGED <<records, pvars, evars, history, handler, error, asked, torn>>

PollHandled(p) ==
    /\ polls[p].at = "sent"
    /\ polls' = [polls EXCEPT ![p] =
                  Call("answered", polls[p].id, records[polls[p].id], <<>>)]
    /\ UNCHANGED <<records, pvars, evars, history, handler, error, asked, torn>>

Listing(call) == call.at \in {"listing", "listed"}
SomePollLists == \E p \in Polls : Listing(polls[p])

\* Mutated: setExecution(updated), whatever the answer.
PollAppliedOnly(p) ==
    /\ polls[p].at = "answered"
    /\ shown' = [id |-> polls[p].id, status |-> polls[p].status]
    /\ polls' = [polls EXCEPT ![p] = Idle]
    /\ torn' = (~IsPending(polls[p]) /\ (Listing(handler) \/ SomePollLists))
    /\ UNCHANGED <<records, pvars, timer, history, handler, error, asked>>

\* setExecution(updated); after a final answer the executions are listed.
PollApplied(p) ==
    /\ polls[p].at = "answered"
    /\ shown' = [id |-> polls[p].id, status |-> polls[p].status]
    /\ IF IsPending(polls[p])
         THEN polls' = [polls EXCEPT ![p] = Idle] /\ UNCHANGED torn
         ELSE /\ polls' = [polls EXCEPT ![p] = Waiting("listing")]
              /\ torn' = (Listing(handler) \/ SomePollLists)
    /\ UNCHANGED <<records, pvars, timer, history, handler, error, asked>>

PollListHandled(p) ==
    /\ polls[p].at = "listing"
    /\ polls' = [polls EXCEPT ![p] = Call("listed", 0, "none", records)]
    /\ UNCHANGED <<records, pvars, evars, history, handler, error, asked, torn>>

\* Mutated: the list is added to the one there is.
PollListAppended(p) ==
    /\ polls[p].at = "listed"
    /\ history' = history \o polls[p].list
    /\ polls' = [polls EXCEPT ![p] = Idle]
    /\ UNCHANGED <<records, pvars, evars, handler, error, asked, torn>>

PollListApplied(p) ==
    /\ polls[p].at = "listed"
    /\ history' = polls[p].list
    /\ polls' = [polls EXCEPT ![p] = Idle]
    /\ UNCHANGED <<records, pvars, evars, handler, error, asked, torn>>

\* A request fails, before or after it is handled; only the console knows.
PollFails(p) ==
    /\ polls[p].at # "idle"
    /\ polls' = [polls EXCEPT ![p] = Idle]
    /\ torn' = (torn \/ Listing(polls[p]))
    /\ UNCHANGED <<records, pvars, evars, history, handler, error, asked>>

-----------------------------------------------------------------------------
(* handleExecute().                                                        *)

\* The button is disabled while an earlier click is being handled.
ClickExecute ==
    /\ page = "ready" /\ handler.at = "idle"
    /\ handler' = Waiting("posted")
    /\ error' = FALSE
    /\ UNCHANGED <<records, pvars, evars, history, polls, asked, torn>>

\* The backend plans an execution and answers with it.
ExecuteHandled ==
    /\ handler.at = "posted" /\ Len(records) < MaxExecutions
    /\ records' = Append(records, "pending")
    /\ handler' = Call("accepted", Len(records'), "pending", <<>>)
    /\ asked' = Len(records')
    /\ UNCHANGED <<pvars, evars, history, polls, error, torn>>

Polling == timer # 0 \/ \E p \in Polls : polls[p].at \in {"sent", "answered"}

\* Mutated: the result of the request is not shown.
ExecuteAppliedUnseen ==
    /\ handler.at = "accepted"
    /\ handler' = Waiting("reading")
    /\ asked' = IF Polling THEN 0 ELSE asked
    /\ UNCHANGED <<records, pvars, evars, history, polls, error, torn>>

\* setExecution(result); the run is read next.
ExecuteApplied ==
    /\ handler.at = "accepted"
    /\ shown' = [id |-> handler.id, status |-> handler.status]
    /\ handler' = Waiting("reading")
    /\ asked' = IF Polling THEN 0 ELSE asked
    /\ UNCHANGED <<records, pvars, timer, history, polls, error, torn>>

\* setRun(runData); the executions are listed next.
RunRead ==
    /\ handler.at = "reading"
    /\ handler' = Waiting("listing")
    /\ torn' = (torn \/ SomePollLists)
    /\ UNCHANGED <<records, pvars, evars, history, polls, error, asked>>

ExecuteListHandled ==
    /\ handler.at = "listing"
    /\ handler' = Call("listed", 0, "none", records)
    /\ UNCHANGED <<records, pvars, evars, history, polls, error, asked, torn>>

ExecuteListApplied ==
    /\ handler.at = "listed"
    /\ history' = handler.list
    /\ handler' = Idle
    /\ UNCHANGED <<records, pvars, evars, polls, error, asked, torn>>

\* Refused, unavailable, or one of the three requests lost before or after it
\* is handled: the error is shown, whatever was applied until then.
ExecuteFails ==
    /\ handler.at # "idle"
    /\ handler' = Idle /\ error' = TRUE
    /\ UNCHANGED <<records, pvars, evars, history, polls, asked, torn>>

-----------------------------------------------------------------------------
(* The other buttons.                                                      *)

\* View, of an entry that is not the one shown; while the answer to Execute is
\* on its way it will replace what the user chose.
View(i) ==
    /\ page = "ready" /\ i \in 1..Len(history) /\ i # shown.id
    /\ shown' = Entry(i, history)
    /\ asked' = IF handler.at = "accepted" THEN asked ELSE 0
    /\ UNCHANGED <<records, pvars, timer, history, polls, handler, error, torn>>

\* The proxy cannot pass on a 204 (NextResponse.json throws) and answers 500:
\* deleted or not, the page reports a failure and stays.
Delete ==
    /\ page = "ready"
    /\ error' = TRUE
    /\ UNCHANGED <<records, pvars, evars, history, polls, handler, asked, torn>>

-----------------------------------------------------------------------------

PollStep(p) ==
    \/ PollHandled(p) \/ PollApplied(p) \/ PollListHandled(p) \/ PollListApplied(p)
    \/ PollFails(p)

HandlerStep ==
    \/ ExecuteHandled \/ ExecuteApplied \/ RunRead \/ ExecuteListHandled
    \/ ExecuteListApplied \/ ExecuteFails

Next ==
    \/ Elsewhere \/ \E i \in Ids : Ends(i)
    \/ LatestHandled \/ FirstListHandled \/ Loaded \/ LoadFails
    \/ Effect \/ \E p \in Polls : Tick(p) \/ PollStep(p)
    \/ ClickExecute \/ HandlerStep
    \/ \E i \in Ids : View(i)
    \/ Delete

Spec == Init /\ [][Next]_vars

\* The browser goes on, executions end, a request is answered or fails, and
\* they do not all fail for ever.  The user owes nothing.
Fairness ==
    /\ WF_vars(Effect) /\ WF_vars(\E p \in Polls : Tick(p))
    /\ \A i \in Ids : WF_vars(Ends(i))
    /\ \A p \in Polls : WF_vars(PollStep(p))
    /\ SF_vars(\E p \in Polls : PollHandled(p))
    /\ SF_vars(\E p \in Polls : PollApplied(p))

FairSpec == Spec /\ Fairness

-----------------------------------------------------------------------------

Statuses == {"pending", "final"}
Calls(places) == [at : places, id : 0..Len(records), status : Statuses \cup {"none"},
                  list : Seq(Statuses)]

TypeOK ==
    /\ records \in Seq(Statuses) /\ Len(records) <= MaxExecutions
    /\ history \in Seq(Statuses) /\ Len(history) <= Len(records)
    /\ page \in {"loading", "ready", "failed"}
    /\ shown \in [id : 0..Len(records), status : Statuses \cup {"none"}]
    /\ timer \in 0..Len(records) /\ asked \in 0..Len(records)
    /\ polls \in [Polls -> Calls({"idle", "sent", "answered", "listing", "listed"})]
    /\ handler \in Calls({"idle", "posted", "accepted", "reading", "listing", "listed"})
    /\ error \in BOOLEAN /\ torn \in BOOLEAN

AtRest == handler.at = "idle" /\ \A p \in Polls : polls[p].at = "idle"

(* The page shows the execution its user asked for last, unless it shows   *)
(* an error or the user chose another; or the page was still polling an    *)
(* older one when the answer came, since nothing cancels a poll under way  *)
(* (page.tsx:57-69,76-77).                                                 *)
ShowsWhatWasAsked ==
    handler.at = "idle" /\ asked # 0 /\ ~error => shown.id = asked

(* When nothing is under way any more, the list has the final status of    *)
(* the execution shown (page.tsx:61-64), unless the request for the list   *)
(* failed, another list was under way with it, or the two have been        *)
(* read separately when the page was loaded.                               *)
HistoryAgrees ==
    AtRest /\ ~torn /\ shown.status = "final" =>
        shown.id \in 1..Len(history) /\ history[shown.id] = "final"

(* A page that shows a pending execution comes to show a final one, however *)
(* late, lost or out of order its polls are answered, if only they do not  *)
(* all fail for ever.                                                      *)
PageSettles == IsPending(shown) ~> ~IsPending(shown)
=============================================================================
