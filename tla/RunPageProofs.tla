---------------------------- MODULE RunPageProofs ----------------------------
(***************************************************************************)
(* Proofs about RunPage, for any number of executions and of overlapping   *)
(* polls: the page shows what was asked for, and its list agrees with what *)
(* it shows, but for the reasons the properties name.                      *)
(***************************************************************************)
EXTENDS RunPage, SequenceTheorems, TLAPS

\* A list of the page is an earlier value of the records.
Known(list, recs) ==
    /\ list \in Seq(Statuses) /\ Len(list) <= Len(recs)
    /\ \A i \in 1..Len(list) : list[i] = "final" => recs[i] = "final"

\* And so is an entry.
Seen(entry, recs) ==
    /\ entry.id \in 0..Len(recs) /\ entry.status \in Statuses \cup {"none"}
    /\ entry.status = "final" => entry.id # 0 /\ recs[entry.id] = "final"

CallSeen(call, recs) ==
    /\ Known(call.list, recs) /\ Seen(call, recs)
    /\ call.at \in {"sent", "answered", "accepted"} => call.id # 0

FirstAnswers == [latest : Seq([id : Nat, status : Statuses \cup {"none"}]),
                 list : Seq(Seq(Statuses))]

\* Whatever the page shows or was answered was so at the backend.
Truth ==
    /\ TypeOK /\ load \in FirstAnswers
    /\ Known(history, records) /\ Seen(shown, records)
    /\ CallSeen(handler, records) /\ \A p \in Polls : CallSeen(polls[p], records)
    /\ load.latest # <<>> => Seen(load.latest[1], records)
    /\ load.list # <<>> => Known(load.list[1], records)

\* Nothing happens on a page that has not been loaded.
Quiet ==
    page # "ready" =>
        /\ shown = NoExecution /\ timer = 0 /\ handler = Idle /\ asked = 0 /\ torn
        /\ \A p \in Polls : polls[p].at = "idle"

\* The execution asked for is shown, and no poll can replace it by another.
Holding ==
    /\ shown.id = asked /\ timer \in {0, asked}
    /\ \A p \in Polls : polls[p].at \in {"sent", "answered"} => polls[p].id = asked

Asked ==
    /\ handler.at = "accepted" => handler.id = asked /\ handler.status = "pending"
    /\ asked # 0 =>
         /\ handler.at \in {"reading", "listing", "listed"} => Holding
         /\ handler.at = "idle" /\ ~error => Holding

Settled(list, i) == i \in 1..Len(list) /\ list[i] = "final"

Newer(list) == \A i \in 1..Len(history) : Settled(history, i) => Settled(list, i)

\* One list at a time, each newer than the one shown, and a final execution is
\* in the list shown or in the one on its way.
OneList ==
    /\ \A p, q \in Polls : Listing(polls[p]) /\ Listing(polls[q]) => p = q
    /\ Listing(handler) => ~SomePollLists

ListsNewer ==
    /\ handler.at = "listed" => Newer(handler.list)
    /\ \A p \in Polls : polls[p].at = "listed" => Newer(polls[p].list)

FinalListed ==
    shown.status = "final" =>
        \/ Settled(history, shown.id)
        \/ \E p \in Polls : \/ polls[p].at = "listing"
                            \/ polls[p].at = "listed" /\ Settled(polls[p].list, shown.id)

Lists == ~torn => OneList /\ ListsNewer /\ FinalListed

IInv == Truth /\ Quiet /\ Asked /\ Lists

-----------------------------------------------------------------------------

LEMMA InitIInv == Init => IInv
<1> SUFFICES ASSUME Init PROVE IInv
  OBVIOUS
<1>1. /\ <<>> \in Seq(Statuses) /\ Len(<<>>) = 0
      /\ <<>> \in Seq([id : Nat, status : Statuses \cup {"none"}]) /\ <<>> \in Seq(Seq(Statuses))
  BY EmptySeq
<1>2. Known(<<>>, records) /\ Seen(NoExecution, records) /\ CallSeen(Idle, records)
  BY <1>1 DEF Init, Known, Seen, CallSeen, NoExecution, Idle, Waiting, Call
<1>3. TypeOK
  <2>1. \A places : "idle" \in places => Idle \in Calls(places)
    BY <1>1 DEF Init, Calls, Idle, Waiting, Call
  <2>2. polls \in [Polls -> Calls({"idle", "sent", "answered", "listing", "listed"})]
    BY <2>1 DEF Init
  <2>3. handler \in Calls({"idle", "posted", "accepted", "reading", "listing", "listed"})
    BY <2>1 DEF Init
  <2>4. shown \in [id : 0..Len(records), status : Statuses \cup {"none"}]
    BY <1>1 DEF Init, NoExecution
  <2>5. error \in BOOLEAN /\ torn \in BOOLEAN
    BY DEF Init
  <2>6. /\ records \in Seq(Statuses) /\ Len(records) <= MaxExecutions
        /\ history \in Seq(Statuses) /\ Len(history) <= Len(records)
        /\ page \in {"loading", "ready", "failed"}
        /\ timer \in 0..Len(records) /\ asked \in 0..Len(records)
    BY <1>1, MaxAssumption DEF Init
  <2> QED
    BY <2>2, <2>3, <2>4, <2>5, <2>6 DEF TypeOK
<1>4. Truth
  BY <1>1, <1>2, <1>3 DEF Init, Truth, FirstAnswers, Unloaded
<1>5. Quiet /\ Asked /\ Lists
  BY DEF Init, Quiet, Asked, Lists, Idle, Waiting, Call
<1> QED
  BY <1>4, <1>5 DEF IInv

\* The records only grow, and final ones stay final.
LEMMA GrownKeeps ==
    ASSUME NEW r \in Seq(Statuses), NEW s \in Seq(Statuses), Len(r) <= Len(s),
           \A i \in 1..Len(r) : r[i] = "final" => s[i] = "final"
    PROVE  /\ \A list : Known(list, r) => Known(list, s)
           /\ \A entry : Seen(entry, r) => Seen(entry, s)
           /\ \A call : CallSeen(call, r) => CallSeen(call, s)
<1>1. Len(r) \in Nat /\ Len(s) \in Nat
  BY LenProperties
<1>2. ASSUME NEW list, Known(list, r) PROVE Known(list, s)
  <2>1. Len(list) \in Nat
    BY <1>2, LenProperties DEF Known
  <2> QED
    BY <1>1, <1>2, <2>1 DEF Known
<1>3. ASSUME NEW entry, Seen(entry, r) PROVE Seen(entry, s)
  BY <1>1, <1>3 DEF Seen
<1> QED
  BY <1>2, <1>3 DEF CallSeen

LEMMA RecordsKnown == ASSUME Truth PROVE Known(records, records)
BY DEF Truth, TypeOK, Known

\* What the two kinds of step of the backend do to the records.
LEMMA RecordsGrow ==
    ASSUME Truth,
           \/ records' = Append(records, "pending") /\ Len(records) < MaxExecutions
           \/ \E i \in 1..Len(records) : records' = [records EXCEPT ![i] = "final"]
    PROVE  /\ records' \in Seq(Statuses) /\ Len(records) <= Len(records')
           /\ Len(records') <= MaxExecutions
           /\ \A i \in 1..Len(records) : records[i] = "final" => records'[i] = "final"
<1> USE MaxAssumption DEF Statuses
<1>1. records \in Seq(Statuses) /\ Len(records) <= MaxExecutions /\ Len(records) \in Nat
  BY LenProperties DEF Truth, TypeOK
<1>2. CASE records' = Append(records, "pending") /\ Len(records) < MaxExecutions
  BY <1>1, <1>2, AppendProperties
<1>3. ASSUME NEW i \in 1..Len(records), records' = [records EXCEPT ![i] = "final"]
      PROVE  /\ records' \in Seq(Statuses) /\ Len(records') = Len(records)
             /\ \A j \in 1..Len(records) : records[j] = "final" => records'[j] = "final"
  BY <1>1, <1>3, ExceptSeq
<1> QED
  BY <1>1, <1>2, <1>3

\* A step of the backend: the page still knows what was so.
LEMMA BackendStep ==
    ASSUME Truth, Elsewhere \/ ExecuteHandled \/ \E i \in Ids : Ends(i)
    PROVE  Truth'
<1>1. /\ records' \in Seq(Statuses) /\ Len(records) <= Len(records')
      /\ Len(records') <= MaxExecutions
      /\ \A i \in 1..Len(records) : records[i] = "final" => records'[i] = "final"
  BY RecordsGrow DEF Elsewhere, ExecuteHandled, Ends
<1>2. /\ records \in Seq(Statuses) /\ Len(records) \in Nat /\ Len(records') \in Nat
  BY <1>1, LenProperties DEF Truth, TypeOK
<1>3. /\ \A list : Known(list, records) => Known(list, records')
      /\ \A entry : Seen(entry, records) => Seen(entry, records')
      /\ \A call : CallSeen(call, records) => CallSeen(call, records')
  BY <1>1, <1>2, GrownKeeps
<1>4. UNCHANGED <<load, shown, history, timer, polls>> /\ page' = page /\ torn' = torn
      /\ error' = error
  BY DEF Elsewhere, ExecuteHandled, Ends, pvars, evars
<1>5. \A places, call : call \in Calls(places) => call \in Calls(places)'
  BY <1>1, <1>2 DEF Calls
<1>6. handler' \in Calls({"idle", "posted", "accepted", "reading", "listing", "listed"})'
      /\ CallSeen(handler', records') /\ asked' \in 0..Len(records')
  <2>1. CASE handler' = handler /\ asked' = asked
    BY <2>1, <1>1, <1>2, <1>3, <1>5 DEF Truth, TypeOK
  <2>2. CASE ExecuteHandled
    <3>1. handler' = Call("accepted", Len(records'), "pending", <<>>)
          /\ asked' = Len(records') /\ records' = Append(records, "pending")
      BY <2>2 DEF ExecuteHandled
    <3>2. Len(records') = Len(records) + 1 /\ <<>> \in Seq(Statuses) /\ Len(<<>>) = 0
      BY <1>2, <3>1, AppendProperties, EmptySeq DEF Statuses
    <3>3. handler' \in Calls({"accepted"})'
      BY <1>2, <3>1, <3>2 DEF Call, Calls, Statuses
    <3>4. CallSeen(handler', records')
      BY <1>2, <3>1, <3>2 DEF Call, CallSeen, Known, Seen, Statuses
    <3> QED
      BY <1>2, <3>1, <3>3, <3>4 DEF Calls
  <2> QED
    BY <2>1, <2>2 DEF Elsewhere, Ends
<1>7. TypeOK'
  <2>1. shown' \in [id : 0..Len(records'), status : Statuses \cup {"none"}]
    BY <1>1, <1>2, <1>4 DEF Truth, TypeOK
  <2>2. polls' \in [Polls -> Calls({"idle", "sent", "answered", "listing", "listed"})']
    BY <1>4, <1>5 DEF Truth, TypeOK
  <2>3. Len(history) \in Nat /\ history \in Seq(Statuses) /\ Len(history) <= Len(records)
    BY LenProperties DEF Truth, TypeOK
  <2>4. history' \in Seq(Statuses) /\ Len(history') <= Len(records')
        /\ timer' \in 0..Len(records')
    BY <1>1, <1>2, <1>4, <2>3 DEF Truth, TypeOK
  <2> QED
    BY <1>1, <1>4, <1>6, <2>1, <2>2, <2>4 DEF Truth, TypeOK
<1> QED
  BY <1>3, <1>4, <1>6, <1>7 DEF Truth

\* A step of the page, which knows what an answer told it.
LEMMA PageStep ==
    ASSUME Truth, UNCHANGED records,
           page' \in {"loading", "ready", "failed"},
           error' \in BOOLEAN, torn' \in BOOLEAN,
           load' \in FirstAnswers,
           load'.latest # <<>> => Seen(load'.latest[1], records),
           load'.list # <<>> => Known(load'.list[1], records),
           Known(history', records),
           shown' \in [id : 0..Len(records), status : Statuses \cup {"none"}],
           Seen(shown', records),
           timer' \in 0..Len(records), asked' \in 0..Len(records),
           polls' \in [Polls -> Calls({"idle", "sent", "answered", "listing", "listed"})],
           \A p \in Polls : CallSeen(polls'[p], records),
           handler' \in Calls({"idle", "posted", "accepted", "reading", "listing", "listed"}),
           CallSeen(handler', records)
    PROVE  Truth'
<1>1. \A places : Calls(places)' = Calls(places)
  BY DEF Calls
<1>2. TypeOK'
  BY <1>1 DEF Truth, TypeOK, Known
<1> QED
  BY <1>2 DEF Truth

\* A callback takes its next step with what it was told.
LEMMA PollCall ==
    ASSUME Truth, NEW p \in Polls, NEW call,
           call \in Calls({"idle", "sent", "answered", "listing", "listed"}),
           CallSeen(call, records), polls' = [polls EXCEPT ![p] = call]
    PROVE  /\ polls' \in [Polls -> Calls({"idle", "sent", "answered", "listing", "listed"})]
           /\ \A q \in Polls : CallSeen(polls'[q], records)
           /\ \A q \in Polls : polls'[q] = IF q = p THEN call ELSE polls[q]
<1>1. polls \in [Polls -> Calls({"idle", "sent", "answered", "listing", "listed"})]
      /\ \A q \in Polls : CallSeen(polls[q], records)
  BY DEF Truth, TypeOK
<1> QED
  BY <1>1

LEMMA WaitingCall ==
    ASSUME Truth, NEW at, at \notin {"sent", "answered", "accepted"}
    PROVE  Waiting(at) \in Calls({at}) /\ CallSeen(Waiting(at), records)
<1>1. <<>> \in Seq(Statuses) /\ Len(<<>>) = 0 /\ Len(records) \in Nat
  BY EmptySeq, LenProperties DEF Truth, TypeOK
<1> QED
  BY <1>1 DEF Waiting, Call, Calls, CallSeen, Known, Seen

LEMMA ListedCall ==
    ASSUME Truth
    PROVE  /\ Call("listed", 0, "none", records) \in Calls({"listed"})
           /\ CallSeen(Call("listed", 0, "none", records), records)
<1>1. records \in Seq(Statuses) /\ Len(records) \in Nat
  BY LenProperties DEF Truth, TypeOK
<1> QED
  BY <1>1, RecordsKnown DEF Call, Calls, CallSeen, Seen

\* The callback of a tick, except for its failure.
LEMMA PollTruth ==
    ASSUME Truth, NEW p \in Polls, Tick(p) \/ PollStep(p)
    PROVE  Truth'
<1> DEFINE places == {"idle", "sent", "answered", "listing", "listed"}
<1>1. /\ polls \in [Polls -> Calls(places)] /\ CallSeen(polls[p], records)
      /\ polls[p] \in Calls(places)
      /\ records \in Seq(Statuses) /\ Len(records) \in Nat
  BY LenProperties DEF Truth, TypeOK
<1>2. UNCHANGED <<records, page, load, timer, handler, error, asked>>
  BY DEF Tick, PollStep, PollHandled, PollApplied, PollListHandled, PollListApplied,
         PollFails, pvars, evars
<1>3. torn' \in BOOLEAN
  BY DEF Truth, TypeOK, Tick, PollStep, PollHandled, PollApplied, PollListHandled,
         PollListApplied, PollFails
<1>4. Known(history', records) /\ Seen(shown', records)
      /\ shown' \in [id : 0..Len(records), status : Statuses \cup {"none"}]
  <2>1. CASE history' = polls[p].list /\ shown' = shown
    BY <1>1, <2>1 DEF CallSeen, Truth, TypeOK
  <2>2. CASE shown' = [id |-> polls[p].id, status |-> polls[p].status] /\ history' = history
    BY <1>1, <2>2 DEF CallSeen, Seen, Truth, TypeOK, Calls
  <2>3. CASE UNCHANGED <<history, shown>>
    BY <2>3 DEF Truth, TypeOK
  <2> QED
    BY <2>1, <2>2, <2>3 DEF Tick, PollStep, PollHandled, PollApplied, PollListHandled,
       PollListApplied, PollFails, evars
<1>5. PICK call : /\ call \in Calls(places) /\ CallSeen(call, records)
                  /\ polls' = [polls EXCEPT ![p] = call]
  <2>1. CASE Tick(p)
    <3>1. timer \in 1..Len(records)
      BY <1>1, <2>1 DEF Tick, Truth, TypeOK
    <3>2. <<>> \in Seq(Statuses) /\ Len(<<>>) = 0
      BY EmptySeq
    <3>3. Call("sent", timer, "none", <<>>) \in Calls(places)
          /\ CallSeen(Call("sent", timer, "none", <<>>), records)
      BY <1>1, <3>1, <3>2 DEF Call, Calls, CallSeen, Known, Seen
    <3> QED
      BY <2>1, <3>3 DEF Tick
  <2>2. CASE PollHandled(p)
    <3> DEFINE status == records[polls[p].id]
    <3>1. polls[p].id \in 1..Len(records)
      BY <1>1, <2>2 DEF PollHandled, CallSeen, Seen
    <3>2. status \in Statuses
      BY <1>1, <3>1, ElementOfSeq
    <3>3. <<>> \in Seq(Statuses) /\ Len(<<>>) = 0
      BY EmptySeq
    <3>4. Call("answered", polls[p].id, status, <<>>) \in Calls(places)
          /\ CallSeen(Call("answered", polls[p].id, status, <<>>), records)
      BY <1>1, <3>1, <3>2, <3>3 DEF Call, Calls, CallSeen, Known, Seen
    <3> QED
      BY <2>2, <3>4 DEF PollHandled
  <2>3. CASE PollListHandled(p)
    BY <2>3, ListedCall DEF PollListHandled, Calls
  <2>4. CASE polls' = [polls EXCEPT ![p] = Idle]
    BY <2>4, WaitingCall DEF Idle, Calls
  <2>5. CASE polls' = [polls EXCEPT ![p] = Waiting("listing")]
    BY <2>5, WaitingCall DEF Calls
  <2> QED
    BY <2>1, <2>2, <2>3, <2>4, <2>5 DEF PollStep, PollApplied, PollListApplied, PollFails
<1>6. /\ polls' \in [Polls -> Calls(places)] /\ \A q \in Polls : CallSeen(polls'[q], records)
  BY <1>5, PollCall
<1> QED
  BY <1>2, <1>3, <1>4, <1>6, PageStep DEF Truth, TypeOK

\* handleExecute(), and the click that starts it.
LEMMA HandlerTruth ==
    ASSUME Truth,
           \/ ClickExecute \/ ExecuteApplied \/ RunRead \/ ExecuteListHandled
           \/ ExecuteListApplied \/ ExecuteFails
    PROVE  Truth'
<1> DEFINE places == {"idle", "posted", "accepted", "reading", "listing", "listed"}
<1>1. /\ handler \in Calls(places) /\ CallSeen(handler, records)
      /\ records \in Seq(Statuses) /\ Len(records) \in Nat
  BY LenProperties DEF Truth, TypeOK
<1>2. UNCHANGED <<records, page, load, timer, polls>>
  BY DEF ClickExecute, ExecuteApplied, RunRead, ExecuteListHandled, ExecuteListApplied,
         ExecuteFails, pvars, evars
<1>3. torn' \in BOOLEAN /\ error' \in BOOLEAN
  BY DEF Truth, TypeOK, ClickExecute, ExecuteApplied, RunRead, ExecuteListHandled,
         ExecuteListApplied, ExecuteFails
<1>4. asked' \in 0..Len(records)
  BY <1>1 DEF Truth, TypeOK, ClickExecute, ExecuteApplied, RunRead, ExecuteListHandled,
         ExecuteListApplied, ExecuteFails
<1>5. Known(history', records) /\ Seen(shown', records)
      /\ shown' \in [id : 0..Len(records), status : Statuses \cup {"none"}]
  <2>1. CASE history' = handler.list /\ shown' = shown
    BY <1>1, <2>1 DEF CallSeen, Truth, TypeOK
  <2>2. CASE shown' = [id |-> handler.id, status |-> handler.status] /\ history' = history
    BY <1>1, <2>2 DEF CallSeen, Seen, Truth, TypeOK, Calls
  <2>3. CASE UNCHANGED <<history, shown>>
    BY <2>3 DEF Truth, TypeOK
  <2> QED
    BY <2>1, <2>2, <2>3 DEF ClickExecute, ExecuteApplied, RunRead, ExecuteListHandled,
       ExecuteListApplied, ExecuteFails, evars
<1>6. handler' \in Calls(places) /\ CallSeen(handler', records)
  <2>1. CASE ExecuteListHandled
    BY <2>1, ListedCall DEF ExecuteListHandled, Calls
  <2>2. ASSUME NEW at \in {"idle", "posted", "reading", "listing"}, handler' = Waiting(at)
        PROVE  handler' \in Calls(places) /\ CallSeen(handler', records)
    BY <2>2, WaitingCall DEF Calls
  <2> QED
    BY <2>1, <2>2 DEF ClickExecute, ExecuteApplied, RunRead, ExecuteListApplied,
       ExecuteFails, Idle
<1> QED
  BY <1>2, <1>3, <1>4, <1>5, <1>6, PageStep DEF Truth, TypeOK

\* The first requests, the effect, and the other buttons.
LEMMA PageTruth ==
    ASSUME Truth,
           \/ LatestHandled \/ FirstListHandled \/ Loaded \/ LoadFails
           \/ Effect \/ Delete \/ \E i \in Ids : View(i)
    PROVE  Truth'
<1>1. /\ records \in Seq(Statuses) /\ Len(records) \in Nat
      /\ history \in Seq(Statuses) /\ Len(history) \in Nat /\ Len(history) <= Len(records)
      /\ Known(history, records) /\ Seen(shown, records)
  BY LenProperties DEF Truth, TypeOK
<1>2. UNCHANGED <<records, polls, handler, torn>>
  BY DEF LatestHandled, FirstListHandled, Loaded, LoadFails, Effect, Delete, View
<1>3. \A i \in 1..Len(records) : records[i] \in Statuses
  BY <1>1, ElementOfSeq
<1>4. \A i \in 1..Len(history) : history[i] \in Statuses
  BY <1>1, ElementOfSeq
<1>5. /\ Seen(NoExecution, records)
      /\ NoExecution \in [id : 0..Len(records), status : Statuses \cup {"none"}]
  BY <1>1 DEF Seen, NoExecution
<1>6. ASSUME NEW i \in 1..Len(history)
      PROVE  /\ Seen(Entry(i, history), records)
             /\ Entry(i, history) \in [id : 0..Len(records), status : Statuses \cup {"none"}]
  BY <1>1, <1>4, <1>6 DEF Seen, Entry, Known
<1>7. /\ load' \in FirstAnswers
      /\ load'.latest # <<>> => Seen(load'.latest[1], records)
      /\ load'.list # <<>> => Known(load'.list[1], records)
  <2>1. /\ load \in FirstAnswers
        /\ load.latest # <<>> => Seen(load.latest[1], records)
        /\ load.list # <<>> => Known(load.list[1], records)
    BY DEF Truth
  <2>2. CASE LatestHandled
    <3> DEFINE answer == IF records = <<>> THEN NoExecution ELSE Entry(Len(records), records)
    <3>1. records # <<>> => Len(records) \in 1..Len(records)
      BY <1>1, EmptySeq
    <3>2. /\ Seen(answer, records)
          /\ answer \in [id : Nat, status : Statuses \cup {"none"}]
      BY <1>1, <1>3, <1>5, <3>1 DEF Seen, Entry
    <3>3. <<answer>> \in Seq([id : Nat, status : Statuses \cup {"none"}])
          /\ <<answer>>[1] = answer
      BY <3>2
    <3>4. load' = [load EXCEPT !.latest = <<answer>>]
      BY <2>2 DEF LatestHandled
    <3> HIDE DEF answer
    <3> QED
      BY <2>1, <3>2, <3>3, <3>4 DEF FirstAnswers
  <2>3. CASE FirstListHandled
    <3>1. <<records>> \in Seq(Seq(Statuses)) /\ <<records>>[1] = records
      BY <1>1
    <3>2. load' = [load EXCEPT !.list = <<records>>]
      BY <2>3 DEF FirstListHandled
    <3> QED
      BY <2>1, <3>1, <3>2, RecordsKnown DEF FirstAnswers
  <2>4. CASE load' = Unloaded
    BY <2>4, EmptySeq DEF Unloaded, FirstAnswers
  <2>5. CASE load' = load
    BY <2>1, <2>5
  <2> QED
    BY <2>2, <2>3, <2>4, <2>5 DEF Loaded, LoadFails, Effect, Delete, View, pvars
<1>8. Known(history', records) /\ Seen(shown', records)
      /\ shown' \in [id : 0..Len(records), status : Statuses \cup {"none"}]
  <2>1. CASE Loaded
    <3>1. /\ Seen(shown', records) /\ Known(history', records)
      BY <2>1 DEF Loaded, Truth
    <3> DEFINE Executions == [id : Nat, status : Statuses \cup {"none"}]
    <3>2. load.latest \in Seq(Executions) /\ load.latest # <<>>
      BY <2>1 DEF Loaded, Truth, FirstAnswers
    <3> HIDE DEF Executions
    <3>3. load.latest[1] \in Executions
      <4>1. Len(load.latest) \in Nat /\ Len(load.latest) # 0
        BY <3>2, LenProperties, EmptySeq
      <4> QED
        BY <3>2, <4>1, ElementOfSeq
    <3> USE DEF Executions
    <3>4. shown' \in [id : Nat, status : Statuses \cup {"none"}]
      BY <2>1, <3>3 DEF Loaded
    <3> QED
      BY <1>1, <3>1, <3>4 DEF Seen
  <2>2. CASE \E i \in Ids : View(i)
    BY <1>1, <1>6, <2>2 DEF View
  <2>3. CASE UNCHANGED <<history, shown>>
    BY <2>3 DEF Truth, TypeOK
  <2> QED
    BY <2>1, <2>2, <2>3 DEF LatestHandled, FirstListHandled, LoadFails, Effect, Delete,
       evars
<1>9. timer' \in 0..Len(records) /\ asked' \in 0..Len(records)
  BY <1>1 DEF Truth, TypeOK, LatestHandled, FirstListHandled, Loaded, LoadFails, Effect,
     Delete, View, evars, Target
<1>10. page' \in {"loading", "ready", "failed"}
  BY DEF Truth, TypeOK, LatestHandled, FirstListHandled, Loaded, LoadFails, Effect,
     Delete, View, pvars
<1>11. error' \in BOOLEAN
  BY DEF Truth, TypeOK, LatestHandled, FirstListHandled, Loaded, LoadFails, Effect,
     Delete, View
<1> QED
  BY <1>2, <1>7, <1>8, <1>9, <1>10, <1>11, PageStep DEF Truth, TypeOK

LEMMA TruthStep == ASSUME Truth, [Next]_vars PROVE Truth'
<1>1. CASE UNCHANGED vars
  <2>1. UNCHANGED <<records, page, load, shown, timer, history, polls, handler, error,
                    asked, torn>>
    BY <1>1 DEF vars, pvars, evars
  <2>2. \A places : Calls(places)' = Calls(places)
    BY <2>1 DEF Calls
  <2>3. TypeOK'
    BY <2>1, <2>2 DEF Truth, TypeOK
  <2> QED
    BY <2>1, <2>3 DEF Truth
<1>2. CASE \E p \in Polls : Tick(p) \/ PollStep(p)
  BY <1>2, PollTruth
<1>3. CASE Elsewhere \/ ExecuteHandled \/ \E i \in Ids : Ends(i)
  BY <1>3, BackendStep
<1>4. CASE \/ ClickExecute \/ ExecuteApplied \/ RunRead \/ ExecuteListHandled
           \/ ExecuteListApplied \/ ExecuteFails
  BY <1>4, HandlerTruth
<1>5. CASE \/ LatestHandled \/ FirstListHandled \/ Loaded \/ LoadFails
           \/ Effect \/ Delete \/ \E i \in Ids : View(i)
  BY <1>5, PageTruth
<1> QED
  BY <1>1, <1>2, <1>3, <1>4, <1>5 DEF Next, HandlerStep

-----------------------------------------------------------------------------

LEMMA QuietStep == ASSUME Quiet, [Next]_vars PROVE Quiet'
<1> SUFFICES ASSUME page' # "ready" PROVE Quiet'
  BY DEF Quiet
<1>1. CASE UNCHANGED vars
  BY <1>1 DEF vars, pvars, evars, Quiet
<1>2. ASSUME Next PROVE page # "ready"
  BY <1>2 DEF Next, Elsewhere, Ends, LatestHandled, FirstListHandled, Loaded, LoadFails,
     Effect, Tick, PollStep, PollHandled, PollApplied, PollListHandled, PollListApplied,
     PollFails, ClickExecute, HandlerStep, ExecuteHandled, ExecuteApplied, RunRead,
     ExecuteListHandled, ExecuteListApplied, ExecuteFails, View, Delete, pvars
<1>3. CASE Next
  <2>1. /\ shown = NoExecution /\ timer = 0 /\ handler = Idle /\ asked = 0 /\ torn
        /\ \A p \in Polls : polls[p].at = "idle"
    BY <1>2, <1>3 DEF Quiet
  <2>2. Target = 0 /\ handler.at = "idle"
    BY <2>1 DEF Target, IsPending, NoExecution, Idle, Waiting, Call
  <2>3. ~Effect /\ ~HandlerStep /\ \A p \in Polls : ~Tick(p) /\ ~PollStep(p)
    BY <2>1, <2>2 DEF Effect, Tick, PollStep, PollHandled, PollApplied, PollListHandled,
       PollListApplied, PollFails, HandlerStep, ExecuteHandled, ExecuteApplied, RunRead,
       ExecuteListHandled, ExecuteListApplied, ExecuteFails
  <2>4. ~ClickExecute /\ ~Delete /\ ~Loaded /\ \A i \in Ids : ~View(i)
    BY <1>2, <1>3 DEF ClickExecute, Delete, Loaded, View
  <2>5. UNCHANGED <<shown, timer, handler, asked, torn, polls>>
    BY <1>3, <2>3, <2>4 DEF Next, Elsewhere, Ends, LatestHandled, FirstListHandled,
       LoadFails, evars
  <2> QED
    BY <2>1, <2>5 DEF Quiet
<1> QED
  BY <1>1, <1>3

\* The steps of a callback leave what it asks about to the call.
LEMMA PollChanges ==
    ASSUME Truth, NEW p \in Polls, Tick(p) \/ PollStep(p)
    PROVE  /\ \A q \in Polls \ {p} : polls'[q] = polls[q]
           /\ UNCHANGED <<timer, handler, error, asked>>
<1>1. DOMAIN polls = Polls
  BY DEF Truth, TypeOK
<1> QED
  BY <1>1 DEF Tick, PollStep, PollHandled, PollApplied, PollListHandled, PollListApplied,
     PollFails, evars

LEMMA PollAsked == ASSUME Truth, Asked, NEW p \in Polls, Tick(p) \/ PollStep(p) PROVE Asked'
<1>1. /\ \A q \in Polls \ {p} : polls'[q] = polls[q]
      /\ UNCHANGED <<timer, handler, error, asked>>
  BY PollChanges
<1>2. ASSUME asked # 0, Holding PROVE Holding'
  <2>1. DOMAIN polls = Polls
    BY DEF Truth, TypeOK
  <2>2. CASE Tick(p)
    <3>1. polls'[p].id = asked /\ shown' = shown
      BY <1>2, <2>1, <2>2 DEF Tick, Call, Holding, evars
    <3> QED
      BY <1>1, <1>2, <3>1 DEF Holding
  <2>3. CASE PollHandled(p)
    <3>1. polls'[p].id = asked /\ shown' = shown
      BY <1>2, <2>1, <2>3 DEF PollHandled, Call, Holding, evars
    <3> QED
      BY <1>1, <1>2, <3>1 DEF Holding
  <2>4. CASE PollApplied(p)
    <3>1. polls'[p].at \notin {"sent", "answered"} /\ shown'.id = asked
      BY <1>2, <2>1, <2>4 DEF PollApplied, Idle, Waiting, Call, Holding
    <3> QED
      BY <1>1, <1>2, <3>1 DEF Holding
  <2>5. CASE PollListHandled(p) \/ PollListApplied(p) \/ PollFails(p)
    <3>1. polls'[p].at \notin {"sent", "answered"} /\ shown' = shown
      BY <2>1, <2>5 DEF PollListHandled, PollListApplied, PollFails, Idle, Waiting, Call,
         evars
    <3> QED
      BY <1>1, <1>2, <3>1 DEF Holding
  <2> QED
    BY <2>2, <2>3, <2>4, <2>5 DEF PollStep
<1> QED
  BY <1>1, <1>2 DEF Asked

LEMMA AskedStep == ASSUME Truth, Quiet, Asked, [Next]_vars PROVE Asked'
<1>1. ASSUME UNCHANGED <<shown, timer, polls, asked, handler, error>> PROVE Asked'
  BY <1>1 DEF Asked, Holding
<1>2. CASE UNCHANGED vars
  BY <1>1, <1>2 DEF vars, evars
<1>3. CASE \/ Elsewhere \/ LatestHandled \/ FirstListHandled \/ LoadFails
           \/ \E i \in Ids : Ends(i)
  BY <1>1, <1>3 DEF Elsewhere, LatestHandled, FirstListHandled, LoadFails, Ends, evars
<1>4. CASE Loaded
  BY <1>4 DEF Loaded, Quiet, Asked, Idle, Waiting, Call
<1>5. CASE Effect
  <2>1. timer' \in {0, shown.id} /\ UNCHANGED <<shown, polls, asked, handler, error>>
    BY <1>5 DEF Effect, Target
  <2> QED
    BY <2>1 DEF Asked, Holding
<1>6. CASE Delete
  <2>1. error' /\ UNCHANGED <<shown, timer, polls, asked, handler>>
    BY <1>6 DEF Delete, evars
  <2> QED
    BY <2>1 DEF Asked, Holding
<1>7. ASSUME NEW i \in Ids, View(i) PROVE Asked'
  <2>1. UNCHANGED handler /\ (handler.at = "accepted" \/ asked' = 0)
        /\ (handler.at = "accepted" => asked' = asked)
    BY <1>7 DEF View
  <2> QED
    BY <2>1 DEF Asked
<1>8. ASSUME NEW p \in Polls, Tick(p) \/ PollStep(p) PROVE Asked'
  BY <1>8, PollAsked
<1>9. CASE ClickExecute
  BY <1>9 DEF ClickExecute, Asked, Waiting, Call
<1>10. CASE ExecuteHandled
  BY <1>10 DEF ExecuteHandled, Asked, Call
<1>11. CASE ExecuteApplied
  <2>1. /\ handler'.at = "reading" /\ shown'.id = asked /\ UNCHANGED <<timer, polls>>
        /\ asked' = IF Polling THEN 0 ELSE asked
    BY <1>11 DEF ExecuteApplied, Asked, Waiting, Call
  <2>2. ASSUME asked' # 0 PROVE Holding'
    BY <2>1, <2>2 DEF Holding, Polling
  <2> QED
    BY <2>1, <2>2 DEF Asked
<1>12. CASE RunRead \/ ExecuteListHandled \/ ExecuteListApplied
  <2>1. /\ handler.at \in {"reading", "listing", "listed"} /\ handler'.at # "accepted"
        /\ UNCHANGED <<shown, timer, polls, asked>>
    BY <1>12 DEF RunRead, ExecuteListHandled, ExecuteListApplied, Idle, Waiting, Call, evars
  <2> QED
    BY <2>1 DEF Asked, Holding
<1>13. CASE ExecuteFails
  BY <1>13 DEF ExecuteFails, Asked, Idle, Waiting, Call
<1> QED
  BY <1>2, <1>3, <1>4, <1>5, <1>6, <1>7, <1>8, <1>9, <1>10, <1>11, <1>12, <1>13
     DEF Next, HandlerStep

-----------------------------------------------------------------------------

\* A list just answered is as new as any before it.
LEMMA RecordsNewer ==
    ASSUME Truth
    PROVE  Newer(records) /\ (shown.status = "final" => Settled(records, shown.id))
<1>1. Len(history) \in Nat /\ Len(records) \in Nat
  BY LenProperties DEF Truth, TypeOK
<1> QED
  BY <1>1 DEF Truth, Known, Seen, Newer, Settled

\* A callback moves without a list, and what is shown stays or is pending.
LEMMA Unlisted ==
    ASSUME Lists, ~torn, NEW p \in Polls,
           ~Listing(polls[p]), ~Listing(polls'[p]),
           \A q \in Polls \ {p} : polls'[q] = polls[q],
           UNCHANGED <<history, handler>>, shown' = shown \/ shown'.status # "final"
    PROVE  Lists'
BY DEF Lists, OneList, ListsNewer, FinalListed, Listing, SomePollLists, Newer

LEMMA PollLists == ASSUME Truth, Lists, NEW p \in Polls, Tick(p) \/ PollStep(p) PROVE Lists'
<1> SUFFICES ASSUME ~torn' PROVE Lists'
  BY DEF Lists
<1>1. /\ \A q \in Polls \ {p} : polls'[q] = polls[q]
      /\ UNCHANGED handler /\ DOMAIN polls = Polls
  BY PollChanges DEF Truth, TypeOK
<1>2. CASE Tick(p) \/ PollHandled(p)
  <2>1. /\ ~Listing(polls[p]) /\ ~Listing(polls'[p])
        /\ UNCHANGED <<history, handler, shown, torn>>
    BY <1>1, <1>2 DEF Tick, PollHandled, Listing, Call, evars
  <2> QED
    BY <1>1, <2>1, Unlisted
<1>3. CASE PollApplied(p) /\ IsPending(polls[p])
  <2>1. /\ ~Listing(polls[p]) /\ ~Listing(polls'[p])
        /\ UNCHANGED <<history, handler, torn>> /\ shown'.status # "final"
    BY <1>1, <1>3 DEF PollApplied, Listing, IsPending, Idle, Waiting, Call
  <2> QED
    BY <1>1, <2>1, Unlisted
<1>4. CASE PollApplied(p) /\ ~IsPending(polls[p])
  <2>1. polls'[p].at = "listing"
    BY <1>1, <1>4 DEF PollApplied, Waiting, Call
  <2>2. torn' = (Listing(handler) \/ SomePollLists)
    BY <1>4 DEF PollApplied
  <2>3. ~Listing(handler) /\ \A q \in Polls : Listing(polls'[q]) => q = p
    BY <1>1, <2>2 DEF SomePollLists
  <2>4. OneList' /\ FinalListed'
    BY <1>1, <2>1, <2>3 DEF OneList, FinalListed, Listing
  <2>5. ListsNewer'
    BY <1>1, <2>1, <2>3 DEF ListsNewer, Listing
  <2> QED
    BY <2>4, <2>5 DEF Lists
<1>5. CASE PollListHandled(p)
  <2>1. /\ polls[p].at = "listing" /\ polls'[p].at = "listed" /\ polls'[p].list = records
        /\ UNCHANGED <<history, shown, torn>>
    BY <1>1, <1>5 DEF PollListHandled, Call, evars
  <2>2. OneList /\ ListsNewer /\ FinalListed
    BY <2>1 DEF Lists
  <2>3. \A q \in Polls : Listing(polls'[q]) <=> Listing(polls[q])
    BY <1>1, <2>1 DEF Listing
  <2>4. OneList'
    BY <1>1, <2>2, <2>3 DEF OneList, SomePollLists, Listing
  <2>5. ListsNewer'
    BY <1>1, <2>1, <2>2, RecordsNewer DEF ListsNewer, Newer, Settled
  <2>6. FinalListed'
    <3> SUFFICES ASSUME shown.status = "final" PROVE FinalListed'
      BY <2>1 DEF FinalListed
    <3>1. Settled(records, shown.id)
      BY RecordsNewer
    <3>2. CASE Settled(history, shown.id)
      BY <2>1, <3>2 DEF FinalListed
    <3>3. CASE \E q \in Polls \ {p} :
                 \/ polls[q].at = "listing"
                 \/ /\ polls[q].at = "listed"
                    /\ Settled(polls[q].list, shown.id)
      BY <1>1, <2>1, <3>3 DEF FinalListed
    <3>4. CASE polls[p].at = "listing"
      BY <2>1, <3>1 DEF FinalListed
    <3> QED
      BY <2>1, <2>2, <3>2, <3>3, <3>4 DEF FinalListed
  <2> QED
    BY <2>4, <2>5, <2>6 DEF Lists
<1>6. CASE PollListApplied(p)
  <2>1. /\ polls[p].at = "listed" /\ history' = polls[p].list /\ ~Listing(polls'[p])
        /\ UNCHANGED <<shown, torn>>
    BY <1>1, <1>6 DEF PollListApplied, Listing, Idle, Waiting, Call, evars
  <2>2. OneList /\ ListsNewer /\ FinalListed
    BY <2>1 DEF Lists
  <2>3. ~Listing(handler) /\ \A q \in Polls : Listing(polls[q]) => q = p
    BY <2>1, <2>2 DEF OneList, SomePollLists, Listing
  <2>4. \A q \in Polls : ~Listing(polls'[q])
    BY <1>1, <2>1, <2>3
  <2>5. OneList' /\ ListsNewer'
    BY <1>1, <2>3, <2>4 DEF OneList, ListsNewer, Listing
  <2>6. FinalListed'
    <3> SUFFICES ASSUME shown.status = "final" PROVE Settled(history', shown.id)
      BY <2>1 DEF FinalListed
    <3>1. Newer(polls[p].list)
      BY <2>1, <2>2 DEF ListsNewer
    <3>2. Settled(history, shown.id) \/ Settled(polls[p].list, shown.id)
      BY <2>1, <2>2, <2>3 DEF FinalListed, Listing
    <3> QED
      BY <2>1, <3>1, <3>2 DEF Newer, Settled
  <2> QED
    BY <2>5, <2>6 DEF Lists
<1>7. CASE PollFails(p)
  <2>1. /\ ~Listing(polls[p]) /\ ~Listing(polls'[p]) /\ ~torn
        /\ UNCHANGED <<history, handler, shown>>
    BY <1>1, <1>7 DEF PollFails, Listing, Idle, Waiting, Call, evars
  <2> QED
    BY <1>1, <2>1, Unlisted
<1> QED
  BY <1>2, <1>3, <1>4, <1>5, <1>6, <1>7 DEF PollStep

LEMMA ListsStep == ASSUME Truth, Quiet, Asked, Lists, [Next]_vars PROVE Lists'
<1> SUFFICES ASSUME ~torn' PROVE Lists'
  BY DEF Lists
\* The calls stay as they are, or handleExecute() moves without a list.
<1>1. ASSUME UNCHANGED <<history, polls, torn>>,
             handler' = handler \/ handler'.at \notin {"listing", "listed"},
             shown' = shown \/ shown'.status # "final" \/ Settled(history, shown'.id)
      PROVE  Lists'
  BY <1>1 DEF Lists, OneList, ListsNewer, FinalListed, Listing, SomePollLists, Newer
<1>2. CASE UNCHANGED vars
  BY <1>1, <1>2 DEF vars, evars
<1>3. CASE \/ Elsewhere \/ LatestHandled \/ FirstListHandled \/ LoadFails \/ Effect
           \/ Delete \/ \E i \in Ids : Ends(i)
  BY <1>1, <1>3 DEF Elsewhere, LatestHandled, FirstListHandled, LoadFails, Effect, Delete,
     Ends, evars
<1>4. CASE Loaded
  <2>1. torn'
    BY <1>4 DEF Loaded, Quiet
  <2> QED
    BY <2>1
<1>5. ASSUME NEW i \in Ids, View(i) PROVE Lists'
  <2>1. shown'.status = "final" => Settled(history, shown'.id)
    BY <1>5 DEF View, Entry, Settled
  <2> QED
    BY <1>1, <1>5, <2>1 DEF View
<1>6. ASSUME NEW p \in Polls, Tick(p) \/ PollStep(p) PROVE Lists'
  BY <1>6, PollLists
<1>7. CASE ClickExecute \/ ExecuteHandled \/ ExecuteFails
  BY <1>1, <1>7 DEF ClickExecute, ExecuteHandled, ExecuteFails, Idle, Waiting, Call, evars
<1>8. CASE ExecuteApplied
  <2>1. shown'.status # "final"
    BY <1>8 DEF ExecuteApplied, Asked
  <2> QED
    BY <1>1, <1>8, <2>1 DEF ExecuteApplied, Waiting, Call
<1>9. CASE RunRead
  <2>1. /\ ~torn /\ ~SomePollLists /\ handler'.at = "listing"
        /\ UNCHANGED <<history, polls, shown>>
    BY <1>9 DEF RunRead, Waiting, Call, evars
  <2> QED
    BY <2>1 DEF Lists, OneList, ListsNewer, FinalListed, Listing, SomePollLists, Newer
<1>10. CASE ExecuteListHandled
  <2>1. /\ handler.at = "listing" /\ handler'.at = "listed" /\ handler'.list = records
        /\ UNCHANGED <<history, polls, shown, torn>>
    BY <1>10 DEF ExecuteListHandled, Call, evars
  <2> QED
    BY <2>1, RecordsNewer
       DEF Lists, OneList, ListsNewer, FinalListed, Listing, SomePollLists, Newer
<1>11. CASE ExecuteListApplied
  <2>1. /\ handler.at = "listed" /\ history' = handler.list /\ ~Listing(handler')
        /\ UNCHANGED <<polls, shown, torn>>
    BY <1>11 DEF ExecuteListApplied, Listing, Idle, Waiting, Call, evars
  <2>2. OneList /\ ListsNewer /\ FinalListed /\ ~SomePollLists
    BY <2>1 DEF Lists, OneList, Listing
  <2>3. OneList' /\ ListsNewer'
    BY <2>1, <2>2 DEF OneList, ListsNewer, SomePollLists, Listing
  <2>4. FinalListed'
    <3> SUFFICES ASSUME shown.status = "final" PROVE Settled(history', shown.id)
      BY <2>1 DEF FinalListed
    <3>1. Settled(history, shown.id)
      BY <2>2 DEF FinalListed, SomePollLists, Listing
    <3> QED
      BY <2>1, <2>2, <3>1 DEF ListsNewer, Newer, Settled
  <2> QED
    BY <2>3, <2>4 DEF Lists
<1> QED
  BY <1>2, <1>3, <1>4, <1>5, <1>6, <1>7, <1>8, <1>9, <1>10, <1>11 DEF Next, HandlerStep

-----------------------------------------------------------------------------

(* Whatever the page shows or was answered was so at the backend; nothing  *)
(* happens on a page not loaded; what was asked for is held until another  *)
(* is chosen; lists do not go back (page.tsx, all of it).                  *)
THEOREM PageInvariant == Spec => []IInv
<1>1. Init => IInv
  BY InitIInv
<1>2. IInv /\ [Next]_vars => IInv'
  BY TruthStep, QuietStep, AskedStep, ListsStep DEF IInv
<1> QED
  BY <1>1, <1>2, PTL DEF Spec

(* What the page, its callbacks and its lists hold, for every number of    *)
(* executions and of overlapping polls.                                    *)
THEOREM PageTypeOK == Spec => []TypeOK
<1>1. IInv => TypeOK
  BY DEF IInv, Truth
<1> QED
  BY <1>1, PageInvariant, PTL

(* Once Execute has been answered without an error the page shows the      *)
(* execution it planned, unless it was still polling another or the user   *)
(* chose one (page.tsx:72-89).                                             *)
THEOREM PageShowsWhatWasAsked == Spec => []ShowsWhatWasAsked
<1>1. IInv => ShowsWhatWasAsked
  BY DEF IInv, Asked, Holding, ShowsWhatWasAsked
<1> QED
  BY <1>1, PageInvariant, PTL

(* When nothing is under way the list has the final status of the          *)
(* execution shown, unless a list was lost, crossed another, or the page   *)
(* was loaded torn (page.tsx:61-64).                                       *)
THEOREM PageHistoryAgrees == Spec => []HistoryAgrees
<1>1. IInv => HistoryAgrees
  BY DEF IInv, Lists, FinalListed, Settled, AtRest, HistoryAgrees
<1> QED
  BY <1>1, PageInvariant, PTL

\* What the page says is final is final at the backend.
NeverAhead ==
    /\ shown.status = "final" => Settled(records, shown.id)
    /\ \A i \in 1..Len(history) : Settled(history, i) => Settled(records, i)

(* No snapshot, however late or out of order it is applied, makes the page *)
(* claim an end the execution has not come to, in its card or in its list  *)
(* (page.tsx:26-36,57-69,72-98).                                           *)
THEOREM PageNeverAhead == Spec => []NeverAhead
<1>1. IInv => NeverAhead
  <2>1. ASSUME Truth PROVE NeverAhead
    <3>1. Len(history) \in Nat /\ Len(records) \in Nat
      BY <2>1, LenProperties DEF Truth, TypeOK
    <3> QED
      BY <2>1, <3>1 DEF Truth, Known, Seen, Settled, NeverAhead
  <2> QED
    BY <2>1 DEF IInv
<1> QED
  BY <1>1, PageInvariant, PTL

\* No execution the list shows as final is shown as pending, or not at all, again.
KeepsFinal == ~torn' => \A i \in 1..Len(history) : Settled(history, i) => Settled(history', i)

(* The list on the page does not go back, unless one was lost or two have  *)
(* been under way at once: the lists of a poll and of Execute are each     *)
(* read after the one shown (page.tsx:61-64,84-85).                        *)
THEOREM PageListForward == Spec => [][KeepsFinal]_vars
<1>1. IInv /\ [Next]_vars => [KeepsFinal]_vars
  <2> SUFFICES ASSUME IInv, Next, ~torn', history' # history PROVE KeepsFinal
    BY DEF KeepsFinal
  <2>1. CASE Loaded
    BY <2>1 DEF Loaded, IInv, Quiet
  <2>2. ASSUME NEW p \in Polls, PollListApplied(p) PROVE KeepsFinal
    BY <2>2 DEF PollListApplied, KeepsFinal, IInv, Lists, ListsNewer, Newer
  <2>3. CASE ExecuteListApplied
    BY <2>3 DEF ExecuteListApplied, KeepsFinal, IInv, Lists, ListsNewer, Newer
  <2> QED
    BY <2>1, <2>2, <2>3 DEF Next, Elsewhere, Ends, LatestHandled, FirstListHandled,
       LoadFails, Effect, Tick, PollStep, PollHandled, PollApplied, PollListHandled,
       PollFails, ClickExecute, HandlerStep, ExecuteHandled, ExecuteApplied, RunRead,
       ExecuteListHandled, ExecuteFails, View, Delete
<1> QED
  BY <1>1, PageInvariant, PTL DEF Spec
=============================================================================
