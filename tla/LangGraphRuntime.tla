-------------------------- MODULE LangGraphRuntime --------------------------
(***************************************************************************)
(* One run of a process on the LangGraph runtime                           *)
(* (src/src/bpg/runtime/langgraph_runtime.py).                             *)
(*                                                                         *)
(* Three parties share the runtime object:                                 *)
(*   - the thread in run() or resume(), which walks the nodes in the       *)
(*     topological order and, for each, executes node_fn: decide, invoke   *)
(*     the provider, wait, retry, route the failure;                       *)
(*   - threads calling cancel_run(), which set the run's cancel event and  *)
(*     call provider.cancel on the handle they find in flight;             *)
(*   - providers: the worker thread inside provider.invoke and the         *)
(*     execution behind the handle it returns.                             *)
(*                                                                         *)
(* The step from one label of pc to the next reads or writes what another  *)
(* thread may touch at most once; everything node_fn does between two such *)
(* accesses is one step.  Providers keep to the types of providers/base.py *)
(* (invoke gives a handle).  Payloads are abstracted: whether an edge's    *)
(* `when' holds, mappings conflict, a payload validates, a policy denies   *)
(* or a cached result exists is a choice of the step that asks.  Time is   *)
(* the flag `expired': the deadline of the current attempt has passed.     *)
(***************************************************************************)
EXTENDS ProcessIR

CONSTANTS
    NoHandle,       \* no handle in flight
    Checkpointer,   \* the runtime was built with a LangGraph checkpointer
    SinkMayFail     \* emitting an event may raise (audit policy fail_run)

Handle == Node \X (1..MaxAttempts)   \* the n-th invocation of a node

ASSUME NoHandleAssumption == NoHandle \notin Handle
ASSUME FlagsAssumption == Checkpointer \in BOOLEAN /\ SinkMayFail \in BOOLEAN

VARIABLES
    ir,             \* self._ir: the process, fixed for the run
    \* RunState, written by the run thread only
    nodeStatus,     \* node_statuses; "none" when absent
    failureRoutes,  \* keys of failure_routes
    recoverable,    \* recoverable_failures
    runStatus,      \* run_status
    \* the run thread
    driver,         \* "run" or "resume"
    pc, pos,        \* where it is, and at which node of the order
    firing,         \* firing_edges of the current node
    attempt,        \* attempts_used of the current node
    outcome,        \* how the current attempt ended
    expired,        \* the deadline of the current attempt has passed
    answered,       \* node whose interrupt() has been answered by resume()
    result,         \* run_status of the state returned to the caller
    \* shared with cancel_run()
    cancelEvent,    \* _cancel_events: "absent", "clear" or "set"
    inflight,       \* _inflight_handles
    cancelling,     \* handles that cancel_run() calls read and have yet to cancel
    \* providers
    task,           \* the execution behind each handle
    cancelled,      \* handles passed to provider.cancel
    \* the event sink
    lastEvent,      \* last lifecycle event of each node
    runEvent,       \* last lifecycle event of the run
    \* history
    cancelPos       \* position of the run when it was first cancelled, or 0

state     == <<nodeStatus, failureRoutes, recoverable, runStatus>>
locals    == <<firing, attempt, outcome, expired>>
caller    == <<driver, answered, result>>
shared    == <<cancelEvent, inflight>>
canceller == <<cancelling, cancelPos>>
provider  == <<task, cancelled>>
events    == <<lastEvent, runEvent>>
vars == <<ir, state, locals, caller, shared, canceller, provider, events, pc, pos>>

NodeStatus == {"none", "completed", "skipped", "failed", "timed_out", "cancelled"}
RunStatus  == {"none", "running", "completed", "failed", "cancelled"}
TaskState  == {"none", "invoking", "raised", "running", "finished"}
Outcome    == {"none", "output", "badOutput", "transient", "permanent",
               "cancelled", "timeout"}
NodeEvent  == {"none", "running", "retry", "skipped", "blocked", "completed",
               "failed", "timed_out", "cancelled"}
RunEvent   == {"none", "run_started", "run_completed", "run_failed"}
Attempting == {"invoke", "joinInvoke", "checkInvoke", "register", "checkCancel",
               "await", "pollCheck", "poll", "awaitBlocking"}
Terminal   == {"done", "rejected", "aborted"}
Label      == Attempting \cup Terminal
              \cup {"new", "enter", "settle", "finalise", "cleanup", "suspended"}

TypeOK ==
    /\ ir \in Processes
    /\ nodeStatus \in [Node -> NodeStatus]
    /\ failureRoutes \in SUBSET Node
    /\ recoverable \in SUBSET Node
    /\ runStatus \in {"none", "running", "failed", "cancelled"}
    /\ driver \in {"run", "resume"}
    /\ pc \in Label
    /\ pos \in 1..(Len(ir.order) + 1)
    /\ pc \in Attempting \cup {"new", "enter", "settle", "suspended"}
          => pos <= Len(ir.order)
    /\ firing \in SUBSET ir.edges
    /\ attempt \in 1..MaxAttempts
    /\ outcome \in Outcome
    /\ expired \in BOOLEAN
    /\ answered \in Node \cup {NoNode}
    /\ result \in RunStatus
    /\ cancelEvent \in {"absent", "clear", "set"}
    /\ inflight \in Handle \cup {NoHandle}
    /\ cancelling \in SUBSET Handle
    /\ task \in [Handle -> TaskState]
    /\ cancelled \in SUBSET Handle
    /\ lastEvent \in [Node -> NodeEvent]
    /\ runEvent \in RunEvent
    /\ cancelPos \in Nat

-----------------------------------------------------------------------------
Current == ir.order[pos]
CurrentHandle == <<Current, attempt>>
IsHuman == Current \in ir.human

\* The attempt has a deadline: an edge that fired sets one, or the node type.
\* (The `timeout' in a node instance's config is not consulted.)
Timed == (\E e \in firing : e.timed) \/ Current \in ir.timed

Init ==
    /\ ir \in Processes
    /\ nodeStatus = [n \in Node |-> "none"]
    /\ failureRoutes = {} /\ recoverable = {} /\ runStatus = "none"
    /\ driver = "run" /\ answered = NoNode /\ result = "none"
    /\ pc = "new" /\ pos = 1
    /\ firing = {} /\ attempt = 1 /\ outcome = "none" /\ expired = FALSE
    /\ cancelEvent = "absent" /\ inflight = NoHandle
    /\ cancelling = {} /\ cancelPos = 0
    /\ task = [hd \in Handle |-> "none"] /\ cancelled = {}
    /\ lastEvent = [n \in Node |-> "none"] /\ runEvent = "none"

\* run() up to graph.invoke: announce the run, then refuse or accept its input.
Start ==
    /\ pc = "new"
    /\ runEvent' = "run_started"
    /\ \/ /\ pc' = "rejected"
          /\ UNCHANGED <<runStatus, cancelEvent>>
       \/ /\ pc' = "enter"
          /\ runStatus' = "running"
          /\ cancelEvent' = "clear"
    /\ UNCHANGED <<ir, nodeStatus, failureRoutes, recoverable, locals, caller,
                   inflight, canceller, provider, lastEvent, pos>>

\* node_fn returns: the current node gets status s, the run's status becomes
\* rs, and the chain moves to the next node.
Resolve(s, rs) ==
    /\ nodeStatus' = [nodeStatus EXCEPT ![Current] = s]
    /\ runStatus' = rs
    /\ pos' = pos + 1
    /\ pc' = IF pos = Len(ir.order) THEN "finalise" ELSE "enter"
    /\ firing' = {} /\ attempt' = 1 /\ outcome' = "none" /\ expired' = FALSE
    /\ UNCHANGED <<ir, caller, cancelEvent, canceller, provider, runEvent>>

EmitNode(e) == lastEvent' = [lastEvent EXCEPT ![Current] = e]
NoRoutes == UNCHANGED <<failureRoutes, recoverable>>

-----------------------------------------------------------------------------
(* node_fn before the provider is invoked.                                 *)

SkipAfterFailure ==
    /\ pc = "enter" /\ runStatus = "failed"
    /\ Resolve("skipped", "failed")
    /\ NoRoutes /\ UNCHANGED <<lastEvent, inflight>>

\* Mutant: a cancelled node leaves no event.
CancelSilently ==
    /\ pc = "enter" /\ runStatus # "failed"
    /\ runStatus = "cancelled" \/ cancelEvent = "set"
    /\ Resolve("cancelled", "cancelled")
    /\ UNCHANGED lastEvent /\ NoRoutes /\ UNCHANGED inflight

CancelAtEntry ==
    /\ pc = "enter" /\ runStatus # "failed"
    /\ runStatus = "cancelled" \/ cancelEvent = "set"
    /\ Resolve("cancelled", "cancelled")
    /\ EmitNode("cancelled") /\ NoRoutes /\ UNCHANGED inflight

\* Mutants: the cancel event, or the run's status, is not consulted.
ProceedsUncancelled == pc = "enter" /\ runStatus = "running"
ProceedsAfterFailure == pc = "enter" /\ cancelEvent # "set"

Proceeds == pc = "enter" /\ runStatus = "running" /\ cancelEvent # "set"

CompleteTrigger ==
    /\ Proceeds /\ Current = ir.trigger
    /\ Resolve("completed", "running")
    /\ EmitNode("completed") /\ NoRoutes /\ UNCHANGED inflight

\* Mutant: an edge may fire whatever became of its source.
FiringFromAnySource ==
    IF answered = Current THEN {firing}
    ELSE IF Current \in failureRoutes THEN {{}}
    ELSE SUBSET Incoming(ir, Current)

\* The sets of incoming edges that may fire: their source has completed, and
\* those without a condition all do.  A failure route bypasses the edges, and
\* a node re-entered by resume() sees the state it was suspended in.
FiringSets ==
    LET active == {e \in Incoming(ir, Current) : nodeStatus[e.source] = "completed"}
    IN  IF answered = Current THEN {firing}
        ELSE IF Current \in failureRoutes THEN {{}}
        ELSE {F \in SUBSET active : \A e \in active : e.conditional \/ e \in F}

SkipInactive ==
    /\ Proceeds /\ Current # ir.trigger
    /\ Current \notin failureRoutes /\ {} \in FiringSets
    /\ Resolve("skipped", "running")
    /\ EmitNode("skipped") /\ NoRoutes /\ UNCHANGED inflight

\* The current node goes on to be executed: an edge fires, or a failure has
\* been routed to it.  A node re-entered by resume() has passed its checks.
ActivatingSets == {F \in FiringSets : F # {} \/ Current \in failureRoutes}
Activates == Proceeds /\ Current # ir.trigger /\ ActivatingSets # {}
FirstVisit == Activates /\ answered # Current

\* Two edges that fire map different values to one field.
FailMapping ==
    /\ FirstVisit /\ \E F \in ActivatingSets : \E e1, e2 \in F : e1 # e2
    /\ Resolve("failed", "failed")
    /\ EmitNode("failed") /\ NoRoutes /\ UNCHANGED inflight

\* The input does not validate: the node fails but the run goes on.
FailInput ==
    /\ FirstVisit
    /\ Resolve("failed", "running")
    /\ EmitNode("failed") /\ NoRoutes /\ UNCHANGED inflight

\* Access control or separation of duties, enforced on human nodes only.
BlockByPolicy ==
    /\ FirstVisit /\ IsHuman
    /\ Resolve("failed", "failed")
    /\ EmitNode("blocked") /\ NoRoutes /\ UNCHANGED inflight

\* No provider is registered under the node type's provider id.
FailProvider ==
    /\ FirstVisit
    /\ Resolve("failed", "failed")
    /\ EmitNode("failed") /\ NoRoutes /\ UNCHANGED inflight

\* An earlier execution of the run left a result under the idempotency key.
ReuseResult ==
    /\ FirstVisit
    /\ Resolve("completed", "running")
    /\ EmitNode("completed") /\ NoRoutes /\ UNCHANGED inflight

Schedule ==
    /\ Activates /\ firing' \in ActivatingSets
    /\ EmitNode("running")
    /\ pc' = "invoke"
    /\ UNCHANGED <<ir, state, attempt, outcome, expired, caller, shared,
                   canceller, provider, runEvent, pos>>

-----------------------------------------------------------------------------
(* One attempt.  The outcomes of an execution that has ended, as await_    *)
(* reports them; after a cancel the provider may also say "cancelled".     *)

AwaitOutcomes ==
    {"output", "badOutput", "transient", "permanent"}
    \cup (IF CurrentHandle \in cancelled THEN {"cancelled"} ELSE {})

SetTask(s) == task' = [task EXCEPT ![CurrentHandle] = s]
CancelCurrent == cancelled' = cancelled \cup {CurrentHandle}
EndAttempt(o) == outcome' = o /\ pc' = "settle"

\* What a step of an attempt leaves alone.
AttemptFrame ==
    UNCHANGED <<ir, state, firing, attempt, expired, caller, cancelEvent,
                canceller, events, pos>>

\* A worker thread starts in provider.invoke.
InvokeInWorker ==
    /\ pc = "invoke" /\ ~IsHuman
    /\ SetTask("invoking") /\ pc' = "joinInvoke"
    /\ AttemptFrame /\ UNCHANGED <<inflight, outcome, cancelled>>

\* A human provider is invoked by the run thread itself.
InvokeHuman ==
    /\ pc = "invoke" /\ IsHuman
    /\ \/ \E s \in {"running", "finished"} :
            SetTask(s) /\ pc' = "register" /\ UNCHANGED outcome
       \/ SetTask("raised")
          /\ \E o \in {"transient", "permanent", "timeout"} : EndAttempt(o)
    /\ AttemptFrame /\ UNCHANGED <<inflight, cancelled>>

\* interrupt() in provider.invoke: graph.invoke returns with the node unresolved.
Suspend ==
    /\ pc = "invoke" /\ IsHuman
    /\ Checkpointer /\ answered # Current
    /\ pc' = "finalise"
    /\ AttemptFrame /\ UNCHANGED <<inflight, outcome, provider>>

\* done.wait(0.05) and what follows when the worker has returned.
JoinInvoke ==
    /\ pc = "joinInvoke"
    /\ \/ /\ task[CurrentHandle] = "invoking"
          /\ pc' = "checkInvoke" /\ UNCHANGED outcome
       \/ /\ task[CurrentHandle] = "raised"
          /\ \E o \in {"transient", "permanent", "timeout"} : EndAttempt(o)
       \/ /\ task[CurrentHandle] \in {"running", "finished"}
          /\ IF expired THEN EndAttempt("timeout")
             ELSE pc' = "register" /\ UNCHANGED outcome
    /\ AttemptFrame /\ UNCHANGED <<inflight, provider>>

\* Mutant: the deadline does not bound provider.invoke.
CheckInvokeWithoutDeadline ==
    /\ pc = "checkInvoke"
    /\ \/ cancelEvent = "set" /\ EndAttempt("cancelled")
       \/ cancelEvent # "set" /\ pc' = "joinInvoke" /\ UNCHANGED outcome
    /\ AttemptFrame /\ UNCHANGED <<inflight, provider>>

\* The worker has not returned: give the invocation up, or wait again.
CheckInvoke ==
    /\ pc = "checkInvoke"
    /\ \/ cancelEvent = "set" /\ EndAttempt("cancelled")
       \/ cancelEvent # "set" /\ expired /\ EndAttempt("timeout")
       \/ cancelEvent # "set" /\ ~expired
          /\ pc' = "joinInvoke" /\ UNCHANGED outcome
    /\ AttemptFrame /\ UNCHANGED <<inflight, provider>>

Register ==
    /\ pc = "register"
    /\ inflight' = CurrentHandle
    /\ pc' = IF IsHuman THEN "checkCancel" ELSE "pollCheck"
    /\ AttemptFrame /\ UNCHANGED <<outcome, provider>>

\* provider.cancel may itself raise a ProviderError or a TimeoutError, which is
\* what counts then.
CheckCancel ==
    /\ pc = "checkCancel"
    /\ \/ /\ cancelEvent = "set" /\ CancelCurrent
          /\ \E o \in {"cancelled", "transient", "permanent", "timeout"} : EndAttempt(o)
       \/ cancelEvent # "set" /\ pc' = "await" /\ UNCHANGED <<outcome, cancelled>>
    /\ AttemptFrame /\ UNCHANGED <<inflight, task>>

\* await_ of a human provider, bounded by the deadline if there is one.
AwaitHuman ==
    /\ pc = "await"
    /\ \/ task[CurrentHandle] = "finished"
          /\ \E o \in AwaitOutcomes : EndAttempt(o)
       \/ expired /\ EndAttempt("timeout")
    /\ AttemptFrame /\ UNCHANGED <<inflight, provider>>

\* Mutants: the cancel event is not consulted; a timeout leaves the execution.
PollCheckDeadlineOnly ==
    /\ pc = "pollCheck"
    /\ \/ expired /\ CancelCurrent /\ EndAttempt("timeout")
       \/ ~expired /\ pc' = "poll" /\ UNCHANGED <<outcome, cancelled>>
    /\ AttemptFrame /\ UNCHANGED <<inflight, task>>
PollCheckAbandoning ==
    /\ pc = "pollCheck"
    /\ \/ cancelEvent = "set" /\ CancelCurrent /\ EndAttempt("cancelled")
       \/ cancelEvent # "set" /\ expired /\ EndAttempt("timeout") /\ UNCHANGED cancelled
       \/ cancelEvent # "set" /\ ~expired
          /\ pc' = "poll" /\ UNCHANGED <<outcome, cancelled>>
    /\ AttemptFrame /\ UNCHANGED <<inflight, task>>

PollCheck ==
    /\ pc = "pollCheck"
    /\ \/ cancelEvent = "set" /\ CancelCurrent /\ EndAttempt("cancelled")
       \/ cancelEvent # "set" /\ expired /\ CancelCurrent /\ EndAttempt("timeout")
       \/ cancelEvent # "set" /\ ~expired
          /\ pc' = "poll" /\ UNCHANGED <<outcome, cancelled>>
    /\ AttemptFrame /\ UNCHANGED <<inflight, task>>

\* poll() itself may raise; on RUNNING an attempt without a deadline blocks.
Poll ==
    /\ pc = "poll"
    /\ \/ \E o \in {"transient", "permanent"} : EndAttempt(o)
       \/ /\ task[CurrentHandle] = "running"
          /\ pc' = IF Timed THEN "pollCheck" ELSE "awaitBlocking"
          /\ UNCHANGED outcome
       \/ /\ task[CurrentHandle] = "finished"
          /\ \E o \in AwaitOutcomes \cup (IF expired THEN {"timeout"} ELSE {}) :
                EndAttempt(o)
    /\ AttemptFrame /\ UNCHANGED <<inflight, provider>>

AwaitBlocking ==
    /\ pc = "awaitBlocking"
    /\ task[CurrentHandle] = "finished"
    /\ \E o \in AwaitOutcomes \cup {"timeout"} : EndAttempt(o)
    /\ AttemptFrame /\ UNCHANGED <<inflight, provider>>

\* await_ raises a ProviderError although the execution goes on.  Nothing tells
\* the execution to stop, and a retryable error starts another beside it.  (A
\* TimeoutError before a timeout is against the contract in providers/base.py.)
AwaitRaises ==
    /\ pc \in {"await", "awaitBlocking"}
    /\ task[CurrentHandle] = "running"
    /\ \E o \in {"transient", "permanent"} : EndAttempt(o)
    /\ AttemptFrame /\ UNCHANGED <<inflight, provider>>

\* Time: the deadline of the attempt under way passes.
Expire ==
    /\ pc \in Attempting \ {"invoke"} /\ (IsHuman => pc = "await")
    /\ Timed /\ ~expired
    /\ expired' = TRUE
    /\ UNCHANGED <<ir, state, firing, attempt, outcome, caller, shared,
                   canceller, provider, events, pc, pos>>

-----------------------------------------------------------------------------
(* node_fn after an attempt: the handle leaves the in-flight table, then   *)
(* the outcome is retried or resolved.                                     *)

\* Mutant: one attempt too many.
RetriesOnceMore == outcome = "transient" /\ attempt <= ir.maxAttempts[Current]

Retries == outcome = "transient" /\ attempt < ir.maxAttempts[Current]

\* Mutants: the handle stays in the table; the attempt is not counted.
RetryInFlight ==
    /\ pc = "settle" /\ Retries
    /\ EmitNode("retry")
    /\ attempt' = attempt + 1 /\ outcome' = "none" /\ expired' = FALSE
    /\ pc' = "invoke"
    /\ UNCHANGED <<ir, state, firing, caller, shared, canceller, provider, runEvent, pos>>
RetryUncounted ==
    /\ pc = "settle" /\ Retries
    /\ EmitNode("retry")
    /\ outcome' = "none" /\ expired' = FALSE
    /\ pc' = "invoke" /\ inflight' = NoHandle
    /\ UNCHANGED <<ir, state, firing, attempt, caller, cancelEvent, canceller,
                   provider, runEvent, pos>>

\* node_retry_scheduled and the backoff sleep.
Retry ==
    /\ pc = "settle" /\ Retries
    /\ EmitNode("retry")
    /\ attempt' = attempt + 1 /\ outcome' = "none" /\ expired' = FALSE
    /\ pc' = "invoke" /\ inflight' = NoHandle
    /\ UNCHANGED <<ir, state, firing, caller, cancelEvent, canceller, provider,
                   runEvent, pos>>

\* on_timeout.out: the node counts as completed, with a synthetic output.
TimeOutWithFallback ==
    /\ pc = "settle" /\ outcome = "timeout" /\ Current \in ir.fallback
    /\ Resolve("completed", runStatus)
    /\ EmitNode("timed_out") /\ NoRoutes /\ inflight' = NoHandle

TimeOut ==
    LET routes == Escalation(ir, Current, "timeout")
    IN  /\ pc = "settle" /\ outcome = "timeout" /\ Current \notin ir.fallback
        /\ Resolve("timed_out", IF routes = {} THEN "failed" ELSE runStatus)
        /\ failureRoutes' = failureRoutes \cup routes
        /\ UNCHANGED recoverable
        /\ EmitNode("timed_out") /\ inflight' = NoHandle

\* The handlers of a failure of the current node: those of the edges that
\* fired, and the escalation rules' unless one of these edges says `fail'.
ForceFail == \E e \in firing : e.action = "fail"
FailureHandlers ==
    {e.handler : e \in {x \in firing : x.handler # NoNode}}
    \cup (IF ForceFail THEN {} ELSE Escalation(ir, Current, "failure"))

Fail ==
    /\ pc = "settle"
    /\ outcome \in {"permanent", "cancelled"} \/ (outcome = "transient" /\ ~Retries)
    /\ IF outcome = "cancelled"
       THEN Resolve("cancelled", "cancelled") /\ EmitNode("cancelled")
       ELSE /\ Resolve("failed", IF ForceFail \/ FailureHandlers = {}
                                 THEN "failed" ELSE runStatus)
            /\ EmitNode("failed")
    /\ failureRoutes' = failureRoutes \cup FailureHandlers
    /\ recoverable' = recoverable \cup (IF FailureHandlers = {} THEN {} ELSE {Current})
    /\ inflight' = NoHandle

FailOutput ==
    /\ pc = "settle" /\ outcome = "badOutput"
    /\ Resolve("failed", "failed")
    /\ EmitNode("failed") /\ NoRoutes /\ inflight' = NoHandle

Complete ==
    /\ pc = "settle" /\ outcome = "output"
    /\ Resolve("completed", runStatus)
    /\ EmitNode("completed") /\ NoRoutes /\ inflight' = NoHandle

-----------------------------------------------------------------------------
(* run() and resume() after graph.invoke.                                  *)

With(status) == {n \in Node : nodeStatus[n] = status}

\* Mutant: failures that no handler took are forgotten.
FinalStatusForgiving ==
    IF runStatus # "running" THEN runStatus
    ELSE IF With("cancelled") # {} THEN "cancelled"
    ELSE "completed"

FinalStatus ==
    IF runStatus # "running" THEN runStatus
    ELSE IF With("cancelled") # {} THEN "cancelled"
    ELSE IF With("failed") \ recoverable # {} THEN "failed"
    ELSE "completed"

Finalise ==
    /\ pc = "finalise" /\ driver = "run"
    /\ result' = FinalStatus
    /\ runEvent' = IF FinalStatus = "completed" THEN "run_completed" ELSE "run_failed"
    /\ pc' = "cleanup"
    /\ UNCHANGED <<ir, state, locals, driver, answered, shared, canceller,
                   provider, lastEvent, pos>>

AfterGraph == IF pos <= Len(ir.order) THEN "suspended" ELSE "done"

Cleanup ==
    /\ pc = "cleanup"
    /\ cancelEvent' = "absent" /\ inflight' = NoHandle
    /\ pc' = AfterGraph
    /\ UNCHANGED <<ir, state, locals, caller, canceller, provider, events, pos>>

\* resume(): re-enter the suspended node.  Its node_fn starts over and registers
\* a cancel event again.
Resume ==
    /\ pc = "suspended"
    /\ driver' = "resume" /\ answered' = Current /\ result' = "none"
    /\ cancelEvent' = IF cancelEvent = "absent" THEN "clear" ELSE cancelEvent
    /\ pc' = "enter" /\ attempt' = 1
    /\ UNCHANGED <<ir, state, firing, outcome, expired, inflight, canceller,
                   provider, events, pos>>

\* resume() hands the caller what graph.invoke returns, as it is.
ReturnResumed ==
    /\ pc = "finalise" /\ driver = "resume"
    /\ result' = runStatus /\ pc' = AfterGraph
    /\ UNCHANGED <<ir, state, locals, driver, answered, shared, canceller,
                   provider, events, pos>>

\* An exception leaves node_fn or run(): a reference of a mapping that cannot
\* be resolved, a human provider raising anything else than a ProviderError or
\* a TimeoutError, or a sink that raises.  Nothing cleans up after it.
Abort ==
    /\ \/ /\ SinkMayFail
          /\ \/ pc \in {"new", "settle"}
             \/ pc = "enter" /\ runStatus # "failed"
             \/ pc = "finalise" /\ driver = "run"
       \/ FirstVisit /\ ActivatingSets # {{}}
       \/ pc \in {"invoke", "await"} /\ IsHuman
       \/ pc = "checkCancel" /\ cancelEvent = "set"
    /\ inflight' = IF pc = "settle" THEN NoHandle ELSE inflight
    /\ pc' = "aborted"
    /\ UNCHANGED <<ir, state, locals, caller, cancelEvent, canceller, provider,
                   events, pos>>

-----------------------------------------------------------------------------
(* The other threads.                                                      *)

\* Mutant: cancel_run() sets the event and does not look for a handle.
CancelRunEventOnly ==
    /\ cancelEvent # "absent"
    /\ cancelEvent' = "set"
    /\ cancelPos' = IF cancelPos = 0 THEN pos ELSE cancelPos
    /\ UNCHANGED <<ir, state, locals, caller, inflight, cancelling, provider, events, pc, pos>>

\* cancel_run() under the lock; it returns False when there is no event.
CancelRun ==
    /\ cancelEvent # "absent"
    /\ cancelEvent' = "set"
    /\ cancelling' = cancelling \cup ({inflight} \ {NoHandle})
    /\ cancelPos' = IF cancelPos = 0 THEN pos ELSE cancelPos
    /\ UNCHANGED <<ir, state, locals, caller, inflight, provider, events, pc, pos>>

\* cancel_run() after it released the lock.
DeliverCancel(hd) ==
    /\ hd \in cancelling
    /\ cancelled' = cancelled \cup {hd}
    /\ cancelling' = cancelling \ {hd}
    /\ UNCHANGED <<ir, state, locals, caller, shared, cancelPos, task, events, pc, pos>>

ProviderFrame ==
    UNCHANGED <<ir, state, locals, caller, shared, canceller, cancelled, events, pc, pos>>

\* provider.invoke returns a handle, finished or not, or raises.
InvokeReturns(hd) ==
    /\ task[hd] = "invoking"
    /\ \E s \in {"running", "finished", "raised"} : task' = [task EXCEPT ![hd] = s]
    /\ ProviderFrame

ExecutionEnds(hd) ==
    /\ task[hd] = "running"
    /\ task' = [task EXCEPT ![hd] = "finished"]
    /\ ProviderFrame

-----------------------------------------------------------------------------
EnterNode ==
    \/ SkipAfterFailure \/ CancelAtEntry \/ CompleteTrigger \/ SkipInactive
    \/ FailMapping \/ FailInput \/ BlockByPolicy \/ FailProvider \/ ReuseResult
    \/ Schedule

AttemptStep ==
    \/ InvokeInWorker \/ InvokeHuman \/ Suspend \/ JoinInvoke \/ CheckInvoke
    \/ Register \/ CheckCancel \/ AwaitHuman \/ PollCheck \/ Poll \/ AwaitBlocking

Settle ==
    Retry \/ TimeOutWithFallback \/ TimeOut \/ Fail \/ FailOutput \/ Complete

RunThread ==
    \/ Start \/ EnterNode \/ AttemptStep \/ Settle
    \/ Finalise \/ Cleanup \/ ReturnResumed

Providers == \E hd \in Handle : InvokeReturns(hd) \/ ExecutionEnds(hd)

\* The run is over (or waits for an answer that may never come).
Over == pc \in Terminal \cup {"suspended"} /\ UNCHANGED vars

Next ==
    \/ RunThread \/ AwaitRaises \/ Abort \/ Resume \/ Expire
    \/ CancelRun \/ (\E hd \in Handle : DeliverCancel(hd)) \/ Providers \/ Over

Spec == Init /\ [][Next]_vars

\* The run thread is scheduled, time passes, and provider.cancel returns; no
\* fairness for the providers' executions, the callers of cancel_run() and
\* resume(), an await_ that raises, or failures.
Fairness ==
    /\ WF_vars(RunThread) /\ WF_vars(Expire)
    /\ \A hd \in Handle : WF_vars(DeliverCancel(hd))
FairSpec == Spec /\ Fairness

-----------------------------------------------------------------------------
(* Safety.                                                                 *)

\* A cancel request never slips between the check of the cancel event and the
\* registration of the handle: when the run thread blocks in await_ while the
\* event is set, cancel_run() has cancelled its handle or is about to.
NoLostCancel ==
    cancelEvent = "set" /\ pc \in {"await", "awaitBlocking"}
    => CurrentHandle \in cancelled \/ CurrentHandle \in cancelling

\* The handle cancel_run() finds in the in-flight table is the one of the
\* attempt under way, never that of an earlier attempt or node, on every path
\* that does not leave the runtime by an exception.
InflightIsCurrent ==
    inflight # NoHandle /\ pc # "aborted"
    => pc \in Attempting \cup {"settle"} /\ inflight = CurrentHandle

\* An execution behind a registered handle is not abandoned: when the attempt
\* ends by timeout or cancellation, it has ended or has been told to stop.
\* (Human providers are not told when their step times out.)
GivenUpIsCancelled ==
    pc = "settle" /\ outcome \in {"timeout", "cancelled"}
    /\ ~IsHuman /\ inflight = CurrentHandle
    => CurrentHandle \in cancelled \/ task[CurrentHandle] = "finished"

\* A provider is invoked only for a node that an edge from a completed node or
\* a failure route leads to, after every node before it has been resolved.
OnlyActiveNodesRun ==
    \A hd \in Handle : task[hd] # "none" =>
        /\ \/ hd[1] \in failureRoutes
           \/ \E e \in Incoming(ir, hd[1]) : nodeStatus[e.source] = "completed"
        /\ \A i, j \in DOMAIN ir.order :
              i < j /\ ir.order[j] = hd[1] => nodeStatus[ir.order[i]] # "none"

\* Within one call of run(), a cancel request stops every node after the one
\* that was current: none invokes its provider or completes, and the run does
\* not end completed.
CancelWins ==
    driver = "run" /\ cancelPos > 0 =>
        /\ \A i \in DOMAIN ir.order : i > cancelPos =>
              /\ nodeStatus[ir.order[i]] \in {"none", "skipped", "cancelled"}
              /\ \A k \in 1..MaxAttempts : task[<<ir.order[i], k>>] = "none"
        /\ pc = "done" /\ cancelPos < Len(ir.order)
              => result \in {"cancelled", "failed"}

\* The event stream of a run that has ended tells the truth: the last event of
\* every node agrees with its status in the returned state, no node is left
\* open, and run_completed is emitted exactly when the caller is told so.
EventsTellStatus ==
    pc = "done" =>
        /\ \A n \in NodesOf(ir) :
              \/ lastEvent[n] = nodeStatus[n]
              \/ lastEvent[n] = "none" /\ nodeStatus[n] = "skipped"
              \/ lastEvent[n] = "blocked" /\ nodeStatus[n] = "failed"
              \/ lastEvent[n] = "timed_out" /\ nodeStatus[n] = "completed"
                 /\ n \in ir.fallback
        /\ driver = "run" => (runEvent = "run_completed" <=> result = "completed")

Halted == runStatus \in {"failed", "cancelled"}
Frozen ==
    /\ UNCHANGED <<runStatus, failureRoutes>>
    /\ With("completed")' = With("completed")
    /\ \A hd \in Handle : task[hd] = "none" => task'[hd] = "none"

\* Once the run has failed or been cancelled, no step invokes a provider,
\* completes a node, routes another failure or lets the run recover.
HaltedStaysHalted == [][Halted => Frozen]_vars

\* Attempts, providers, deadlines and cancel requests hidden, a run is a run
\* in the sense of ProcessRun.
Contract == INSTANCE ProcessRun WITH
    status <- nodeStatus, routed <- failureRoutes,
    health <- runStatus, verdict <- result
ImplementsProcessRun == Contract!RunSpec

-----------------------------------------------------------------------------
(* Liveness.                                                               *)

Ended == pc \in Terminal \cup {"suspended"}

\* Timeouts are sufficient: if every node's type has a deadline, run() returns
\* whatever the providers do after a call of theirs has returned.
TimedRunsEnd == NodesOf(ir) \ {ir.trigger} \subseteq ir.timed => <>Ended

\* Without deadlines run() returns if every invocation and execution ends.
RunsEnd ==
    (\A hd \in Handle : []<>(task[hd] \notin {"invoking", "running"})) => <>Ended

\* A cancel request ends the run if cancelled executions stop, whatever the
\* executions do that have not been cancelled.
CancelledRunsEnd ==
    (\A hd \in Handle : []<>(hd \notin cancelled \/ task[hd] # "running"))
    => (cancelEvent = "set" ~> Ended)

-----------------------------------------------------------------------------
(* What comments of the repository say, and the runtime does not keep.     *)

\* After cancel "the handle is invalid and MUST NOT be passed to poll or
\* await_result" (providers/base.py): the run thread may call poll on a handle
\* that cancel_run() has cancelled since the last check.
NoPollAfterCancel ==
    [][pc = "poll" /\ pc' # "poll" => CurrentHandle \notin cancelled]_vars

\* run() returns "the final RunState dict after all nodes have executed": not
\* if a node was suspended by interrupt(), although the run is said completed.
CompletedAfterAllNodes ==
    driver = "run" /\ result = "completed"
    => \A n \in NodesOf(ir) : nodeStatus[n] # "none"

\* on_failure.to is the "target node name to route to on failure": a run that
\* completes although a node failed has executed one of its handlers.
HandlerRuns ==
    result = "completed" =>
        \A n \in With("failed") :
            \E m \in HandlersOf(ir, n) \cap NodesOf(ir) :
                nodeStatus[m] \notin {"none", "skipped"}
=============================================================================
