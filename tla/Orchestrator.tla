---------------------------- MODULE Orchestrator ----------------------------
(***************************************************************************)
(* One run of a process on the engine-neutral orchestrator                 *)
(* (src/src/bpg/runtime/orchestrator.py), the loop of the `local' backend. *)
(*                                                                         *)
(* The loop alternates two passes: a schedule pass over the order, which   *)
(* starts every pending node whose sources are resolved, and a poll pass   *)
(* over the tasks in flight, each of which may have ended, failed or       *)
(* exceeded its deadline.  The executions behind the tasks go on meanwhile. *)
(* As in LangGraphRuntime payloads are abstracted to the choices they      *)
(* cause.  A poll pass visits the tasks in any order; the code visits them *)
(* in the order in which they were started.                                *)
(***************************************************************************)
EXTENDS ProcessIR

VARIABLES
    ir,         \* self._ir
    nodeStatus, \* state["node_statuses"]; "none" when absent
    runStatus,  \* state["run_status"]
    pending,    \* nodes not yet started or resolved
    inflight,   \* nodes with a task in flight
    progressed, \* this turn of the loop has changed something
    pc,         \* the pass under way, or how run() ended
    cursor,     \* position of the schedule pass in the order
    toPoll,     \* tasks the poll pass has yet to visit
    due,        \* tasks past their deadline when the poll pass began
    executing,  \* nodes whose execution goes on
    expired,    \* nodes whose deadline has passed
    cancelled   \* nodes whose task has been cancelled

state == <<nodeStatus, runStatus>>
tasks == <<executing, expired, cancelled>>
vars == <<ir, state, pending, inflight, progressed, pc, cursor, toPoll, due, tasks>>

Terminal == {"completed", "skipped", "failed", "timed_out"}
NodeStatus == Terminal \cup {"none", "running"}
Over == {"returned", "raised"}

TypeOK ==
    /\ ir \in Processes
    /\ nodeStatus \in [Node -> NodeStatus]
    /\ runStatus \in {"running", "completed", "failed"}
    /\ pending \in SUBSET NodesOf(ir) /\ inflight \in SUBSET NodesOf(ir)
    /\ progressed \in BOOLEAN
    /\ pc \in {"schedule", "poll", "decide"} \cup Over
    /\ cursor \in 1..(Len(ir.order) + 1)
    /\ toPoll \in SUBSET inflight /\ due \in SUBSET ir.limited
    /\ executing \in SUBSET Node /\ expired \in SUBSET ir.limited
    /\ cancelled \in SUBSET ir.limited

Init ==
    /\ ir \in Processes
    /\ nodeStatus = [n \in Node |-> "none"] /\ runStatus = "running"
    /\ pending = NodesOf(ir) /\ inflight = {} /\ progressed = FALSE
    /\ pc = "schedule" /\ cursor = 1 /\ toPoll = {} /\ due = {}
    /\ executing = {} /\ expired = {} /\ cancelled = {}

-----------------------------------------------------------------------------
(* The schedule pass.                                                      *)

Current == ir.order[cursor]
AtNode == pc = "schedule" /\ cursor <= Len(ir.order)

\* Mutant: a node whose sources have merely been started is ready.
SourcesStarted == \A e \in Incoming(ir, Current) : nodeStatus[e.source] # "none"

SourcesResolved == \A e \in Incoming(ir, Current) : nodeStatus[e.source] \in Terminal
Ready == AtNode /\ Current \in pending /\ (SourcesResolved \/ Current = ir.trigger)

\* The sets of edges into the current node that may fire.
FiringSets ==
    LET active == {e \in Incoming(ir, Current) : nodeStatus[e.source] = "completed"}
    IN  {F \in SUBSET active : \A e \in active : e.conditional \/ e \in F}

\* The node needs no edge to fire.
Entry == Current = ir.trigger \/ Incoming(ir, Current) = {}
MayFire == Ready /\ (Entry \/ FiringSets # {{}})

Advance == cursor' = cursor + 1 /\ UNCHANGED <<ir, pc, toPoll, due>>

\* Already started, or an incoming edge whose source is not resolved.
PassOver ==
    /\ AtNode /\ ~Ready
    /\ Advance /\ UNCHANGED <<state, pending, inflight, progressed, tasks>>

\* The current node leaves the pending ones without a task.
Resolve(s, rs) ==
    /\ nodeStatus' = [nodeStatus EXCEPT ![Current] = s] /\ runStatus' = rs
    /\ pending' = pending \ {Current} /\ progressed' = TRUE
    /\ Advance /\ UNCHANGED <<inflight, tasks>>

Skip ==
    /\ Ready /\ ~Entry /\ {} \in FiringSets
    /\ Resolve("skipped", runStatus)

FailMapping ==
    /\ Ready /\ ~Entry /\ \E F \in FiringSets : \E e1, e2 \in F : e1 # e2
    /\ Resolve("failed", "failed")

\* The input does not validate, or the node is a module that was not inlined.
FailInput ==
    /\ MayFire
    /\ Resolve("failed", "failed")

\* Invoke the provider, whose execution may end at once.
StartNode ==
    /\ MayFire
    /\ nodeStatus' = [nodeStatus EXCEPT ![Current] = "running"]
    /\ pending' = pending \ {Current} /\ inflight' = inflight \cup {Current}
    /\ progressed' = TRUE
    /\ executing' \in {executing, executing \cup {Current}}
    /\ Advance /\ UNCHANGED <<runStatus, expired, cancelled>>

\* Mutant: the poll pass visits every task ever started.
PollStarted ==
    /\ pc = "schedule" /\ cursor > Len(ir.order)
    /\ IF runStatus = "failed"
       THEN pc' = "returned" /\ UNCHANGED <<toPoll, due>>
       ELSE pc' = "poll" /\ toPoll' = NodesOf(ir) \ pending /\ due' = expired \cap inflight
    /\ UNCHANGED <<ir, state, pending, inflight, progressed, cursor, tasks>>

\* After the last node: a run that has failed is over.
EndSchedule ==
    /\ pc = "schedule" /\ cursor > Len(ir.order)
    /\ IF runStatus = "failed"
       THEN pc' = "returned" /\ UNCHANGED <<toPoll, due>>
       ELSE pc' = "poll" /\ toPoll' = inflight /\ due' = expired \cap inflight
    /\ UNCHANGED <<ir, state, pending, inflight, progressed, cursor, tasks>>

-----------------------------------------------------------------------------
(* The poll pass.                                                          *)

Visit(n) == pc = "poll" /\ n \in toPoll /\ toPoll' = toPoll \ {n}

Settle(n, s, rs) ==
    /\ nodeStatus' = [nodeStatus EXCEPT ![n] = s] /\ runStatus' = rs
    /\ inflight' = inflight \ {n} /\ progressed' = TRUE
    /\ UNCHANGED <<ir, pending, pc, cursor, due, executing, expired>>

\* Mutant: a timeout that leaves the run's status alone.
TimeOutForgiven(n) ==
    /\ Visit(n) /\ n \in due
    /\ cancelled' = cancelled \cup {n}
    /\ Settle(n, "timed_out", runStatus)

\* Mutant: a timed-out task stays in flight.
TimeOutKept(n) ==
    /\ Visit(n) /\ n \in due
    /\ cancelled' = cancelled \cup {n} /\ progressed' = TRUE
    /\ nodeStatus' = [nodeStatus EXCEPT ![n] = "timed_out"] /\ runStatus' = "failed"
    /\ UNCHANGED <<ir, pending, inflight, pc, cursor, due, executing, expired>>

\* Mutant: the execution behind a timed-out task is not told to stop.
TimeOutOrphans(n) ==
    /\ Visit(n) /\ n \in due
    /\ Settle(n, "timed_out", "failed") /\ UNCHANGED cancelled

TimeOut(n) ==
    /\ Visit(n) /\ n \in due
    /\ cancelled' = cancelled \cup {n}
    /\ Settle(n, "timed_out", "failed")

\* Mutant: the deadline of a task still running is not looked at.
RunningFirst(n) ==
    /\ Visit(n) /\ n \in executing
    /\ UNCHANGED <<ir, state, pending, inflight, progressed, pc, cursor, due, tasks>>

StillRunning(n) ==
    /\ Visit(n) /\ n \notin due /\ n \in executing
    /\ UNCHANGED <<ir, state, pending, inflight, progressed, pc, cursor, due, tasks>>

Complete(n) ==
    /\ Visit(n) /\ n \notin due /\ n \notin executing
    /\ Settle(n, "completed", runStatus) /\ UNCHANGED cancelled

\* The execution failed, or its provider cannot be asked.
Fail(n) ==
    /\ Visit(n) /\ n \notin due
    /\ Settle(n, "failed", "failed") /\ UNCHANGED cancelled

EndPoll ==
    /\ pc = "poll" /\ toPoll = {} /\ pc' = "decide"
    /\ UNCHANGED <<ir, state, pending, inflight, progressed, cursor, toPoll, due, tasks>>

\* Another turn if something changed or a task is in flight (after a sleep), or
\* else the end: a run that has not failed is completed.
Continues == inflight # {} \/ (progressed /\ pending # {})
Decide ==
    /\ pc = "decide"
    /\ IF Continues
       THEN pc' = "schedule" /\ cursor' = 1 /\ progressed' = FALSE /\ UNCHANGED runStatus
       ELSE /\ pc' = "returned" /\ UNCHANGED <<cursor, progressed>>
            /\ runStatus' = IF runStatus = "failed" THEN "failed" ELSE "completed"
    /\ UNCHANGED <<ir, nodeStatus, pending, inflight, toPoll, due, tasks>>

-----------------------------------------------------------------------------
\* An exception leaves run(): a condition or a mapping that cannot be evaluated,
\* a provider that is not registered or whose invoke raises; an output that does
\* not validate, a provider's cancel, or its poll with anything else than a
\* ProviderError; at the end, the mapping of the process's output.
Raise ==
    /\ \/ MayFire
       \/ pc = "poll" /\ toPoll # {}
       \/ pc = "decide" /\ ~Continues /\ runStatus # "failed"
    /\ pc' = "raised"
    /\ UNCHANGED <<ir, state, pending, inflight, progressed, cursor, toPoll, due, tasks>>

ExecutionEnds(n) ==
    /\ n \in executing /\ executing' = executing \ {n}
    /\ UNCHANGED <<ir, state, pending, inflight, progressed, pc, cursor, toPoll, due,
                   expired, cancelled>>

\* Time: the deadline of a task passes.
Expire(n) ==
    /\ n \in inflight \cap ir.limited /\ n \notin expired
    /\ expired' = expired \cup {n}
    /\ UNCHANGED <<ir, state, pending, inflight, progressed, pc, cursor, toPoll, due,
                   executing, cancelled>>

Stop == pc \in Over /\ UNCHANGED vars

SchedulePass ==
    PassOver \/ Skip \/ FailMapping \/ FailInput \/ StartNode \/ EndSchedule
PollPass ==
    \/ \E n \in toPoll : TimeOut(n) \/ StillRunning(n) \/ Complete(n) \/ Fail(n)
    \/ EndPoll
Loop == SchedulePass \/ PollPass \/ Decide

Next ==
    \/ Loop \/ Raise \/ Stop
    \/ \E n \in Node : ExecutionEnds(n) \/ Expire(n)

Spec == Init /\ [][Next]_vars

\* The loop is scheduled and time passes; nothing is assumed of executions.
FairSpec == Spec /\ WF_vars(Loop) /\ \A n \in Node : WF_vars(Expire(n))

-----------------------------------------------------------------------------
\* A node leaves the pending ones only after every node that an edge into it
\* comes from has been resolved, however the passes and the tasks interleave.
SourcesFirst ==
    \A n \in NodesOf(ir) : n \notin pending =>
        \A e \in Incoming(ir, n) : nodeStatus[e.source] \in Terminal

\* The three books agree: a node is pending, in flight or resolved, and a task
\* is never counted twice or dropped while run() goes on.
BooksAgree ==
    \A n \in NodesOf(ir) :
        /\ n \in pending <=> nodeStatus[n] = "none"
        /\ n \in inflight <=> nodeStatus[n] = "running"

\* run() reports a run completed only when no node is left and none has failed,
\* and every node that was not skipped has done its work.
CompletedMeansDone ==
    pc = "returned" =>
        (runStatus = "completed" <=>
            \A n \in NodesOf(ir) : nodeStatus[n] \in {"completed", "skipped"})

\* Nothing goes on behind the loop's back: an execution is one of a task in
\* flight, one whose task was cancelled on time, or one whose provider could not
\* be asked about it, which the loop abandons with the node failed.
NoOrphans ==
    \A n \in executing : n \in inflight \cup cancelled \/ nodeStatus[n] = "failed"

\* run() returns or raises if every execution without a deadline ends.
LoopEnds ==
    (\A n \in Node : n \in ir.limited \/ []<>(n \notin executing)) => <>(pc \in Over)

\* The local backend "intentionally shares the same execution semantics path as
\* the LangGraph backend" (engines/local/backend.py), on which nothing starts
\* after the run has failed: here the schedule pass after a failed poll pass does.
NothingStartsAfterFailure == [][runStatus = "failed" => inflight' \subseteq inflight]_vars
=============================================================================
