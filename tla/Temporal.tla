------------------------------ MODULE Temporal ------------------------------
(***************************************************************************)
(* The package bpg-temporal: approval gates with their signals and timers  *)
(* (hitl.py), the policies that guard a node (governance.py), the workflow *)
(* of a node that runs in slices with checkpoints between them             *)
(* (runtime.py), and the identifiers it adds to events (metadata.py).      *)
(* None of it depends on a Temporal server; what the server would deliver, *)
(* signals, timers and restarts, arrives here as calls.                    *)
(*                                                                         *)
(* An optional value is a sequence of length zero or one.                  *)
(***************************************************************************)
EXTENDS Naturals, SequencesExt

None == << >>
Some(v) == <<v>>
OrElse(x, y) == IF x # None THEN x ELSE y

(***************************************************************************)
(* Approval gates.  required is the set of actors who may resolve one,     *)
(* empty for anybody; temporal tells what resolved it.                     *)
(***************************************************************************)
Resolutions == {"approved", "rejected", "escalated"}
Gate(required) == [outcome |-> "pending", signal |-> None, temporal |-> None,
                   required |-> required]

\* The exception raised, if any, and the gate after the call.
ApplySignal(gate, signal) ==
    LET Raise(error) == [raised |-> Some(error), gate |-> gate] IN
    IF gate.outcome # "pending" THEN Raise("already_resolved")
    ELSE IF signal.outcome \notin Resolutions THEN Raise("invalid_outcome")
    ELSE IF gate.required # {} /\ signal.actor \notin gate.required THEN Raise("not_authorized")
    ELSE [raised |-> None,
          gate |-> [gate EXCEPT !.outcome = signal.outcome, !.signal = Some(signal),
                                !.temporal = Some(<<"signal", signal.outcome>>)]]

ApplyTimeout(gate) ==
    IF gate.outcome # "pending" THEN gate
    ELSE [gate EXCEPT !.outcome = "timed_out", !.temporal = Some(<<"timer", "timeout">>)]

\* What an event about the gate says of it, and what a query answers.
ApprovalEventFields(gate) ==
    [outcome |-> gate.outcome, temporal |-> gate.temporal,
     actor |-> IF gate.signal = None THEN None ELSE Some(gate.signal[1].actor)]

QueryState(gate) ==
    ApprovalEventFields(gate)
        @@ [resolved_at |-> IF gate.signal = None THEN None ELSE Some(gate.signal[1].at)]

(***************************************************************************)
(* Policies: [kind |-> "approval", nodes |-> those that need one], and     *)
(* escalation policies, which block nothing.                               *)
(***************************************************************************)
Blocks(policy, context) ==
    /\ policy.kind = "approval"
    /\ context.node \in policy.nodes
    /\ ~context.approval_granted

\* The position of the policy whose violation is raised.
Enforce(policies, context) ==
    LET blocking == {i \in DOMAIN policies : Blocks(policies[i], context)} IN
    IF blocking = {} THEN None
    ELSE Some(CHOOSE i \in blocking : \A j \in blocking : i <= j)

IsAllowed(policies, context) == Enforce(policies, context) = None

(***************************************************************************)
(* The workflow of a node.  step[state, index] is the behavior's step: the *)
(* new state, and whether it is completed with an output.  A store holds   *)
(* the checkpoints of a workflow and the blobs of the states too large to  *)
(* be kept in line; policy is [spill, limit, size], with size[state] the   *)
(* length of a state's encoding.  limit of slices: NoLimit, or a number of *)
(* steps, of which at least one is executed.                               *)
(***************************************************************************)
NoLimit == None
NoCheckpoints == [checkpoints |-> << >>, blobs |-> << >>]

SaveCheckpoint(store, policy, run, index, state) ==
    LET spilled == policy.spill /\ policy.size[state] > policy.limit
        checkpoint == [run |-> run, index |-> index,
                       state |-> IF spilled THEN None ELSE Some(state),
                       blob |-> IF spilled THEN Some(Len(store.blobs) + 1) ELSE None]
    IN [checkpoints |-> Append(store.checkpoints, checkpoint),
        blobs |-> IF spilled THEN Append(store.blobs, state) ELSE store.blobs]

MaterializeState(store, checkpoint) ==
    IF checkpoint.state # None THEN checkpoint.state[1] ELSE store.blobs[checkpoint.blob[1]]

RECURSIVE Steps(_, _, _, _)
\* The state, the next index and the output after a slice.
Steps(step, state, index, limit) ==
    LET r == step[state, index] IN
    IF r.completed THEN [completed |-> TRUE, state |-> r.state, index |-> index + 1,
                         output |-> r.output]
    ELSE IF limit # NoLimit /\ limit[1] <= 1
    THEN [completed |-> FALSE, state |-> r.state, index |-> index + 1, output |-> None]
    ELSE Steps(step, r.state, index + 1, IF limit = NoLimit THEN limit ELSE Some(limit[1] - 1))

\* The result and the store after a slice; a result that is not completed has a
\* checkpoint, the last one in the store.
Drive(step, policy, store, run, state, index, limit) ==
    LET end == Steps(step, state, index, limit) IN
    [raised |-> None, completed |-> end.completed, state |-> end.state, output |-> end.output,
     store |-> IF end.completed THEN store
               ELSE SaveCheckpoint(store, policy, run, end.index, end.state)]

RunWorkflow(step, policy, run, input, limit) ==
    Drive(step, policy, NoCheckpoints, run, input, 0, limit)

Resume(step, policy, store, run, id, limit) ==
    LET Raise(error) == [raised |-> Some(error), completed |-> FALSE, store |-> store] IN
    IF id \notin DOMAIN store.checkpoints THEN Raise("unknown_checkpoint")
    ELSE LET checkpoint == store.checkpoints[id] IN
         IF checkpoint.run # run THEN Raise("other_run")
         ELSE Drive(step, policy, store, run, MaterializeState(store, checkpoint),
                    checkpoint.index, limit)

(***************************************************************************)
(* Identifiers: functions from field names to optional values.             *)
(***************************************************************************)
Lookup(source, f) == IF f \in DOMAIN source THEN source[f] ELSE None

\* given comes first, then the context of the workflow, then that of the activity, but
\* for the task queue, and for the fields an activity alone has.
ExtractTemporalMetadata(given, workflow, activity) ==
    [f \in {"namespace", "workflow_id", "run_id"} |->
        OrElse(Lookup(given, f), OrElse(Lookup(workflow, f), Lookup(activity, f)))]
    @@ [f \in {"activity_id", "activity_type", "attempt"} |->
        OrElse(Lookup(given, f), Lookup(activity, f))]
    @@ [task_queue |-> OrElse(Lookup(given, "task_queue"),
                              OrElse(Lookup(activity, "task_queue"), Lookup(workflow, "task_queue")))]
    @@ [f \in {"timer_id", "signal_name"} |-> Lookup(given, f)]

Present(metadata) == {f \in DOMAIN metadata : metadata[f] # None}

\* What an event has is kept; the rest is filled in.
Enrich(event, metadata) ==
    event @@ [f \in Present(metadata) |-> metadata[f]]

\* The identifiers of a run: outside a workflow, its id stands for the workflow's.
RunMetadata(extracted, run) ==
    IF extracted.workflow_id # None THEN extracted
    ELSE ExtractTemporalMetadata(
            [extracted EXCEPT !.workflow_id = Some(run),
                              !.namespace = OrElse(extracted.namespace, Some("default")),
                              !.timer_id = None, !.signal_name = None], << >>, << >>)

\* The result of a run of LangGraphRuntime, with its execution log.
WorkflowRun(log, extracted, run) ==
    LET metadata == RunMetadata(extracted, run) IN
    [temporal |-> [f \in Present(metadata) |-> metadata[f]],
     log |-> [i \in DOMAIN log |-> Enrich(log[i], metadata)]]
=============================================================================
